# A verification development for SiteCMD

SiteCMD is a desktop application (Tauri: a Rust backend and a React frontend),
with a command line tool and an MCP server beside it, that scans web sites and
their source code, keeps the findings in one SQLite database, and follows issues
until a scan verifies that they are fixed.  This directory holds TLA+ models of
the part of the backend that decides *when a scan may run, what it leaves
behind, who may change it, and how what users and agents decide about the
findings travels*, the TLC configurations that check them, and TLAPS proofs.  Paths
below are relative to `src/`; `S/` stands for `apps/desktop/src-tauri/src/`.

## 1. The system

### Components, state, operations

| component | state | operations | who calls it |
|---|---|---|---|
| cancellation registry, `S/core/scan_control.rs` | three mutex-protected sets of request ids | `begin_request`, `request_cancel`, `is_cancelled`, `finish_request` | handlers (begin, poll, drop of the guard), the `cancel_scan` command |
| scan executions, `S/db/scan_executions.rs`, `S/core/scan_execution.rs` | table `scan_executions`: key, fingerprint, status, web and code component | admit, start, finish, cancel before start, link a score | the orchestrator |
| orchestrator, `S/commands/scan/execution.rs`, `verification.rs` | locals of an async task | one scan request from admission to its events | frontend commands, scheduler, agent queue, issue verification |
| collectors, `S/commands/scan/web_scan.rs`, `code_scan.rs`, `multi_scan.rs`, `page_loop.rs` | — | fetch, analyse, poll the registry, persist a run | orchestrator |
| runs and projection, `S/db/scan_runs.rs`, `scan_run_projection.rs` | `scan_runs`, `scan_findings`, `work_items` | persist a run and reconcile work items in one transaction | collectors |
| retention, `S/db/scan_retention.rs`, `S/db/retention.rs`, `S/background/retention_sweep.rs` | — | prune a scope after a scan; daily sweep of abandoned rows | orchestrator; background loop |
| database worker, `S/db/mod.rs` | queue of closures, one connection | run operations in order; a caller waits at most 60 s | everyone |
| agent requests, `S/db/agent_requests.rs`, `S/background/agent_request_watcher.rs`, `apps/mcp-server/src/db_agent_requests.ts` | table `agent_requests` | insert (MCP), claim, run, settle, expire, reconcile at start | MCP server, watcher |
| fix attempts, `S/db/fix_attempts.rs`, `S/background/fix_attempt_watcher.rs`, `apps/mcp-server/src/db_fix_attempts.ts` | table `fix_attempts` | create, report done, verify, settle, expire, cancel | user, agent, watcher |
| scheduler, `S/background/scan_scheduler.rs`, `S/db/schedules.rs` | table `scan_schedules` | list due, run, mark | background loop, user |
| issue lifecycle, `S/db/issue_states.rs`, `work_items.rs`, `work_item_groups.rs` | issue and group states | resolve, regress, snooze, verify | projection, user, watcher, connected service |
| connected service, `S/db/connected_*.rs`, `S/connected_*.rs` | outbox, sequences, credentials | record, deliver, settle, conflict, rotate, recover | user, sync loop |
| licensing, `S/licensing/`, `S/keyring/app_secrets.rs` | the license row, the key in the keychain, the write generation, one lock | activate, validate, deactivate, replace by an import | user, background |
| catalog credential, `S/background/catalog_refresh.rs`, `catalog_refresh_tick.rs` | the token and the releases that are owed, in the keychain; one lock | ensure, release, record, retry, reject | licensing commands, the catalog loop |
| privileged broker, `S/commands/privileged_command_broker/` | tokens | issue, consume, expire | frontend |
| engine, checks, correlation, webview, integrations, reports, frontend views, CLI, tooling | | analysis, I/O, presentation | |

`PROJECT.json` lists the components with their sources, and for those that are
not modelled the reason or the plan.

### How the scan components interact

A caller builds a request with an idempotency key.  `run_scan_execution_internal`
registers a request id in the cancellation registry, validates the request into a
plan, and asks the worker to *admit* an execution under the key.  The table
answers with a new row, with the row the key already holds (same fingerprint, and
open or settled at most 15 minutes ago), or with a refusal.  A new row is worked
on by that handler alone: the web component and then the code component are
started, collected, persisted as a run and finished; the last finish derives the
status of the execution.  Then the score is linked, the scope is pruned and an
event is put into the timeline.  Meanwhile a `cancel_scan` may arrive at any
moment, other handlers do the same on other rows, the retention sweep deletes old
open rows, and the process may die.

Coding agents ask for scans and fix attempts through the MCP server, which inserts
rows into `agent_requests` from its own process.  One loop of the desktop polls the
table, claims what is due, creates fix attempts itself and spawns a task for each
scan, which calls the orchestrator under the key `agent_request:<id>`.  The loop runs
under a supervisor that starts it again after a panic; its tasks are not touched.

A scan of several pages has a run of its own and one for each page; each page's run
and the session's resolve the open work items they cover.  The scheduler lists the
schedules that are due and scans them one by one under the key
`schedule:<id>:<next run>`.  A fix attempt follows one issue from its brief, through
the agent that reports it done, to the watcher, which runs the check again and looks
whether the work items are still open.  The decisions of users on issue groups are
put into an outbox in the transaction that makes them, and a sync delivers them to
the connected service under a key and the revision they are based on.

A license is four things that are never written in one transaction: a row, a key in
the keychain, a seat at the provider and a credential at the catalog service.  The
commands and the catalog loop change them while they wait for the network and for
dialogs; two locks and a write generation keep the row and the key together, and what
cannot be released now is recorded in the keychain for the loop to retry.

### What is hard about it

* **Interleavings.** Handlers are async tasks; between two database operations
  anything may happen to the row they work on.  The three sets of the registry are
  locked one after the other, never together.
* **Failures.** A database operation may fail, or its answer may be lost: after 60 s
  the caller gets an error and the operation still runs.  One component may fail
  and the other succeed.
* **Crashes.** Nothing reconciles open executions at startup; a row left open
  answers for its key until the sweep takes it after 30 days.
* **Stale state.** A handler carries an execution id for minutes; a prune of another
  handler, or the sweep, can delete the row in between.
* **Finality.** What is settled must not change, except to be deleted.

### What makes the components correct

* registry: a cancel reaches the attempt it was made for and no other; nothing
  stays behind;
* admission: one key, one handler at a time, one plan; a repeated request is
  answered and never run again;
* settlement: a status is backed by the saved runs; partial evidence is never
  shown as complete; a settled execution is final; what is admitted settles;
* cancellation: a cancelled scan settles and leaves no evidence;
* retention: only superseded history and abandoned rows are deleted;
* projection: only what was looked at and not found is resolved;
* scheduler: an occurrence is scanned once, and a due schedule is served;
* fix attempts: one active attempt per target; every attempt ends; a regression is
  something that was seen absent;
* license: the row never goes back to an older answer of the provider; the key is that
  of the row; no seat and no credential is left that nobody will release; the two locks
  are taken in one order;
* outbox: a recorded decision is delivered or kept, once, and overrules only what its
  user could see;
* agent requests: at most one scan holds the queue; what is settled is final; work is
  begun once and reported done only when it was; nothing is stuck for ever.

## 2. Modules

| module | models | state and actions |
|---|---|---|
| `ScanControl` | `S/core/scan_control.rs` | the three sets; one action per critical section; attempts (calls that register an id) and cancel calls as processes |
| `ScanExecutionStore` | `S/db/scan_executions.rs`, `S/db/scan_retention.rs`, one statement of `S/db/retention.rs` | no variables: each statement is an operator from a table to a table, with its guard beside it |
| `ScanExecution` | `S/commands/scan/execution.rs`, `verification.rs`, `execution_events.rs` | the tables, and per caller the locals of the handler that runs its request; one action per database operation or local decision |
| `IdempotentExecution` | the promise of an idempotency key | abstract specification: a key is free or holds a plan and its outcome |
| `ScanExecutionRefinement` | | the refinement mapping from the table to the promise |
| `ScanExecutionProofs` | | inductive invariant and theorems of `ScanExecution`; every step of it is one of the promise, or none |
| `AgentRequests` | `S/background/agent_request_watcher.rs`, `S/db/agent_requests.rs`, the async supervisor | the table, the loop's locals, one task per scan; one action per statement or local decision |
| `AgentRequestsProofs` | | inductive invariant and theorems of `AgentRequests` |
| `IssueStore` | one function of `S/db/issue_states.rs`, `VerifiedBy`, `GroupDecision` | no variables: the states of a group and what an observation makes of them |
| `FixAttempts` | `S/db/fix_attempts.rs`, `S/commands/fix_attempts.rs`, the MCP server's `db_fix_attempts.ts`, `S/background/fix_attempt_watcher.rs`, `verify_issue` in `S/commands/issues.rs` | the table, the work items of one check, the code they are found in, the watcher's locals, one other scan |
| `PageScan` | `S/commands/scan/multi_scan.rs`, `page_loop.rs`, their part of `S/db/scan_runs.rs`, `S/db/scan_run_projection.rs`, the engine's `coverage.rs` | the runs of a session and its pages, the open work items of a page check and of a check of the whole set, the handler's locals |
| `ScanScheduler` | `S/background/scan_scheduler.rs`, `S/commands/scan/schedule.rs`, `S/db/schedules.rs` | the local clock, the schedules, the keys held, the list in hand |
| `ConnectedOutbox` | `S/db/connected_outbox.rs`, `S/db/connected_sites.rs`, `sync_connected_site` in `S/commands/connected.rs` | decisions, binding, known revisions, outbox, the sync's locals; and the service (external) with what is on its way to it |
| `License` | `S/licensing/commands/license_lifecycle*.rs`, `S/licensing/generation.rs`, `store.rs`, `S/background/catalog_refresh.rs`, `catalog_refresh_tick.rs`, the import of a backup | the row and the worker's queue, the keychain, who is behind the generation, the two locks, the locals of the commands and the loop; and the provider and the catalog service (external) |
| `PageScanProofs`, `ScanSchedulerProofs`, `ConnectedOutboxProofs`, `LicenseProofs` | | inductive invariants and theorems of these modules |
| `MCServicesProofs` | | inductive invariant and theorems of `ScanControl`; the theorems of the other three parts for the composition that TLC checks |
| `MCFixesAndLicenseProofs` | | inductive invariants and theorems of `FixAttempts`; the theorems of `License` for the composition that TLC checks |
| `MCScanControl`, `MCScanExecution` | | instances for TLC: plans, symmetry |
| `MCScanSafety` | | behaviours of `ScanExecution` for its safety: rough ones (faults, a crash, time) and calm, longer ones |
| `MCScanFair` | | fair behaviours of `ScanExecution`, calm (requests and cancels) and rough (a fault, a crash, time) |
| `MCAgentRequests` | | fair behaviours of `AgentRequests` with few events |
| `MCFixSettles` | | fair behaviours of `FixAttempts`, with another scan where it decides something |
| `MCLicenseDrain` | | `License` with commands called one after the other beside a pass of the loop |
| `MCFixesAndLicense` | | `FixAttempts` and `License` side by side, one in each behaviour |
| `MCServices` | | `ScanControl`, `PageScan`, `ScanScheduler` and `ConnectedOutbox` side by side: they share only the process, and each behaviour is one of one of them |

### ScanControl

`running`, `cancelled` and `pending` are the three sets.  `begin_request` is
`BeginInsert`, `BeginConsume`, `BeginSettle`; `finish_request` is `FinishRunning`,
`FinishCancelled`, `FinishPending`; `request_cancel` is `CancelCheck`,
`CancelRecord`.  `Dispatch` is the moment the caller chose an id and sent the
request: from then on a cancel can be made for it.  `Refuse` is a verification
turned away before it registers.  `since` and `until` are history variables: where
the attempt was when the cancel call began and returned.  `FreshIds` says whether
an id may be used again; the registry's own code and tests speak about reuse, so
the passing run allows it and the theorems hold either way.

### ScanExecution and its store

`executions` is the table, `nextId` its counter, `runs` the pairs of an execution
and a component with a saved run (`ON DELETE CASCADE`), `timeline` the executions
with an event.  `job[c]` is `NoJob` or the locals of the handler caller `c` runs:
where it is, the request, the clock it read, the id it was given, the component in
hand and its result, and what `is_cancelled` answers it.

| action | code |
|---|---|
| `Request` | the call, `validate_plan`, the clock read before admission |
| `AdmitNew`, `AdmitReused`, `AdmitRefused` | `admit_scan_execution` and what the handler does with the three answers |
| `Precheck`, `CancelBeforeStart` | the poll before the first component |
| `Start`, `SkipCode` | start of a component; the poll before the code component |
| `CollectFails`, `Collected` | the collector, with its last poll before it writes |
| `Persist`, `PersistOrphan` | the transaction that saves the run; without its row the foreign key refuses it |
| `Finish` | the component's status and, when it is the last, the execution's |
| `Link`, `ScoreFails`, `Retain`, `Record` | score, prune, timeline |
| `Ineligible` | a guarded statement that found no row: the error is returned |
| `DbFails`, and the argument `ok` of the writes | an operation refused; an operation whose answer was lost |
| `Cancel`, `Tick`, `Sweep`, `Crash` | `cancel_scan`, time, the daily sweep, the end of the process |

The two modules on scans meet in one bit: `job[c].cancelled` is what `ScanControl`
answers to `is_cancelled` for the request of `c`.  `ScanControl` says when a cancel
becomes that bit; `ScanExecution` takes it as set at any time.

**Abstractions.**  A plan stands for a validated request; two requests have one plan
iff their fingerprints are equal (the fingerprint hashes every field of the plan).
Plans have a project (without one, linking and recording are skipped).  The web
component has one page.  A late database operation happens at once: operations run
in order and only operations read the tables, so before the next one nobody can tell
when it ran.  A panic of a handler is a `Crash` that spares the others and is not
modelled by itself.  `release_scan_execution_before_start` is left out: only tests
call it.

### AgentRequests

`requests` is the table: a row per id, "absent" before the MCP server inserts it.
`watcher` holds the locals of the loop: where it is, the rows it still has to fail or
claim (`todo`), those it has claimed (`claimed`), `scan_running`, the clock it read, and
the outcome of the fix request in hand.  `tasks[i]` is the task that runs the scan of
request `i`.

| action | code |
|---|---|
| `Insert` | `createAgentRequest` in the MCP server |
| `ReconcileList`, `ReconcileFail`, `Reconciled`, `ReconcileStops` | `reconcile_orphaned_requests` at every start of the loop: a list and one statement per row; the first error ends it |
| `TickBegins`, `Expire`, `List` | the head of `tick` |
| `Probe`, `Skip`, `Claim`, `ClaimFails`, `Claimed` | `claim_due_requests` |
| `StartFix`, `SettleFix` | a fix request, in the loop |
| `SpawnScan`, `ScanEnds`, `SettleScan` | a scan request, on its task |
| `LoopPanics`, `TaskPanics`, `Crash` | the supervisor builds the loop anew; the panic of a task is not seen; the process ends |

A fix attempt is created in one step and a scan ends in one step: what they do is the
matter of other modules.  The heartbeat, the wording of failures, and the deletion of
rows with their project are left out.  The wall clock does not go back.

### FixAttempts and IssueStore

One check of one project: `code` is where its defects are in what is deployed, `open`
what the work items say, `life` the state of the group.  A scan copies `code` at one
step (`OtherObserves`, `Trigger`) and is projected at a later one (`OtherWrites`,
`Write`), so that edits, other scans and decisions fall in between.

| action | code |
|---|---|
| `Create`, `Cancel` | `create_fix_attempt_inner` with its cleanup, `cancel_fix_attempt` |
| `FetchBrief`, `Request` | `getFixBrief`, `requestVerification` of the MCP server |
| `TickBegins`, `Start`, `Trigger`, `Write`, `CheckFails`, `GiveUp` | the sweep, the first list of a tick, `start_verification` with `verify_issue_sources_for_check` |
| `ListVerifying`, `Evaluate`, `DecideOutcome`, `Verify`, `Mark`, `Fail`, `Touch`, `TickEnds` | the second list, `evaluate_attempt` (two reads) and `settle_attempt` |
| `OtherObserves`, `OtherWrites`, `OtherFails`, `UserChecks`, `UserMarks` | a background scan, or the user's `verify_issue` |
| `Edit`, `Decide`, `Crash`, `Launch`, `Time` | the code changes; a decision; the application ends and starts; ten minutes pass |

Kinds of checks differ in who answers: a code scan or a scan of a local site answers at
once, a remote site may wait two hours for a deploy and is checked again every ten
minutes, an integration is asked to poll and has ten minutes' grace.  The waits are
constants with the code's order (recheck, expiry), not its values.  Ages replace
clocks, so that time has no bound.

Two things the code does that no comment denies: *start_verification* sets the status
before it runs the check, so after a crash between the two the check is never run for
that attempt and it is settled from older evidence; and the sources of an issue are
read after its state, so an integration's attempt whose last row was resolved in
between has no source that would not settle at once, and fails without its grace.

### PageScan

One check of the pages and one of the whole set; what is done for a check does not
depend on the others.  A page may redirect to any route, have any verdict, lose its
browser layer, fail or be cancelled.  `Derive` and `Covers` are the engine's coverage
manifest, `Reconciled` the projection.  `CompleteParent` is an update without a guard
on the run's status, `FailRun` one with it.  `loop.signals` is what
`should_analyze_session` counts.

`Start` has a way out of its own, `noSession`: its error leaves the handler before the block
that fails the run, and without the id of the run.  Since an operation that timed out is
still done by the worker, the run may be there nevertheless; then it stays running, as
nothing settles a run that was not given its id.  `ParentSettles` names this case beside that
of a failure whose `fail_scan_run` failed too.  Both are exceptions to what the code
intends: a test says that the abort paths must flip the parent "or history shows it running
forever" (`S/db/sessions.rs:627`), and the worker that timed-out writes "must be idempotent or
reconcilable" (`S/db/mod.rs:152`).  Without its last disjunct the property fails with
a single fault, in one step of the handler.

### ScanScheduler

The clock counts ticks of local time, a configurable number to a day and days to a
week; it can be set back.  An execution is what `IdempotentExecution` promises: its key
is collected once.  Four consequences of the order in `run_due_schedule` (execute, then
mark) are in the model and no comment promises otherwise: an execution that is refused,
or whose process ends between admission and the mark, leaves its occurrence without a
scan; a schedule that is turned off while an earlier one of the same list is scanned is
still scanned; and a plan saved during a scan may get one time of the old plan
(`EditTakesEffect` says that it is one).

### ConnectedOutbox

A decision is a number, which is also the idempotency key minted with it.  `seen` keeps
the revision that was known when the decision was made, `recorded` the last decision
that went to the outbox.  A request is answered, or its answer is lost, or it arrives
after the sync gave up; `Abort` ends a sync anywhere.  The service (external, modelled
from how the code uses it) keeps revisions, refuses a mutation based on another
revision, and answers a key it knows with its first receipt.

| action | code |
|---|---|
| `Connect`, `Decide` | `connect_site`; `record_group_decision` |
| `SyncStarts`, `Pull`, `Recover`, `Build`, `Submit`, `Mark` | `sync_connected_site` up to the bootstrap |
| `List`, `Send`, `Settle`, `Conflict`, `Finish`, `Abort` | the delivery of the outbox and the last pull |
| `ArrivesLate`, `OtherDecides`, `OtherBootstraps` | the service |

One thing that follows from the protocol: after a lost answer the next decision of the
same user is based on the revision from before it and is shown as a conflict with the
user's own earlier decision.

### License

`row` is what the worker has done, `queue` what it will still do of operations whose
callers were told of a timeout; who reads the row is served after them, so a read waits
for `queue = <<>>`.  `behind` stands for the write generation: the validations that
captured one which is no longer the current.  `truth` counts the changes of the
subscription at the provider, and a row carries the count its status reflects, so that
an older answer can be told from a newer one.

| action | code |
|---|---|
| `Start`, `Load` | the call, and `load_cached_license_state` without the lock |
| `Capture`, `Ask`, `Commit` | `validate_license_pass`: generation, provider, and the write under the lock; a stale answer is discarded and asked for once more |
| `Plan`, `Confirm`, `Mint`, `Teardown`, `Stray` | `activate_license_with_ports` up to the write: the plan, the dialog and its recheck, the provider, the predecessor's credential and seat, the stray token |
| `Persist`, `Save`, `Rekey`, `Restore`, `Sweep` | `persist_generation`: key, row, and both put back when the row was not saved; then the predecessor's credential again |
| `FindKey`, `Unlink`, `Clear`, `Reread`, `Tombstone`, `Forget`, `Credential` | `deactivate_license` |
| `Released`, `Recorded` | a seat is released at the provider, or the release is recorded |
| `Ensure`, `Check`, `Issue` | `ensure_credential`: the credential lock, the look at key and row under both locks, `obtain_token` |
| `Tick`, `Retry`, `Settle`, `Look`, `FindToken`, `Fetch`, `Reject`, `Adopt` | the loop: `retry_pending_release`, then `tick` |
| `Land`, `Import`, `Turn` | the worker after a timeout; the import of a backup; the provider |

**Abstractions.**  A lock that is taken and given back with no await between that
others could notice is one step; where a holder awaits something others take part in
(`Save` to `Restore`, `Clear` to `Forget` or `Tombstone`, `Check` and `Issue`), the lock
is a variable.  `Confirm` reads the row and the key in one step; the code reads them one
after the other without a lock, and `Persist` looks at both again under it.  What a
command mints is named after it.  The debug license, grace, dates, the tier and what the
commands answer are left out: `Adopt` writes the row back as it read it.  `owed` is the record of releases,
`drain` the pass over it (`left` to try, `settled`).  The process
does not end: what a command has in hand would be lost with it, and the code has no
record of it before the row is written.  `stranded` and `torn` are history: a seat or
credential that the code itself logs as stranded (a conclusive refusal, a record that
could not be stored), and a write that could not be put back, which the code logs.
`overtaken` is history too: what was recorded again after the pass under way had settled it.

## 3. Runs

All configurations switch deadlock checking off: the bounds on admissions, the clock,
faults and crashes make every behaviour end.

| run | bounds | what it shows |
|---|---|---|
| `scan_control_race` (violation) | 1 attempt, 1 cancel | a cancel that overlaps `begin_request` is lost |
| `scan_execution` | 2 callers, 2 keys.  Rough behaviours: a full scan and a verification, 2 admissions (`RoughAdmissions`), and at most 3 (`RoughEvents`) of these at a time: a fault, a crash, a tick of the clock so far, a handler at work, one that was cancelled.  Calm ones: 3 admissions, 3 plans over 2 scopes and 2 classes, `Keep` 1; no fault, crash or tick.  Cancels and the sweep (window 0) in both | ownership, keys, evidence, finality, the refinement and the deletions.  Two handlers are enough for every pairwise property; one fault and one crash reach each error path of each operation, as an orphan of the sweep does; two handlers at work are hit by one event, one handler by two.  Three rows make one superseded row and one of another window; the third admission can take a key that was pruned or swept |
| `scan_fair` | fair; 2 callers, 2 keys, 2 admissions, clock 0..1, 1 fault or 1 crash.  Of the behaviours that differ in the names of callers and keys, one is taken: `OneIsFirst`.  Calm behaviours have full scans and cancels and nothing else; rough ones a web scan that is asked for twice under one key | every handler returns; what is admitted settles, and a cancelled scan not as evidence; what is left open is swept.  A web scan has every step whose failure can leave a row open; a second key would only repeat it |
| `agent_requests` | fair; 2 requests of any kind, clock 0..2, expiry 1, 1 fault, or 1 panic and 1 crash (`FewEvents`) | gate, finality, single execution, honest results, the window; every request settles while no operation fails, and a row left running by a failure expires.  Two scans are enough for the gate; a fault, panic or crash may hit every step, and a crash may follow a panic or the other way round: both restart the loop, which reconciles what is left |
| `agent_scans` (violation) | 2 requests, 1 panic | two scans in flight |
| `fixes_and_license` | fixes: a code check with 2 defects on 2 lines, at first one or both of them reported, 2 attempts, 1 edit, 1 other scan, 1 claim (at most 3 of attempts, edits and other scans, 2 under a claim).  License: 2 commands of any kind, 2 license keys, 1 change of the subscription, 1 tick of the loop, 1 import, 2 failures; at most 3 (`MaxHard`) of these events, minted installations and second keys in one behaviour, and no tick with an import.  Defects and commands are symmetric | one active attempt per target; regressions were absent.  Two defects make an occurrence differ from its group; two attempts collide or stand side by side.  The row, the key, the seats and the credentials of the license.  Two commands are a race, and the loop is a third; a failure and a failure of its compensation are two faults |
| `fix_settles` | fair; every kind, 1 defect, 2 attempts, 1 edit, 1 fault, 1 crash and, for a check that is not a code check, 1 other scan: two of these with one attempt, one with two (`FewEvents`); grace 1, recheck 1, expiry 2 | the wait for an answer is never swept; every attempt ends.  The waits keep the code's order; expiry 2 leaves room for a recheck within the wait |
| `fix_verified` (violation) | 1 attempt, 2 edits, 1 other scan | a group marked as verified while it is reported |
| `services` | registry: 2 attempts, 2 cancels, 2 ids, reused, one behaviour of those that differ in names (`OneIsFirst`); pages: 2 of 3 routes, 2 faults; scheduler: 1 schedule, days of 2 ticks and weeks of 3 days, clock 0..6, 1 edit, 1 set back, 1 crash, 2 faults, two of these at most (`FewEvents`); outbox: 1 group, 2 decisions, 2 others | honoured cancels and what can leak; what a session claims and resolves; next runs, occurrences and their progress; delivery of decisions.  A third route is one a page redirects to without having been selected; six ticks are a week, so every weekday and its wrap occur; groups do not interact, and a second decision is what an answer to the first can hit |
| `outbox_bootstrap` (violation) | 1 group, 2 decisions | a decision that falls between the bootstrap and its commit |
| `license_locks` (violation) | 2 commands, 1 failure | a deactivation and an activation that wait for each other's lock |
| `license_drain` (violation) | 3 commands one after the other, 1 pass over what is owed, 2 failures, no write of the database timed out and no release that could not be recorded | a release that is recorded again while the pass is under way and goes with the one it settled |

`CalmScanSettles`, `CalmCancelStopsScan` and `RoughScanIsSwept` are `AdmittedSettles`,
`CancelStopsScan` and `AbandonedIsSwept` of `ScanExecution` for the behaviours of their
kind.  The type invariants of `ScanControl`, `ScanExecution` and `AgentRequests` are proved
(section 4) rather than run again.

**Fairness.**  `CallerStep` is weakly fair for each caller: collectors have timeouts,
the worker serves its queue in order, and Tokio polls a ready task.  It is fairness
of the handler, not of any single outcome: which of the collector's ends, or whether
a database operation fails, stays open (within the bound of faults).  `Tick` and
`Sweep` are weakly fair: the sweep is a supervised loop that runs at startup and
daily.  Requests, cancels and crashes are not fair.  `MCScanFair` chooses calm or rough
at the start and restricts the steps, never the fairness of a handler: whatever a handler
is at, it has a step of the kind the behaviour is of.
What may come first is restricted as well (`OneIsFirst`): callers and keys are symmetric in
the specification, its fairness and the properties, so every fair behaviour is one of those
that are checked, with the names exchanged.
In `AgentRequests` the loop is fair as a whole (it is polled every five seconds, and its
operations end), and so are each task (a scan returns: `HandlerReturns` of
`ScanExecution`) and the clock.
In `FixAttempts` the watcher is weakly fair as a whole and the application is started
again; `Time` is strongly fair, because it moves only while the watcher sleeps: five
seconds between two ticks add up to ten minutes if the watcher sleeps again and again.
In `MCServices` the handler of the session, the scheduler's loop and the clock are
weakly fair; users, faults and the clock being set back are not.

**Findings.**  Six statements of the repository are not kept by the code; each is
the property of a run that TLC refutes.

1. *"Intent for an unregistered id is parked to cover start/cancel races"*
   (`S/core/scan_control.rs:71`): the check and the write of `request_cancel` are two
   critical sections, and `begin_request` fits in between.
2. *"a scan claimed on an earlier tick is still `running`, so the table bounds
   concurrency over time"* (`S/background/agent_request_watcher.rs:91`): after a panic of
   the loop, the new loop fails the rows of scans that are still alive.  What does hold,
   and is proved, is weaker: of the scans in flight at most one has its row still
   running.
3. *"A local scan re-ran the check and stopped reporting the issue"*
   (`crates/engine/src/vocab.rs:344`): the group is marked two operations after the
   look at its items, whatever was projected in between.
4. *"The bootstrap payload carries this group's state already"*
   (`S/db/connected_outbox.rs:129`): not that of a decision made between the building of
   the payload and `mark_site_bootstrapped`; it is in neither, and stays here.
5. *"The credential lock may acquire this lock for bounded reads, but this lock is never
   held while acquiring that one"*
   (`S/licensing/commands/license_lifecycle.rs:26`): when the clear of the row timed out
   and the row cannot be seen, `deactivate_license` records the release under
   `LICENSE_MUTATION`, and `ensure_credential` waits the other way round.  The same
   comment's *"Network and dialogs run unlocked"* is not what
   `S/commands/connected_setup.rs:56` does, which is not modelled.
6. *"then subtract only settled entries so concurrent appends survive"*
   (`S/background/catalog_refresh.rs:356`): entries are compared by key and installation,
   so a release that the pass has settled and that is recorded again before the pass ends
   (the credential was issued anew in between, and its second release failed) is taken off
   with the first.  `NothingIsForgotten` holds but for exactly these (`overtaken`).

Three more were met and have no run of their own: a cancel that arrives after
`finish_request` stays parked under its id (`NoCancelLeaks` says that only such cancels
do), against the words of the test at `S/core/scan_control.rs:171`, which calls
`finish_request` a second time; a key whose row retention deleted is admitted as new,
against `docs/engineering/unified-scan-architecture.md:117`; and
`apply_execution_retention` may delete a settled row before `record_scan_execution_event`
reads it, so that its event is never recorded.

## 4. Proofs

`MCServicesProofs` on `ScanControl`, for every set of attempts, cancels and ids:

* `RegistryTypes`: `Spec => []TypeOK`.
* `SequentialCancelIsSeen`: `Spec => []SequentialCancelIsHonoured`.
* `NothingLeaks`: `Spec => []NoCancelLeaks`.

The invariant is `TypeOK`, `Registered` and `Kept`.  `SequentialCancelIsHonoured` only
speaks of running attempts, so it says nothing about how the intent survives the
registration: `Kept` follows it from the parked set, through the local of
`begin_request`, to the cancelled set.  That no other call removes it needs
`Registered`: active attempts carry different ids, and `running` holds exactly the ids
of the registered ones.  `NothingLeaks` needs, beside them, `Backed`: with ids that are not
used again, what is parked or recorded was left there by a cancel call that has returned and whose
attempt is still to register or to finish, unless the call came after its end (`Stray`).

`ScanExecutionProofs`, for every set of callers, keys and plans and all bounds and
windows, from `ScanExecutionAssumption` (what `validate_plan` and
`run_bounded_web_verification` can produce):

* `TypeCorrect`: `Spec => []TypeOK`; this includes that a run belongs to a row that
  exists, and that every id a handler holds has been given out.
* `ExecutionHasOneOwner`: `Spec => []SingleOwner`, from `OneOwner` (over all ids, not
  only those of rows: a handler may outlive its row, and ids are never given out
  again because the counter is `AUTOINCREMENT`).
* `EvidenceIsBacked` and `CompleteMeansWhole`.  The invariant adds `RowInv` (what a
  row says about its runs, for open rows too) and `HandInv` (what a handler has in
  hand: at `persist` there is no run of its component yet, at `finish` a complete
  result has its run and a cancelled one has none).  Neither property is inductive:
  whether `Finish` may write "complete" depends on what the handler did before.  The
  steps of a handler are summed up in `CallerMove`: it changes its own job, at most
  the row it drives, or deletes pruned rows; other rows and hands are then untouched
  because of `OneOwner`.

* `OpenExecutionHasOwner`, `OneCollectionPerKey` and the action property
  `SettledStaysFrozen`.  They need `OneRowPerKey` (a key names at most one row) and
  `WorkInv`: the row a handler works on is still open and carries its key and the time
  it read, or it is gone and the handler is older than the window of the sweep.  Time
  is what keeps a swept row from coming back under the same handler.
  `NoJobAssumption` says that `NoJob` is not the locals of a handler.
* `RetentionKeeps`, the action property `RetentionKeepsNewest`.  A prune takes all rows of
  its scope that have `Keep` newer ones in their window, and of these newer ones it may
  take some too; that `Keep` of them stay needs the newest one it takes, which has `Keep`
  above it that it does not take (`NewestThere`, `PrunedKeeps`).  That there is a newest one
  is no induction over the table: of the finite sets of newer rows one contains no other
  (`FS_StrictSubsetOrderingWellFounded`).

`KeepsPromise`, in the same module, is `Spec => ImplementsPromise`, for
every number of callers, keys and plans.  From the invariant above, an admission takes
a key that is free; starts, persists and scores leave the promise as it is; the `Finish`
that settles a row, or the cancel before its start, settles the promise of its key, once;
a prune or a sweep frees keys, any number at once.  `OpenAssumption` and
`FreeAssumption` say that the two constants of the abstract state are none of its other
values.

`AgentRequestsProofs`, for every number of requests, faults, panics and crashes, and
every expiry: `TypeCorrect`, `ScansSerialized`, `RunsOnce`, `FulfilledMeansDone`, and the
action properties `SettledStays` and `WindowFromClaim`.  The invariant adds to the
properties what the loop has in hand: `Work` (a claimed request has not been begun, but
for the one about to be settled; a queued one is in nobody's hands), `Earned` (a success
in hand was earned), `Timed` (a running row carries the time of its claim) and `Gate`
(no scan in flight has a running row while the loop may claim another).  `Gate` is what
makes serialization inductive: only the probe opens it, only a claim passes it.

`RunningIsInHand` says that the service forgets no running request: without a failed
operation or a panic, its claim is in the loop, its scan has a task, or the
reconciliation the loop begins with will fail it.  `HandInv` adds
that the loop holds claims only between its claim and the end of the tick, so that a new
tick, which begins with none, drops none.

`PageScanProofs`, for every number of pages, routes and faults (`SelectionAssumption`):
`SessionTypes`, `ParentBacked` and the action property `ResolvedSeenAbsent`.  The
invariant ties three counts together: the runs that are stored, what the loop has
counted, and what the parent was told.  `ChildInv` says which pages can have a run when
the loop is at a page, `TallyInv` that every page counted has its run, `LoopInv` that a
loop which is still complete has a complete run of every page before the one in hand,
`ParentInv` what the parent's row says at each point of the handler.  Without the tally, the decision "complete" of the
handler says nothing about the runs.

`EndInv` (what the row can be at each point after the last page) gives `SettledOnce`: a
session is settled once, also when the answer to its completion was lost and
`fail_scan_run` follows; and `LeftRunning`: a handler that had its session leaves it settled,
unless an operation failed and the failure that answers it failed too, and one that got no
id leaves at most a running session without a page, after a start whose answer failed.

`ScanSchedulerProofs`, for every set of schedules, every plan, and days and weeks of
every length (`CalendarAssumption`): `OneScan` (a key that is not held was never collected,
and only such a key is) and `NextIsSoonest`, which is arithmetic: a lemma
on the uniqueness of quotient and remainder, what it gives for the day and the weekday
of a time, then the daily and the weekly case.  `SchedulerTypes` rests on the same arithmetic: the next
run is a number the clock's bound covers because it is at most a week away (`NextIsNear`),
and a row that was listed as due has one (`DueInv`).  `BoundsAssumption`
says that the bounds are numbers.

Of a row that is written, `OnlyTimeMakesDue` says that it is not due afterwards, whoever
wrote it, so that no occurrence comes up again at once; and `MisplacedByStaleMark` that it
gets a time of another plan only from the loop, which marks it with the plan it had when
it was listed.

`ConnectedOutboxProofs`, for every set of groups and any number of decisions, other
users and failures: `OutboxTypes`, `RecordedStays`, `TakenNeverConflicts` and the action
property `OverrulesOnlySeen`.  The invariant says that a row of the outbox, what the sync
has in hand and what is still on its way to the service all carry the revision that was
seen when their decision was made (`RowInv`, `HandInv`, `SentInv`, through `Faithful`);
that a receipt is of the decision it names and of no revision to come (`ServiceInv`);
that the outbox is used only when the site is bootstrapped (`PhaseInv`, without which a
bootstrap would wipe the receipts); and that what is about to be settled has its
receipt, and what is refused can have none any more, because its group has moved on
(`Refused`).  `Faithful` is kept by
every later decision because numbers are not given out twice.

`MCFixesAndLicenseProofs` on `FixAttempts`, for every finite set of defects and lines, any
number of attempts, edits, scans, faults and crashes, and all waits with `Grace < Expiry`
and `Recheck <= Expiry` (`FixAttemptsAssumption`: the order of the code's waits): `TypeCorrect`; `TargetsAreShared` (`OneActivePerTarget` is inductive
once types are: only `Create` adds an active row, in the statement that looks for one, and
`StepKeeps` says that no other step makes a row active); `RegressionsWereGone`; and the
action property `WaitsAreSpared`.  `RegressedWasGone` needs `Gone`: what makes
anybody say that the group is gone (its state, the work items, what a scan is about to
write, what the watcher has in hand) was seen absent, and the row by which the watcher marks
the group is the one it evaluated.  `WaitsAreSpared` needs `Waits`: as long as nothing failed,
time passes only after a tick has gone through its list, and what it has gone through was
written a moment ago or is not near its expiry; so no row is swept that the tick has not
looked at.

`LicenseProofs`, for any set of commands, any number of keys, states of the subscription,
ticks, imports and failures (`LicenseAssumption`: the names are different, the bounds are
numbers), proves

* `TypeCorrect`, from `Typed`: which locals a command can have at each point (what `Plan`
  set up for each of the three plans, that a write has a row to write, that an activation's
  own installation differs from its predecessor's).
* `VerdictsDoAdvance`, an action property, from `Order`: the holder of the license lock is
  the command that is between its two writes (`Holders`), whatever anybody has read is not
  newer than the provider, what waits in the worker's queue fits the row it will find
  (`QueueOK`), and an answer older than the row belongs to a validation that the generation
  will discard.  Without the last part the commit of a late answer would be a step back.
* `KeyDoesFit`, from `KeyInv`: what key each installation was made with is known from the
  moment it is minted, and at each point between the two writes which of key and row is the
  old one and which the new, also when the row's write timed out and is still queued.

* `NothingForgotten`, from `Kept`, which adds five parts to the three above.  `Guarded`: the
  credential lock is held by who is between the look at the generation and the answer of
  the service.  `News`: of an installation that has not been written yet nobody else knows,
  no record, no credential, no other command.  `LinkInv`: an undo that waits finds the row it
  restores or the one it undoes, and a deactivation that has unlinked the row has the key it
  was minted with.  `SeatInv`: every seat is installed, in the hand of a command that will
  bring it in or release it, recorded and not yet settled, or out of reach; and when a
  command is about to replace a row, the seat of that row is one of the last two (without
  this, saving the new row would forget the old).  `CredInv`: every credential is covered (it
  is installed, waits to be put back, or a command will put it back or release it) or its
  release is due; whoever issues one has, since it looked, a cover that cannot go while it
  holds the lock; and of an installation that was never written, or is being undone, there is
  no credential, which is why undoing it may leave it uncovered.  As long as no backup was
  imported and nothing is torn these hold also while writes wait in the worker's queue, of
  which `NothingIsForgotten` says nothing.

`MCFixesAndLicenseProofs` carries these to `PartsSpec`, as `LicenseAdvances`, `LicenseFits`,
`LicenseForgetsNothing` and `PartsTypes`; `PartsAssumption` gives the part its assumption, and TLC evaluates it.

`MCServicesProofs` carries the theorems of its three other parts to `ServicesSpec`, the
specification whose instance `services` is checked: a behaviour of the composition, seen
through the variables of one part, is one of that part.  The part's own bounds come from
`ServicesAssumption`, which TLC evaluates.  `ServicesTypes` puts the four type invariants
together.

Only model-checked: the liveness properties, which are leads-to under fairness, and what
needs `ENABLED`; both are out of the prover's reach.  Every other property that a passing
run checks is stated by a theorem.  What a liveness property rests on besides fairness is
safety, and is proved for these:

| Liveness property | Proved half |
|---|---|
| `HandlerReturns` | `HandlersRunOut`: every step of a handler brings it nearer to its return, and nobody else's step sends it back |
| `EveryRequestSettles` | `TickComesBack`: the loop comes to its next tick in a bounded number of steps, whatever fails; `RunningIsInHand` |
| `ParentSettles` | `SessionRunsOut`: every step of a session uses one of the `4 * Selected + 6` it has; `SettledOnce`, `LeftRunning` |
| `DueIsServed` | `PassRunsOut`: a pass has three steps for each row it listed, and none of them is added later; `OnlyTimeMakesDue` |
| `EditTakesEffect` | `MisplacedByStaleMark`, `OnlyTimeMakesDue` |
| `AttemptSettles` | `AttemptsGoOnward`: from briefed over requested and verifying to one settled status, never back |

That the step which is counted down is enabled as long as there is something to do, and
that the scheduling takes it, is what stays with TLC.

## 5. Plan and limits

Done: `ScanControl`, `ScanExecutionStore`, `ScanExecution`, `IdempotentExecution`,
`AgentRequests`, `FixAttempts` with `IssueStore`, `PageScan`, `ScanScheduler`,
`ConnectedOutbox`, `License`.  Next, the behaviour that matters most first:

1. `useScan`: the epochs of the frontend against late answers.
2. Privileged broker tokens; the activation of the connected service; the database
   worker with backup and restore; the rotation of connected credentials; disconnecting
   a site while a sync is in flight.
3. Proofs: the safety of what items 1 and 2 add; measures, as those of section 4, for the
   liveness of the outbox and of the license.

### Not modelled

Of the some 205 000 lines of the implementation, most compute and show: the engine's
checks on pages, headers, scripts and source files, correlation, reports, the catalog of
third-party changes, the views of the frontend, the command line's output, packaging.
They take an input and return a result; they keep no state that others change, and
their results are the *data* of a run here.  A model of them would repeat their code.
The behaviour that several actors share (scans, their records, requests, attempts,
schedules, decisions, licences) is a few thousand lines, and the models cover the larger
part of that; the share of all lines that is mapped stays small for this reason.

## 6. Running it

    tlc -workers 2 -config ScanExecution.cfg MCScanSafety
    tlc -workers 2 -config AgentRequests.cfg AgentRequests
    tlc -workers 2 -config FixesAndLicense.cfg MCFixesAndLicense
    tlc -workers 2 -config Services.cfg MCServices
    tlapm ScanExecutionProofs.tla
    tlapm LicenseProofs.tla
    tlapm MCFixesAndLicenseProofs.tla
    tlapm MCServicesProofs.tla
