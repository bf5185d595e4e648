# Formal specification of the workflow case management platform

TLA+ modules, TLC configurations and TLAPS proofs about the server in `src/app`: a FastAPI
application over SQLAlchemy (SQLite by default, PostgreSQL optionally) that moves cases
through configured workflows and does its slow or periodic work in a durable outbox.
Paths below are relative to `src/` unless they begin with `tla/`. `PROJECT.json` maps every
definition to the lines it models and lists runs, mutants, findings, hazards and theorems.

Checking: `tlc -config OutboxPostgres.cfg MCOutbox` (one line of the table of runs at a time).
Proving: `tlapm OutboxProofs.tla`, and likewise each of the eight modules whose name ends in `Proofs`.

## 1. Inventory

| Component | State | Operations | What makes it correct |
|---|---|---|---|
| Outbox and worker: `services/outbox.py`, `services/runtime_tasks.py`, `services/coordination.py` | `outbox_jobs` rows, the write lock, a worker's place in a batch | enqueue, claim, dispatch + complete, fail, back off, reclaim | a job is run by one worker at a time, its effects are applied once, it is retried a bounded number of times and settled in the end |
| Connectors: `services/connectors.py` | `integration_executions`, connector rows, the audit trail, the receiver | queue on transition, execute, skip, fail, switch off | execution, job and trail agree; requests are bounded by attempts; failures are visible (they are not, see section 4) |
| Case lifecycle: `services/workflow_engine.py`, `services/relations.py`, handlers in `web.py`, `api.py`, `work_management.py` | case, approval and relation rows; objects a request has loaded | create, transition, decide, bulk transition, migrate, relate | gates cannot be passed or avoided, completion is final, an approval is decided once, a case can always finish, parents wait for children |
| SLA clock: `workflow_engine.py`, `services/calendar_sla.py` | deadlines, pause, warning and escalation columns | transition, pause, resume, scan | each level is reported once per stage; a pause gives the stage back what it took, once |
| Audit chain: `services/audit.py` | `activity_history` with `previous_hash` | append, verify, export | one chain, no fork, any change is found |
| Workflow revisions: `services/workflow_versions.py`, `studio.py`, `import_workflow_config` | the active definition, revision rows with number and status, the snapshot of each request | draft, publish, import, archive, deploy, migrate | numbers are unique, the published revision is the active one, what was active stays on record, a request runs what was published |
| Graph validation: `validate_workflow_config` | its two work lists | validate | accepts exactly the definitions the other parts can rely on: every stage reachable and able to finish |
| Service calendar: `services/calendar_sla.py` | local time and hours left of one calculation | add service hours | the deadline is at the right moment of service, and the loop ends |
| Assignment: `workflow_engine.py`, `services/queues.py` | assignee, capacity, delegation | select, assign, delegate | no inactive or overloaded assignee, no stale one |
| Rules: `services/rules.py` | the rules of a set | evaluate at intake, explain in the playground | both agree; an approval is required once |
| Instance lock: `runtime_lock.py` | lock file, processes | acquire, replace stale, release | at most one server; the lock of a dead one is an obstacle only while its number is in use again |
| Start-up and migration: `scripts/workflow_platform.py`, `run_server.py`, `migrate_database.py`, start-up in `main.py`, `database_maintenance.py`, `backup_restore.py` | database, its two version markers, backups, exit codes | prepare, lock, inspect, back up, migrate, serve, release, report; diagnose | whatever was killed before, what is served is complete, what was changed has a backup, the doctor tells the truth |
| Evidence: `services/evidence_store.py`, `portal.py`, `web.py` | files and attachment rows | upload, check, export | a row has its file and its entry in the history |
| Diagnostics, identity, assist, dashboards, search, schema, seed | none or read-only, or run by libraries | | see "Not modelled" |

How they interact. Every handler that writes does so in one session and, on SQLite, under the
process-wide re-entrant `database_write_lock()` (`services/coordination.py:26`), which is no
lock at all on PostgreSQL. A transition calls connectors and notifications, which enqueue jobs
in the handler's own transaction. The worker (`runtime_tasks.py`) and the start-up batch
(`main.py`) call the same `process_outbox_batch`; a dispatch calls back into SLA scans,
connectors and assistance and may enqueue further jobs. Sessions are created with autoflush
and expiry off, so an object loaded before the lock keeps its values until the handler ends.

What is hard here: a lease that lapses under its holder, an interruption between the claim
and the result, three transactions where a reader sees one job; rows loaded before the lock
and used under it; rows written column by column from a stale object; approvals reused on a
second visit to a stage; several cases moved in one transaction; revisions changed under a
running case; a start that is killed between the statements of a migration, or between creating
the lock file and writing into it; a file that is stored before its row, and a row before its entry
in the history. `PROJECT.json` lists the hazards with their lines, the covered and the open ones.

## 2. Modules

| Module | What it is |
|---|---|
| `DurableQueue` | abstract specification: what the outbox promises, with no workers, leases, locks or crashes |
| `Outbox` | the outbox, its workers, lock, leases, back-off and interruptions; refines `DurableQueue` |
| `OutboxProofs` | theorems about `Outbox` |
| `Connectors` | integration executions on top of `Outbox` (`O == INSTANCE Outbox`) |
| `ConnectorsProofs` | theorems about `Connectors`; takes those of `OutboxProofs` over (`P == INSTANCE OutboxProofs`) |
| `CaseLifecycle` | cases, approvals, relations and revisions under requests that hold loaded objects |
| `CaseLifecycleProofs` | theorems about `CaseLifecycle` |
| `SlaClock` | the service-level clock of one case: deadlines, pauses, warnings and escalations in integer time |
| `SlaClockProofs` | theorems about `SlaClock` |
| `AuditChain` | the activity history of one case: entries with the hash of the one before, transactions, tampering |
| `Evidence` | uploads, evidence files, the doctor's evidence check and the audit export; extends `AuditChain` |
| `EvidenceProofs` | theorems about `AuditChain` and `Evidence` |
| `InstanceLock` | the lock file, one action per access to the file system |
| `Startup` | from a launch to a serving application or a finished migration and the reported result; extends `InstanceLock` |
| `StartupProofs` | theorems about `InstanceLock` and `Startup` |
| `WorkflowGraph` | `validate_workflow_config`: checks and the two searches |
| `ServiceCalendar` | `add_service_hours` under the calendar of an accepted definition; extends `WorkflowGraph` |
| `DefinitionProofs` | theorems about `WorkflowGraph` and `ServiceCalendar` |
| `WorkflowVersions` | revisions, imports, rollout, migration and the rules at intake, for one workflow |
| `WorkflowVersionsProofs` | theorems about `WorkflowVersions` |
| `MCOutbox`, `MCConnectors`, `MCCaseLifecycle`, `MCSlaClock`, `MCEvidence`, `MCWorkflowGraph`, `MCWorkflowVersions` | values of the constants for TLC |

How they compose: `Connectors` extends every step of `Outbox`; `Evidence` writes through the actions
of `AuditChain`; `Startup` runs inside the hold of `InstanceLock`; `ServiceCalendar` takes over
what `WorkflowGraph` has accepted. `SlaClock` takes a deadline as hours and a gap, which is what
`ServiceCalendar` computes; `ConfigAssumption` of `CaseLifecycle` is a part of what
`ValidationIsRight` says of an accepted definition.

Definitions whose comment starts with "Variant:" are plausible mistakes in the operation that
follows them. No specification uses them; they are what the properties are tried against.

### Outbox

A row is identified by its dedupe key (unique in the database), so `Jobs` is the set of keys.
Time is two facts per job: `due` is `available_at <= now`, `lapsed` is `locked_at` older than
`STALE_JOB_SECONDS`. `process_outbox_batch` becomes the loop

    BatchStart -> (Claim -> Load -> Complete | Fail)* -> BatchEnd

with one action per transaction of the code, because other workers, producers and
interruptions can act between two of them: `Claim` is the first session (`outbox.py:144-155`),
`Load` the read of the row by the second one (:157-160), `Complete` the dispatch and its commit,
`Fail` the rollback and the third session (:170-186). `seen` is the status the second session
loaded: SQLAlchemy writes a column only when it differs from that value, so the model writes
it under the same condition. `Interrupt` is a killed process, or an exception that leaves the
batch: nothing open is committed, the lock is gone, rows stay. `committed` counts commits
that carry the effects of a dispatch; `Spawns[j]` are the jobs a dispatch may enqueue.
`Serialized` says whether the write lock is real (SQLite), `SlowDispatch` whether a dispatch
may outlive its lease.

### Connectors

Extends each step of `Outbox` by what `execute_connector_job` does. `received` is what the
webhook receiver has seen, which no rollback undoes; it is the only thing modelled that is not
in the repository. `ExecutionFails` leaves `exec` and `trail` alone, because the code writes
both and re-raises, and the batch rolls that session back. `RecordsAgree` therefore says of a failed job only that its
execution does not count as completed or skipped; what the documentation promises of it is `FailureIsVisible`, and what it really leaves
is `FailureIsLost`.

### CaseLifecycle

`view[s]` is the object a request loaded (`LoadCase`, `LoadApproval`); `Transition`, `Decide`
and `Migrate` are the rest of the handler under the lock and use `view[s]` wherever the code
uses the loaded object, and the current rows wherever it sends a query. Pages (`web.py`) are
coroutines that do not wait between load and lock, so at most one page holds an object; API
requests run in a thread pool and do. Pages also load the approvals with the case, and an
approval already in the session is not refreshed by a query (`Seen`). Creation, bulk
transitions and links load under the lock and are single steps. `Overlap = FALSE` is the
system whose requests come one at a time. `Config[v]` is the configuration a case has
captured; `ConfigAssumption` is what `validate_workflow_config` and the unique constraints
guarantee, and it asks for less than validation does (no reachability). Roles, required fields
and notes are covered by `Refuse`, which any request may end in. An approval whose condition
a case does not meet is one the captured configuration does not ask for.

### SlaClock

One case (scans and requests treat cases one by one) as a record `row` of the columns the clock
uses, and `view[s]`, the record a request has loaded. `Put` and `PutDate` are the write-back of
changed columns: a handler that sets a column to the value it has loaded writes nothing. `Scan`
is one pass of `process_sla_escalations` over the case; it loads under the lock. `DueIn` stands for
`add_service_hours`: the configured hours plus the closed hours on the way, any of `Gaps`. Time is
an integer in hours. Two history variables remember what the rows do not: `given`, the gap drawn when the current stage
began, and `stopped`, the hours the case has been paused in it (`Pass` counts them). With them `FullService` is exact: the
stage deadline is start, hours and gap plus what was paused, neither less nor more; a resume that does not shift,
shifts twice or from the wrong moment breaks it. `Overlap = FALSE` means that nothing commits between load and lock, the scan
included. The clock assumes SQLite's write lock, and hours that no migration changes.

### AuditChain and Evidence

A row of the history has an id (the order of `created_at`), a body, the `previous_hash` it was
written with and its own hash. SHA-256 is taken to be free of collisions, so a hash is the
sequence of all bodies up to it. `Begin`, `AppendActivity`, `Commit` and `Rollback` are the
transaction of a handler; `AppendActivity` reads the last entry among the committed rows and those of
its own transaction, because appending flushes. `Serialized` is the write lock; without it only
handlers that have updated the case row (`Updaters`) keep each other out. `written` is a history
variable: what was appended, to say what tampering (`Edit`, `Delete`) must not go unnoticed.

`Evidence` makes every upload a session of that trail. `StartUpload`, `StoreUpload`, `RefuseUpload` are
`save_upload` (temporary file, rename, clean-up); `BeginRecord`, `RecordUpload`, `CommitUpload` and
`FailRecord` the handler under the lock. The handlers of `web.py` and `portal.py` differ in what an exception
leaves behind (`FailRecord`). `Crash` kills the server: files stay, transactions do not.
`Damage` loses or alters a stored file. The doctor copies the database and then looks at the files; the export reads
attachments, activity and verification in that order, and uploads go on between.

### InstanceLock and Startup

`Create` (exclusive open), `WriteId`, `ReadOwner`, `Judge`, `ReplaceStale`, `BeginRelease` and `Unlink` are the
accesses `ProjectInstanceLock` makes; `filled` is the set of processes whose id has reached their file, so a reader of a lock
file that is still empty takes it for stale, as the code does. `Die` may happen anywhere. The number of a process that has ended may
be in use again, by any program or by the launch that reads it (`reused`, changed by `NumberChangesHands`, which is no step of the
program); `PidAlive` then answers yes, as `pid_alive` does, and the launch is refused for a lock nobody holds. `RefusedForCause`
allows this as the second cause of a refusal and no third. `Overlap = FALSE`: no two processes are in `acquire` at once.

`Startup` runs a launch: `Prepare`, `Decline` (a migration is confirmed by a person), `RunBackend`, the lock, then `Inspect`,
`Backup`, `Publish`, `Prune`, `CreateTables`, `Alter`, `RecordVersion`, `SyncLedger`, `CheckHealth`, `Seed`, service, `Release` and
`Finish`, the exit code as the launcher reads it. `db` is what a start finds: tables or none, `version` (`PRAGMA
user_version` or, on PostgreSQL, the ledger), the ledger, and `shape`, the steps whose changes are there.
`Alter` and `RecordVersion` are two steps on SQLite, where DDL is committed statement by statement, and one
on PostgreSQL. `CreateTables` is one step, although `create_all` commits table by table on SQLite: a database with some of its
tables is not distinguished from one with none, since the next `create_all` adds what is missing. `LaunchStep` is the program, `Reuse` what
happens to process numbers. `Kill` and `Fail` may come between any two steps. `SchemaVerdict` is what the recovery doctor says of the
database at that moment.

### WorkflowGraph and ServiceCalendar

`CheckLists` is everything `validate_workflow_config` checks before the searches, as conjuncts named for
what they look at; `VisitTargets`, `EndReach`, `VisitSources`, `EndFinish` are the loops, with the work list as a set: the
code fills it from sets, so any member may be next. The reference of `ValidationIsRight` searches nothing: it quantifies over
the sets of stages that are closed under transitions.

`BeginDeadline`, `SkipDay`, `SpendDay` and `FinishDeadline` are `add_service_hours`. Time is counted in steps from midnight of
day 0; a step stands for one second of the code wherever the code adds one. `NextOpen` includes the limit of 370 days
(`Horizon`), after which the code goes on from the day it began with. The reference of `DueIsExact` counts open steps one by one.

### WorkflowVersions

`wf` is the row of the active definition, `revs` the revision rows by id, `page[a]` what the request of an
administrator has loaded: the routes load workflow and draft and then take the lock (`Open`, then `Show`, `SaveDraft`
or `Publish`). `Import` replaces the active definition. Every one of them first creates the published row if it is missing
(`Ensured`), whatever status a row of that number has. `CreateCase` picks the deployed revision (`Deployed`, `Baseline`; the percentage hash is a
free choice), evaluates the rules and captures the snapshot; `Migrate` captures the active definition without rules. `active` and `overDraft` are history
variables.

## 3. Runs

| Run | Question | Result |
|---|---|---|
| `outbox_postgres` | two workers without the lock, dispatches shorter than the lease, two interruptions | all properties hold, `DurableQueue` is implemented |
| `outbox_slow` | without the lock, dispatches that outlive the lease | nothing is lost, everything settles; exclusiveness is gone |
| `connectors_sqlite` | with the write lock and dispatches of any length, do execution, trail, job and receiver agree under retries and switching? | yes, until a job fails |
| `lifecycle_serial` | gates, completion, decisions, parents, one request at a time | hold |
| `sla_serial` | does a stage have its hours and exactly what it was paused, and do levels and scans agree with the clock, one request at a time? | yes |
| `definition` | does validation accept exactly the sound definitions, are deadlines under their calendars exact, do both end? | yes, if service begins before the default end |
| `night_shift` | does the calculation of a deadline end under every calendar that validation accepts? | no |
| `evidence_sqlite` | an upload by staff, one through the portal and another handler, a kill, damage and tampering, beside the doctor and an export | files, rows and history agree; every change is found |
| `server` | two launches in turn over every old, new, newer or empty database of both backends, two kills or failures anywhere, numbers of ended processes in use again | one instance, complete schema, backups, truthful verdicts; a refusal has a cause; every launch ends or serves |
| `server_report` | does the launcher report a failed start? | no |
| `versions` | drafts, publications, imports, requests and migrations of one workflow | hold |
| `versions_baseline` | was what a request runs ever published? | no |

**Bounds.** Outbox: two workers are the least that can compete for a job and a third adds none
of the code's cases, since every conflict is between a holder and one other; three jobs give two
priorities, a spawning job, a spawned job and an unrelated one; two attempts and two
interruptions cover a failure before the limit, one at it, and an interruption before, at and
beyond it; `BatchLimit` 2 lets a batch take a second job and end with others due.
`outbox_slow` has `BatchLimit` 1 and one interruption, because leases that lapse under their
holder multiply the states. Connectors: one webhook and one local execution, which interact
only through workers. Lifecycle: two cases (parent and child), four stages with the shape of
the workflows in `examples/` (work, a review that can send back, an accepted and a dropped
outcome), one or two approvals, two revisions. SLA clock: stages of one and two
hours with rework, seven hours and closed hours of 0 or 2 (several visits, pauses and
both escalations fit). Definitions: every graph over two or three stages with every set of terminal stages, enough for unreachable
cycles, dead ends and loops, and one definition per kind of fault in the lists; calendars with days of six steps, weeks of three days
and a horizon of eight days in place of 370, so that holidays can outlast it. Evidence: two uploads and one handler, the pair of routes the
code has and one writer beside them; three entries are the least in which one in the middle can be changed; one kill, one damaged file, one
tampering. Server: two launches, each a start or a migration, a schema of three steps (one whose table `create_all` declares and
creates, one declared only, one neither), one backup kept, two faults: a kill and another during the recovery from it. Versions: one page in
flight, one request, four version numbers: enough to draft, import over the draft's number and publish after it.

The bounds that stand in guards are `MaxInterrupts` (Outbox), `MaxTime` (SlaClock), `MaxEntries` and `MaxTampers`
(AuditChain), `MaxCrashes` and `MaxDamages` (Evidence), `MaxFaults` (Startup) and `MaxVersion` (WorkflowVersions); everything else
is bounded by the code itself. The theorems of section 5 remove the bounds for the safety properties they state.

**Deadlock.** Checked in `CaseLifecycle` and `SlaClock`. Switched off where the system really may stop: `Outbox` and `Connectors`
(a queue whose jobs are all settled may be left with nothing to do once the interruptions are used up), `definition` and
`night_shift` (a validation or calculation that has ended), `Evidence` (uploads, tampering and crashes used up), `Startup` (launches that
have ended) and `WorkflowVersions` (version numbers used up).

**Fairness.** `Outbox` and `Connectors` assume weak fairness of each worker's steps and of each
job's clock: the loop of `runtime_tasks.py:102` calls `_run_once` until the server stops, every
exception inside it is caught, dispatches have timeouts and so return or raise, and time passes.
Producers, interruptions and connector switches are not fair. `SlaClock` assumes that a scan which has something to report is eventually run:
one is enqueued in every interval and each job settles (`EveryJobSettles`); a scan that fails in every
attempt is outside this assumption. `WorkflowGraph` and `ServiceCalendar` assume that a call once made goes on: it is one
thread that waits for nothing. `Startup` assumes the same of each process (`Proceed`): it waits for nobody; that a person
stops a server or declines a migration, kills and failures are not fair. `CaseLifecycle`, `WorkflowVersions`, `AuditChain`, `Evidence` and
`InstanceLock` have no fairness: people decide whether to act, so they promise nothing but safety.

## 4. Findings

Shown by a run and quoted with their lines in `PROJECT.json`:

1. **A night shift hangs the server** (`night_shift`). An `end` that does not come after `start` is replaced by
   17:00, also if `start` is later than that. Then the hours available are negative, the loop goes on one second past the end and
   `_next_open` takes it back to the start of the same day, for ever, inside the creation of a request and under the write lock. Validation does not look
   at the hours. `definition` shows that calendars whose service begins before the default end are exact,
   as long as the search for an open day finds one or has none behind it.
2. **A failed start is reported as PASS** (`server_report`). Exit code 3 means both "instance already running" and "lifespan failed".
3. **A request can run a draft** (`versions_baseline`). The baseline of a partial rollout is looked up by number whatever its status.

Other disagreements are a change of constants away from a configuration here; each has been seen as a
violation by TLC, and is listed among the hazards:

| Configuration | Change | Property that fails | Why |
|---|---|---|---|
| `OutboxPostgres.cfg` | check `BoundedRetries` | `BoundedRetries` | `max_attempts` is compared only where a failure is recorded: a job whose worker dies in its last attempt is run again. `AttemptsExplained` states, and the proof shows, that this is the only way |
| `ConnectorsSqlite.cfg` | check `FailureIsVisible` | `FailureIsVisible` | the failed status and the `integration_failed` entry are rolled back by the exception that is raised again; the execution stays `Queued`: `FailureLeavesNoTrace` is a theorem |
| `LifecycleSerial.cfg` | `Config <- NoDrop`, `Versions = {1}`, `Migrations <- NoUpgrade`, check `NeverStranded` | `NeverStranded` | returning to a stage keeps the rejected approval of the first visit, and the gate stays shut |
| `LifecycleSerial.cfg` | `Config <- Tightened` | `BehindTheGate` | migrating inside a stage does not request the approvals the new revision adds there |
| `LifecycleSerial.cfg` | `Config <- Shortened` | `ClosedIffTerminal` | migrating checks that the target knows the stage of the case, not whether the stage is terminal there: an open case is left in a terminal stage, from which nothing can complete it |
| `LifecycleSerial.cfg` | `Overlap = TRUE`, `Sessions = {page, api}` | `ClosedStaysPut`, `DecidedOnce` | a request acts on a case or an approval it loaded before another one changed it |
| `SlaSerial.cfg` | `Overlap = TRUE` | `FullService`, `EscalationsAreDue`, `CompletedIsStopped` | a resume writes the deadline of the previous stage back; a transition that loaded the case before a scan escalated it does not write its reset of the level; a completed case is paused |
| `NightShift.cfg` | `Definitions` with service from 0 and holidays `1..12` | `DeadlineEnds` | the search for an open day gives up after 370 days where it began, and the loop starts again there |
| `EvidenceSqlite.cfg` | `Serialized = FALSE` | `ChainVerifies` | two writers read the same last entry: on PostgreSQL the chain forks and verification reports tampering that did not happen |
| `StartupServer.cfg` | `Overlap = TRUE` | `SoleInstance` | the lock file exists before its content is written; a second launch takes the empty file for stale, or replaces a lock that a third has just created (`StaleOwnerIsDead`) |
| `WorkflowVersions.cfg` | `Overlap = TRUE`, `Admins = {a1, a2}` | `PublishedIsActive`, `VersionsOnlyGrow` | two publications act on the draft both have loaded |

## 5. Proofs

All theorems hold for every value of the constants that satisfies the named assumptions of the
modules. Theorem names are those of `PROJECT.json`.

**Outbox** (`ConstantsAssumption`). `TypeCorrect` rests on `Shape`: a worker past its claim holds a
job whose row exists. The other theorems assume `Exclusive`, that is, the lock is real or a
dispatch ends within its lease; `outbox_slow` shows what remains without it. `SoleDispatcher` is
not inductive: a second worker may claim a job only if it is `Pending` or lapsed, so one needs
that a held job is `Processing` (`LeaseOK`) and, without the lock, not lapsed; with the lock,
that whoever is in a batch has the lock (`LockOK`). `AppliedOnce` needs that the second session
saw the row as the claim left it (`SeenOK`), otherwise completing could write nothing. The bound
on attempts needs that a job left in `Processing` with no holder has used at least one
interruption (`AttemptsOK`). `MutualExclusion`, `ExactlyOnce`, `AttemptAccounting` and
`SettledForGood` follow from that invariant; `SpawnedOnlyByCommit`, `CommittedAtLeastOnce` and `OneCommitPerAttempt` need none
of it and no `Exclusive`: they say what is left when leases lapse under their holders. The last bounds repeated effects: several
workers may then hold one job, so its invariant (`Accounted`) counts commits together with any finite set of holders against
the attempts, each of which one claim has paid for. `Refinement` maps each step to one of `DurableQueue` or to a stutter: enqueue to
`Accept`, claim to `Try`, completion to `Settle`, the last failure to `GiveUp`.

**CaseLifecycle** (`ConfigAssumption`). `TypeCorrect` and `NeverUndecided` hold however requests
overlap, and so does `ParentsDoWait`, if migrations leave the ungated ways into a stage ungated (`KeepsWays`): relations and children
are queried under the lock, and what a request may hold that is stale is an older revision, whose ways are then still ways
(`WaysInv`). Four theorems assume `~Overlap`. Their common invariant, `LoneInv`, says that at most one request holds an object (`Solo`),
that what it holds is what the rows say (`Fresh`), and that a case that does not exist is not completed; `CaseStep` then lists what a
step can do to one case (`Created`, `Moved`, `Decided`, `Migrated`, `Untouched`), and each theorem is an argument about these five.
`CompletionFinal` and `DecisionsFinal` need no more. `CompletionAgrees` also assumes `KeepsEnds`: revisions a case is migrated between agree
on which of their common stages are terminal. The code does not ensure that, and the row `Shortened` above shows that the theorem fails without it; its
invariant adds that a case is in a stage of its revision (`Ended`). `GateHolds` assumes instead that migrations are `Relaxing`: they keep the initial
stage and every edge and ask for no more approvals; the row `Tightened` shows what happens otherwise. Its invariant has, beside the gate, that the
approvals of the stage have been requested (`Sound`): the gate looks only at rows that exist, so leaving a stage
approved depends on the requests having been made when it was entered. `RequestedDespiteOverlap` has its own invariant for
overlapping requests (`RInv`: also what a request has loaded has been asked for), and assumes that
migrations between revisions keep `asks`: a transition that loaded the case before a migration requests
the approvals of the old revision, which would not be those of the new one.

**SlaClock** (`ClockAssumption`). `TypeCorrect`, `ScanIsIdempotent` and `OverallDeadline` hold however
requests overlap. The last needs its bound for what requests have loaded as well as for the row, and, while a
pause runs, relative to the start of the pause (`OverallOK`), because a resume adds the length of a pause
to the deadline it has loaded. `StageDeadline`, `LevelsJustified` and `CompletionStops` assume `Serial`
(no overlap). `StageDeadline` is `FullService` with the exact credit of pauses. Their invariant says that what a request holds is the row (`Fresh`) and
that the row is sound (`RowOK`): deadlines and levels are judged at the start of a running pause (`At`), which
is what makes resuming, a shift of both sides, preserve it.

**Connectors** (`JobsAssumption`, `RemoteAssumption`). `ConnectorsImplementOutbox` maps every step to one of `Outbox` or to a
stutter, with no assumption on lock or leases; the invariants of `OutboxProofs` then hold of the connectors' own
variables (`OutboxInv`), and `ConnectorJobsOnce` states what they give. `CompletedMeansReceived` and `AttemptsCoverRequests` need no
`Exclusive`: `RequestsInv` says that for every finite set of workers that dispatch a job and have not sent its request yet there are as
many attempts to spare (`Spares`). Without that part the bound on requests is not inductive: sending would exceed it. `OneDecision` and
`ConnectorJobsOnce` assume `Exclusive` as the outbox does; `RecordsOK` ties execution row and history to the job's status, case by case.
`OneDecision` claims agreement up to a failure and nothing of a failed job's record. `FailureLeavesNoTrace`, from the same invariant, is the converse of the
documentation's promise: the execution of every failed job stays `Queued` and its case history has no entry of the failure, so
the line about `FailureIsVisible` in the table of section 4 is a fact about every instance. `JobsAssumption` says that a
connector job enqueues no job, which is so: `execute_connector_job` enqueues none.

**AuditChain and Evidence** (`TrailAssumption`, `EvidenceAssumption`). `ChainStaysWhole` assumes `OneAtATime`: the write lock is real, or
every handler updates the row of the case before it appends. `ChainVerifies` speaks of committed entries only; its invariant also has
that the committed entries together with those of an open transaction verify, and that only one is
open (`SoleWriter`), as another would extend a chain that the first one's commit makes outdated. `TamperingShows` needs neither and covers forked
chains: an entry's hash is that of what was written under its id (`AsWritten`), whatever was done to its other
columns. Both are proved of the trail alone and, as `EvidenceChain` and `EvidenceTampering`, of the system with
uploads, whose steps are shown to be steps of the trail or a kill that rolls all transactions back. `EvidenceRecorded`, `DoctorTellsTruth`
and `ExportComplete` hold with any interleaving and without the write lock. They need what an upload in between has done: its file is
in place from before its row is written (`FilesOK`), its open transaction tells of it and of nothing else (`TellsOK`), and what
the doctor and the export have read only grows (`DoctorOK`, `ExportOK`).

**InstanceLock and Startup** (`LockAssumption`, `StartupAssumption`). `StartupImplementsLock` shows, with no further assumption, that a start
is a run of the lock file. The others assume `~Overlap`; section 4 shows that the lock excludes nobody otherwise. For
`SoleInstance` it is not enough that a holder is named by the file: a process that has read the file and not yet acted must be right
about it. So the invariant says that what it is about to judge is the id of any holder, that nobody holds when it is about to
replace the file (`ReaderOK`), and that the second round finds no file (`TriesOK`). `LockExcludes` is about the lock alone,
with any processes, deaths and reused numbers; a refusal's cause is found in what the invariant says of a process about to judge: the number
it looks at is a holder's or that of a process that has ended, and only the second kind is ever `reused` (`IdsOK`, `LockTypeOK`); `LaunchesExclude` and `LaunchRefusedForCause` carry it over. Of the database the invariant keeps what every launch may leave (`DatabaseOK`): steps up
to the version are complete, the markers do not contradict each other, and a database at version 0 has either everything
`create_all` declares or, of that, no more than its new tables and the first step. Of a launch it keeps that what it found is the
latest backup from `prune` on, or that nothing is left to migrate (`LaunchOK`). `CurrentWhenServed` and
`BackupBeforeChange` follow. `DoctorAndStartAgree` also assumes `TellingStructure`: what the doctor looks at is not all there in a
database that has only new tables and the first step; in the code it is not, since it looks for `notifications.delivery_status`. `StartupTyped` has
the bound that pruning does not keep by itself: a launch that dies between publishing and pruning leaves one backup more than `Keep`.
`LaunchesAreBounded` is the argument behind `EveryLaunchEnds`: `StepsLeft` falls with every step of a launch, through both loops (the rounds of
`acquire`, the steps of the schema), and no step of a launch changes that of another, because only the holder of the lock touches the database; numbers
changing hands leave it alone for every launch.

**WorkflowVersions** (`VersionsAssumption`). There are three invariants. `RowsInv` is kept also when pages overlap: the number a page takes is
checked against the rows as they are, so numbers stay unique and there is one draft at most (`Distinct`), which gives `RevisionsAreUnique` and
`VersionsTyped`; and every snapshot has the approvals that its rules explain, each key once (`SnapshotsOK`), which gives `RulesGoAsExplained`. For the
latter the folds of `Fired`, `RequireAll` and `Evaluate` are unfolded into runs, a value for each place of the list (`FoldRuns`), and what holds of the first
`k` places is carried to the next: the library's induction cannot be instantiated, so a lemma (`Upward`) does it from the least
counterexample. `RecordOK`, for overlapping pages too, says that a row that is no draft was active or has a number that an import took from a draft;
`OnlyDraftsSlipIn` follows and says how far finding 3 reaches: drafts and those numbers, nothing else. `VersionsInv` assumes `~Overlap` and gives
`PublishedStaysActive`, `HistoryKept` and `VersionsGrow`: what is not a draft is of the active version or an older one, so that a publication, which
takes a number above the active version's, finds it free (`Sound`); what a page has loaded is still what is there (`PagesOK`); every definition
that was ever active is on record (`HistoryOK`); and rows that are no drafts are frozen (`Frozen`). The proofs take the greatest number from a
lemma, `GreatestVersion`, since the code asks the database for a maximum.

**WorkflowGraph and ServiceCalendar** (`DefinitionsAssumption`, `CalendarAssumption`). No assumption beyond those: the theorems are about every set of
definitions, every order of the two searches, every calendar. The invariant of the forward search says that stages found and no longer pending have
their targets among the found ones, and that whatever is found lies in every closed set around the initial stage
(`SearchForwards`); at the end the found stages are themselves closed, so what is missing is unreachable. The backward search has
the mirror image (`SearchBackwards`). `ValidationDecides` gives both directions of the decision, and `DefinitionDecides` says that the calculation of
deadlines leaves it alone. For `DeadlineExact` the invariant counts: service from the start to where the calculation stands, plus what remains, is
what was asked for (`Accounted`), and it stands within the service of a day, or behind the last one the search
can see (`Stands`). If service does not end after it begins, a calculation stays `Running` for ever (finding 1): that theorem says that
no wrong deadline comes of it. Two theorems are the arguments behind the liveness the run checks. `ValidationIsBounded`: each step
of a search takes a stage off the list and puts only stages on it that were not found before, so the two together fall (`Work`).
`DeadlineAdvances`: each step of a calculation spends service or ends it, if the service of every calendar ends after it begins and from every
day an open one is within `Horizon` (`ServiceGoesOn`), which is what a night shift and holidays that outlast the horizon lack. `CalendarAssumption` asks for a horizon of at least two days (370 in the code) and places no bound on days, weeks, starts or hours.

Some theorems state properties that no run lists, because they are proved for every
instance: the type invariants of all modules, `SpawnedByCommit`, `TerminalIsFinal`,
`DecidedForGood`, `CompletedIsStopped`, `OverallKept`, `FailureIsLost` and `CommitsAccounted`. TLC has checked the invariants of the proofs on the instances of section 3.

**Only model-checked.** Every safety property of the passing runs is proved. `OverdueReported`, `EveryJobSettles`, the liveness half of
`ImplementsDurableQueue`, `EveryExecutionEnds`, `ValidationEnds`, `DeadlineEnds` and `EveryLaunchEnds` are liveness under fairness, which is beyond the
prover, as ENABLED is. For `ValidationEnds`, `DeadlineEnds` and `EveryLaunchEnds` the variant that falls is proved (`ValidationIsBounded`, `DeadlineAdvances`,
`LaunchesAreBounded`); that the next step can be taken, the other half of the argument, is what TLC checks. `EveryJobSettles` has no such variant: a job may be
interrupted and claimed again, and `AttemptAccounting` bounds how often. The modules use no RECURSIVE operators.

## 6. Not modelled, and why

Within the modelled components:

- cases: the interleaving of two *commits* of transitions on PostgreSQL (the case module has the
  stale loads, which both databases share, and assumes the write lock); priority, tags, comments and requester text;
- the clock: the reassignment an escalation may make; `closed_on_time`; a change of a zone's offset within the hours of service;
- revisions: the diff of two definitions, the percentage hash (a free choice), several workflows, knowledge articles;
- validation: types and patterns of text, conditions of approvals beyond the fields they name;
- rules: the actions that set priority, tags, assignment and risk;
- evidence: the remote storage adapter, scanning, download;
- start-up: the choice of a port, the browser, signal handlers beyond a kill or a stop, `pip` and the release verification (one step
  that may fail), how a step alters a table. Restoring a backup is done by people from `docs/RECOVERY_AND_TRANSFER.md`;
- what the PostgreSQL driver makes of a statement: `_record_schema_version` hands psycopg a `:version` placeholder, which is not its
  style, so recording a version may fail there. The model lets it succeed (`Recorded`) or fail like any other step (`Fail`);
  `docs/POSTGRESQL_DEPLOYMENT.md:53` leaves live PostgreSQL unverified.

Whole components: assignment, capacity, delegation and saved queues choose a person, and no other part waits for that choice; its
hazards (capacity counted before the case is written, a delegate over capacity) are listed. `evidence_status.py` compares one receipt
with constants; diagnostics formats reports; identity is a protocol run by a library and an external provider; Case Assist,
dashboards, insights, search and operations views write nothing; schema, settings, seed data, logging and release scripts have no
behaviour of their own.

## 7. Plan

All components with state of their own are modelled, except assignment, and all safety properties of the runs are proved. What is left:

1. An abstract specification of the revisions (a sequence of publications, with imports) that `WorkflowVersions` implements without overlap, as
   `StartupImplementsLock` and `Refinement` are for their parts.
2. `CaseLifecycle` and `SlaClock` with overlapping requests: what still holds of overlapping requests beyond `NeverUndecided`, `RequestedDespiteOverlap`,
   `ParentsDoWait` and `OverallDeadline`.
3. `Assignment`, when a run is free for it.
