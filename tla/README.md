# Keldris: TLA+ models and proofs

Keldris is a self-hosted backup manager: a Go server over PostgreSQL
(`src/cmd/keldris-server`, `src/internal`) and an agent
(`src/cmd/keldris-agent`, `src/internal/agent`) that drives restic on each host.
This directory holds TLA+ models of its stateful core, the TLC configurations
that check them and proofs for TLAPS.

Run from this directory: `tlc -config <cfg> <MC module>` for a run of
`PROJECT.json`, `tlapm <Proofs module>` for a proof.

## 1. Inventory

### 1.1 Parts with state and concurrency

| Part | Source | State | Operations | What is hard |
|---|---|---|---|---|
| Job queue | `internal/jobs/queue.go`, `models/job_queue.go`, `db/store_job_queue.go`, `api/handlers/job_queue.go` | table `job_queue` (status, retry count, next retry); copies held by goroutines | enqueue, claim, handle, fail/complete, requeue, cancel, manual retry, cleanup, start/stop | every writer but the claim overwrites a row by id from a copy read earlier; several processors; crash while running |
| Agent commands | `models/agent_command.go`, `api/handlers/agent_commands.go`, `api/handlers/agent_api.go`, `db/store_recovered*.go`, `commands/worker.go`, agent `main.go` poll loop | table `agent_commands` (status, timestamps); agent's command in progress | create, poll, acknowledge, report, cancel, time out | lost responses, cancel against report, timeout against late result, terminal statuses overwritten |
| Offline queue | `agent/queue.go`, `agent/storage.go` | SQLite table of backup results (pending, syncing, synced, failed), reachability flag | queue, record result, health check, sync, prune | several unsynchronised syncs (ticker, reconnect goroutine, force sync), crash between marking and reporting, capacity |
| Webhook dispatcher | `webhooks/dispatcher.go`, `models/webhook.go`, `db/store_webhooks.go` | table of deliveries (status, attempt, next retry) | dispatch, send, retry pass | the first send races the retry pass; error paths that do not persist |
| Backup concurrency | `backup/concurrency.go`, `db/store_concurrency.go` | counters per org and agent, queue table, an RWMutex | acquire, release, queue, process queue | lock taken again by its holder; counters against the table; a queue nobody drains |
| Backup scheduler | `backup/scheduler.go` | cron entries by schedule, backup rows | reload, execute (repositories in priority order, retries), trigger, replicate | stale captured schedules; overlapping runs; failures between steps |
| Checkpoints | `backup/resume.go`, `models/backup_checkpoint.go` | table of checkpoints, map of active ones | start, progress, interrupt, complete, cancel, resume, expire | a save in flight against cancel or complete; resume counter |
| Shutdown | `shutdown/*.go` | shutdown state, job acceptance flag, tracked backups | drain, wait, checkpoint, force; resume at start | phases with deadlines, forced end, late registrations, timeout arithmetic |
| Agent monitoring and alerts | `monitoring/monitor.go`, `monitoring/alerts.go` | agent status, alerts | heartbeat check, backup SLA check, create/resolve/acknowledge | check-then-create without a lock; whole-row writes; an alert missed when a step fails |
| Updater | `updater/updater.go`, agent `main.go` | executable, `.bak`, downloaded file | download, verify, swap, restore, restart | crash or failure between two renames; two updaters (daemon and command line); `os.Executable` follows a renamed file |
| Maintenance | `maintenance/maintenance.go`, `db_backup.go`, `retention.go` | cached windows, database backup rows | refresh, notify, back up, clean up | cache against table, notification sent twice |
| Verification and DR tests | `backup/verification.go`, `backup/scheduler_drtest.go` | cron entries, result rows | reload, execute, trigger | as the backup scheduler |
| Licence | `license/validator.go`, `api/handlers/license_manage.go` | key, licence, entitlement, refresh token, grace period, loops | activate, validate, heartbeat, deactivate, restart loops | a channel closed and replaced under the loops that wait on it; answers applied late; clocks at their limits |
| Sessions and login | `auth/*.go` | sessions, MFA codes, reset and verification tokens | create, use, expire | one-time tokens used twice |
| Notifications | `notifications/*.go` | rules, rate windows | evaluate, throttle, send | counting windows under concurrency |
| Migration, import, export | `migration`, `import`, `export` | archive documents | export, import, resolve conflicts | partial failure |
| Tiering, geo-replication, immutability, Docker restore | `backup/*.go` | per-snapshot rows | plan, move, lock, restore | legal order of transitions |

### 1.2 Parts without a protocol of their own

HTTP routing and CRUD handlers (`api`), SQL text (`db`), notification formats,
reports, metrics, restic and storage back ends (child processes), encryption,
configuration, the web UI, Terraform provider, Ansible roles and scripts. They
transform data or call out; what they change that matters is modelled inside
the component that calls them.

### 1.3 How the parts interact

The server's `main.go` migrates the database, fails backups left running for a
day, then starts the schedulers (verification, backup, DR tests, monitor,
reports, metrics, database backup, retention) and the HTTP server; on a signal
it stops HTTP first and the services in reverse order. All of them meet in the
database: no lock or version column protects a row, most writers read a row,
change a copy and write every column back. That read-change-write pattern is the
main hazard of the system and the reason each model keeps the *copies* that
goroutines hold as explicit state. The agent polls the server for commands,
sends heartbeats, and keeps results in SQLite while the server is unreachable.

## 2. What is modelled

Seven components and one composition (`AgentHost`, which extends `AgentCommands`),
each with a specification, an `MC` module that gives small instances, and a
`Proofs` module; and two abstract specifications, `JobLifecycle` (what the job
queue implements) and `AtLeastOnce` (what `OfflineQueue` and `WebhookDelivery`
implement). All specifications follow one convention: the database tables are functions from
identities to rows, and every *copy* of a row that a goroutine, a request or a
listing keeps is a record in a set (`held`, `sends`, `requests`, `listed`,
`reload`, `saw`, or the stage of a run). A step of a model is what the code does
between two points at which others can act: a statement on the database, an answer
from the network, a child process that ends. History variables are named as such
where they are declared; no guard reads one. Clocks are reduced to what the code
compares: a row's deadline is `waiting` or `due`, an agent was last seen
`recent`ly or is `stale`. Only `LicenseValidator` counts time, since there limits
are compared with each other.

The kinds of failure an instance allows are the set `Faults`; each kind enables
actions of its own (`SaveFails`, `ReportFails`, `Crash`, ...), so a property is
always checked or proved for a named set of failures.

### 2.1 `JobQueue` (`internal/jobs/queue.go`)

| Model | Code |
|---|---|
| `rows` | table `job_queue`: status, retry count, `next_retry_at`, `created_at` |
| `held` | the `*models.Job` copies of workers, retry processors and HTTP requests |
| `Enqueue`, `ClaimNext` | `Queue.Enqueue`; `GetNextPendingJob`, the one conditional write: the due pending row of highest priority, then oldest |
| `HandlerReturns`, `Save`, `SaveFails` | `processJob`: handler success, failure or missing handler (`Job.Complete`, `Job.Fail` with backoff and dead letter), then `UpdateJob` by id |
| `ListRetries` | `processRetries`: every due failed row is copied and written back as pending |
| `RequestCancel`, `RequestRetry` | `handlers/job_queue.go`: read, check, change the copy, write |
| `CleanupOldJobs`, `Crash` | deletion of old completed and dead-lettered rows; loss of every copy |

`attempts` counts handler runs. The retry processors lie in a constant set because
a `Queue` lists rows of all organizations, so two queues in one server are two
processors over the same rows. The server's `main.go` creates no `Queue` today; the
model is of what the package does for whoever starts it.

`JobLifecycle` is what the queue promises about a job, with no copies and no
writers: it waits, one worker works on it, and the outcome is a success, a counted
failure, or a loss that leaves the job where it is. The refinement mapping reads the
phase of a job off its row and off the copies (`Phase`: a `running` row is `working`
while somebody holds a copy and `lost` otherwise) and takes the failures from the
row's retry count. The property `ImplementsLifecycle` holds for one retry processor
and no requests. A second processor may put a running job back into the queue
(`MCJobQueue_two_queues`), and a manual retry revives a dead one on purpose: neither
is a step of a job's life.

### 2.2 `AgentCommands` (server handlers, `commands/worker.go`, the agent's poll loop)

`status` is the status column of `agent_commands`, `expired` the rows past
`timeout_at`, `requests` the acknowledge and report requests being served
(`sent`, `read`, answered), `pc`, `cur` and `todo` the agent's `executeCommand` and
the list it works through, `runs` the history of executions. `CreateCommand`,
`CancelCommand` and `MarkTimedOutCommands` are single statements; `ReadRow` and
`WriteRow` are the two halves of a handler, which checks the status of the row it
read and overwrites the row later. `GiveUp` is the client's timeout: the request
lives on without anybody waiting. `Restarting` commands report
their result before they act, because the process ends with them.

`AgentHost` composes this with the host the daemon runs on
(`internal/updater/updater.go`, `executeUpdate`, `executeRestart`, `runUpdate`):

| Model | Code |
|---|---|
| `files` | what is at the path of the executable, at its `.bak`, at that one's `.bak` |
| `procs` | the daemon and an administrator's `keldris-agent update`: stage of `Apply`, version, and where the file the process was started from now is |
| `BeginApply`, `CreateBackup`, `Install`, `RestoreBackup`, `RemoveBackup` | the steps of `Updater.Apply`, with the restore whose error is ignored |
| `Executable`, `Follows` | `os.Executable`: on Linux it reads `/proc/self/exe`, which follows the file through renames and ends at the name it was removed under; on macOS it keeps the path (`ExecutableIsFollowed = FALSE`) |
| `HostExecute`, `HostProceed` | `executeCommand` with an update in it; the restart after the report |
| `Kill`, `StartService` | the daemon dies; `Restart=always` of the unit `install-linux.sh` writes |

`broken` is the history of swaps cut short. That unit also says
`ProtectSystem=strict`, so on such a host the first rename always fails:
`rename_error` is then the rule and the daemon's update reports a failure.

### 2.3 `OfflineQueue` (`internal/agent/queue.go`, `storage.go`)

`entries` is the agent's SQLite table, `reachable` the flag of the health check,
`phase` and `held` the syncs in flight and their copies (`mark`, `send`, `save`),
`recorded` the backups the server has stored, `stranded` the history of
entries whose mark `syncing` was left behind by a crash, by a write that failed, or
by a recorder that wrote back a copy read during a sync. `CheckHealth` starts a sync on its
own goroutine when the server comes back; `Sync` lists the pending rows on the
ticker's and on reconnection's behalf and, when everything listed is marked,
sends the report; `ReportFails` covers a server that is down and an answer that is
lost after the server stored the report. `Mark` and `Save` (`MarkFails`,
`SaveFails`) are the writes before and after the request, `Prune` and `ForceClear`
the deletions, `RecordBackupResult` an unsynchronised writer. The server's
`ReportQueuedBackups` handler stores each entry and goes on when one cannot be
stored (`reject`); it answers OK all the same.

### 2.4 `WebhookDelivery` (`internal/webhooks/dispatcher.go`)

`rows` is the table of deliveries, `endpoints` those that exist, `sends` the copies
being worked on: by `Dispatch`'s goroutine, by the retry worker's pool
(`WorkerCount`, a batch of `BatchSize` oldest due rows at a time) and by a manual
retry. `Deliver` covers what a send does next: take a pool slot and look the
endpoint up (`Start`, `LookupFails`), get an answer (`Answered2xx`,
`AnsweredOther`), write the outcome (`Save`). A request that cannot be built is
recorded as failed (`Unsendable`); one that gets no answer at all drops its copy and
writes nothing (`Unreachable`). `DeleteEndpoint` takes the deliveries with it.
`MarkRetrying` and `ShouldRetry` are translated
as they stand, `MaxAttempts = 0` included. `accepted` and `refused` are histories.

`AtLeastOnce` is the promise that this component and the offline queue share: a
sender's table (`view`) and what has arrived (`received`). Only what was sent
arrives, maybe again, and maybe after the sender gave it up or deleted it; a
message is confirmed only after it has arrived; what is deleted stays deleted,
although a late write may carry its copy. Its `Reopen` is what overlapping senders
really do: a stale copy takes a confirmation back and the message goes out again.
The refinement mapping of both (`View`, `ImplementsChannel`) reads the table's
status column; `accepted` and `recorded` are what arrived.

### 2.5 `BackupScheduler` (`internal/backup/scheduler.go`)

| Model | Code |
|---|---|
| `schedules`, `backups`, `replication` | the three tables |
| `entries` | cron entries; each closure captured a copy of its schedule |
| `reload` | the list `Reload` read and has not applied |
| `runs` | calls of `executeBackup`: repository, attempt, stage, last backup, replication targets |
| `stored` | the snapshots in each restic repository, which is external: `backup` adds one, `copy` copies one |
| `Forgettable`, `Removable` | `Restic.Prune` with `buildRetentionArgs`: `forget --prune` over the whole repository. It gets neither `--tag` nor `--group-by`, so restic groups the snapshots by host and paths, whichever schedule made them, and a policy that keeps something keeps one of each group; with `retentionEmpty` nothing runs |
| `Paths` | what a schedule backs up: two schedules with the same paths are one group |
| `ListSchedules`, `ApplyReload` | `Reload`: list, then add and remove entries |
| `EntryFires`, `TriggerBackup` | a cron tick with the captured copy; an immediate run with a fresh one |
| `Step` | the stages of a run: create the record, run restic, save success or failure, retry, fail over, retention, replicate, scripts and notification |
| `ToggleSchedule`, `EditSchedule`, `DeleteSchedule` | the schedule handlers; an edit changes the repositories, never the paths |
| `Crash`, `FailStaleBackups` | the server dies and starts again: `main.go` marks rows that have been running for a day as failed; how much later it starts is open, so any subset of the running rows may be old enough |

`tried`, `succeeded` and `lost` are histories; `lost` holds the backups whose outcome
never reached their record. `StoreLoadsRepositories` says whether
`GetEnabledSchedules` fills in the repositories of a schedule, as the scheduler
and its tests' store assume; the server's own store does not (§5).

### 2.6 `AgentMonitor` (`handlers/agent_api.go`, `monitoring/monitor.go`)

`row` is an agent's row (status, how long ago it was seen, health), `alerts` the
number of unresolved alerts of each type (two stands for two or more), `requests`
the health reports, heartbeats and reconnections being served between their read,
their write and their alert, `monitor` and `listed` the heartbeat check and the
copies of rows it works through, `overlapped` and `missed` histories. `Handle` is
each handler's next statement; `CheckAgent`, `LookUpOfflineAlert` and
`CreateOfflineAlert` are `checkAgentHeartbeat`. `LookUpHealthAlert` is all that
happens to a report of bad health: the store wraps `pgx.ErrNoRows`
(`db/store.go:1935`), the handler compares the error with it by `!=`
(`agent_api.go:320`) and returns, so no health alert is ever created (§5). The
monitor's lookup gets the same error, but goes on as if it had found none.

`RecoveredIsNotOffline` is about the other half of that handler: it resolves an
agent's alerts only when the health a report brings differs from the one in the row.
An agent that was healthy before it went silent would keep its offline alert for
ever, but for the monitor, whose `UpdateAgent` writes back a row of `GetAllAgents`,
which does not load the health.

What the model shows besides its properties, and what no property forbids because the
code makes no claim about it: an offline alert stays open after the agent is back if
its report overlapped the monitor's check, the monitor's write of an old copy loses a
report that arrived meanwhile, and an offline alert whose creation failed is never
tried again since the row already says offline.

### 2.7 `LicenseValidator` (`internal/license/validator.go`, `handlers/license_manage.go`)

| Model | Code |
|---|---|
| `key`, `license`, `entitlement` | the fields of `Validator`; `key` is also what the settings table holds |
| `verifies` | whether the key's signature is good under the public key that `main.go` fetched when the server started; `Activate` refuses a key that does not verify, a trial's key and one loaded from the database are not checked |
| `token`, `grace`, `overdue` | the age of the refresh token, the time since `graceStartedAt`, the time since the key expired; each stops at the limit it is compared with |
| `validationRunning`, `closed`, `doomed` | `validationRunning`; whether `stopCh` is closed; the loops that wait on a closed channel and have not left |
| `at`, `timer`, `saw` | which call a loop, `Start` or a request has under way, since when, and what it has read of a licence it is replacing |
| `Fire`, `Leave`, `Return` | the `select` of `heartbeatLoop` and `validationLoop`, which may take a due tick before a closed channel and returns when it reads no key; the deferred function that clears `validationRunning` is a critical section of its own (stage `returning`) |
| `SetLicenseKey`, `Stop`, `Restart`, `ClearLicenseKey`, `SendHeartbeat` | the requests of administrators, cut at their calls |
| `Granted`/`Apply`, `Refused`/`ClearEntitlement`, `Undecided`, `Unreachable` | the answers to activation and validation, applied under the two or more locks the code takes one after the other |
| `HeartbeatAnswered`, `HeartbeatDowngrades`, `HeartbeatFails` | the answers to `sendHeartbeat`; one may carry a refresh token or none (`Beat`), an entitlement or none, and "downgrade" or "kill" |
| `RejectKey`, `EndGrace`/`KeepLicence`, `ContinueGrace` | `verifyKeyLocally`, when the server cannot be reached: the key is read and judged (`Verdict`), then what the verdict says is applied under later locks. A key that does not verify loses the licence at once; one that verifies ends the grace period and keeps the licence; one that expired starts or continues the grace period |
| `missed`, `unremoved`, `inherited` | history: heartbeats of the loop without a token since the last that brought one; the database kept the key of a server whose loops were stopped; the grace period was begun for an earlier key |
| `Tick`, `Expire`, `Crash` | time, within which calls end and due ticks are taken; the key's date; a restart |

The license server is external and may give any answer its clients handle. A grant
is an answer with a tier and an entitlement that parses; one without them leaves
what there was, as an undecided one does. `missed` also bounds how many heartbeats in
a row an instance lets go without a token (`MaxMissed`).

## 3. The runs

| Run | Question | Bounds |
|---|---|---|
| `job_queue_faults` | is a job handled by one worker at a time, and does it live the life `JobLifecycle` gives it, when the server dies and writes fail? | 3 jobs (one of higher priority, one without handler), 2 workers, 1 retry processor, 3 retries |
| `job_queue_admin` | do stale writes of two retry processors and of cancel and retry requests break the retry budget, orphan a running row or keep a job from settling? | 2 jobs, 1 worker, 2 processors, 1 request at a time, 2 retries |
| `agent_commands_faults` | is a command executed at most once, are results in order and true, does every command end? | 2 commands, one restarting; lost answers, failed writes, agent crashes, cancel, time-out |
| `agent_host` | is the executable in place, and a completed update installed, while the daemon and an administrator update at once and renames fail or are cut short? | 1 update command, 2 updaters, two generations of `.bak`; lost answers, failed writes, kills |
| `agent_commands_terminal` (violated) | is a terminal status final? | 1 command, no faults |
| `offline_queue_faults` | is what is marked synced on the server, within the retry budget, can overlapping syncs strand an entry, and does each entry settle? | 1 backup, ticker and one reconnection sync, 1 recorder, 3 retries, every fault but `reject` |
| `webhook_faults` | is "delivered" and "failed" true of what happened, and does each delivery settle? | 2 deliveries, 1 endpoint, 2 attempts, a batch and a pool of one |
| `backup_scheduler_refresh` | do records and entries stay in step while the schedule is edited, toggled, deleted, every write may fail and restarts fail stale backups? | 1 schedule, 1 repository, 3 attempts, 1 run, a policy that keeps nothing |
| `backup_scheduler_overlap` | do two runs, of one schedule or of two with the same paths, fail over in order, and do they leave paths with a completed backup or a synced target without a snapshot? | 2 schedules (one keeps, one has a policy that keeps nothing), 2 runs, 2 repositories, 1 attempt each, failing writes |
| `backup_scheduler_no_repositories` (violated) | does a run back up to the repositories of its schedule, over the server's own store? | 1 schedule, 1 repository, no faults |
| `agent_monitor` | is a silent agent alerted, once, and has one that came back healthy no offline alert? | 1 agent, 2 requests at once, all faults |
| `license_faults` | is a key in force always validated, do heartbeats keep the refresh token fresh, is a paid licence kept until its time, and does it come back when the license server does? | 1 administrator, heartbeat loop, 2 validation loops, every limit 1 or 2 heartbeat intervals, at most 1 heartbeat in a row without a token; every fault |

Why the bounds are enough. Every hazard in these components needs two writers and
one row: two workers, a processor and a worker, two syncs, two runs, two updaters,
two validation loops. The instances have at least those, and a second row or a
limit of one wherever rows compete (priority, batch, pool). Retry limits of two
and three separate the first, a middle and the last failure. Agents do not
interact, so one is enough. In `agent_host` one command suffices because the
daemon executes one at a time, and two updaters never make a third `.bak`. In
`license_faults` a unit of time is a heartbeat interval, so that a call ends
within it; what calls that span a unit can do is in `MCLicenseValidator_latency`.
A token lives for two intervals, as in the code, so `TokenStaysFresh` demands
freshness there only while no heartbeat was missed; the theorem covers validities
that have room for more. A second administrator needs a third loop, and then the
property fails (`MCLicenseValidator_two_admins`).
Executions and requests are limited by finite identity sets, and each counting
history variable by a ceiling that lies above what a property allows. What the
instances cannot show, other sizes, is what the proofs are for: every safety
property that a passing run checks is proved for every value of the constants (§6).

Symmetry is declared only in the runs without a liveness property, over the
identities the configuration does not tell apart. `CHECK_DEADLOCK FALSE` is
said where the system may stop: every job, command, entry or delivery is settled
or deleted and nothing else is created.

More configurations are kept beside the runs. These pass:

- `MCOfflineQueue_batch`: the properties of `offline_queue_faults` for two entries in
  one report and a queue that can be full; the queue also implements `AtLeastOnce`
  (`ImplementsChannel`).
- `MCWebhookDelivery_channel`: the dispatcher implements `AtLeastOnce`, with every
  fault, `lookup_error` included.
- `MCLicenseValidator_latency`: the safety properties of `license_faults` with calls
  that take a unit of time.
- `MCAgentHost_two_commands`: an ordinary command next to the update; the daemon on
  its host also behaves as `AgentCommands` says (`ImplementsCommands`).
- `MCAgentHost_path_kept`: `agent_host` where `os.Executable` keeps its path.

Each of the others violates the property it names and documents where that property
ends:

- `MCJobQueue_two_queues`: with two retry processors `ExclusiveExecution` fails: the
  second writes back a copy that says pending while a worker runs the job.
- `MCJobQueue_crash`: a crash leaves a row `running` that nobody picks up
  (`RunningIsProcessed`); the package has no recovery of such rows.
- `MCAgentCommands_no_worker`: without a timeout worker an acknowledgement whose
  answer is lost leaves its command open for ever (`CommandsSettle`); the server's
  `main.go` starts no timeout worker.
- `MCAgentHost_no_restart`: on Linux a completed update does not take effect
  (`UpdateTakesEffect`, §5).
- `MCAgentHost_lost_backup`: a swap that has to be undone does not find its `.bak`,
  because the other updater renamed or removed it (`UndoFindsBackup`).
- `MCOfflineQueue_reject`: when the server cannot store an entry of a report it
  still answers OK, and the agent marks the entry synced (`SyncedIsRecorded`).
- `MCBackupScheduler_shared_repository`: of two schedules with the same paths in one
  repository, one prunes all the other has stored (`OwnSnapshotIsKept`, §5).
- `MCAgentMonitor_health_alert`: an agent falls ill and no health alert is created
  (`UnhealthyIsAlerted`, §5).
- `MCLicenseValidator_missed`: a token lives for two heartbeat intervals, and one
  heartbeat without a token lets it expire (`OneMissedIsAllowed`): the next one is
  answered after its twelve hours, although the comment at `validator.go:145` allows
  one missed heartbeat.
- `MCLicenseValidator_reactivated`: after a deactivation the heartbeat loop does not
  come back with the next key (`HeartbeatsContinue`, from `docs/heartbeat-testing.md`);
  only `Start` starts it.
- `MCLicenseValidator_grace`: in the grace period the features that ask for a fresh
  token stop after two missed heartbeats (`FeaturesContinueInGrace`, from
  `docs/heartbeat-testing.md:229`).
- `MCLicenseValidator_store_error`: a deactivation whose database write fails leaves
  a key in force that nobody validates (`KeyIsValidated`).
- `MCLicenseValidator_two_admins`: two administrators and three loops. A loop has read
  no key and has not cleared its flag yet when a key is entered: `SetLicenseKey` sees
  the flag set and starts no loop (`SomeoneValidates`).
- `MCLicenseValidator_inherited`: a key entered while an earlier one is in its grace
  period, and not granted before it expires, gets what is left of that period
  (`WholeGracePeriod`).
- `MCLicenseValidator_late_answer`: a validation under way when the key is removed
  grants the licence to a server without a key (`RemovedIsFree`, from the comment at
  `validator.go:252`).

## 4. Fairness

Liveness needs only what the code's scheduling gives. Weak fairness of a ticker's
action: `time.Ticker` fires again and its loop has no way to stop but shutdown
(`ClaimNext`, `ListRetries`, `GetCommands`, `MarkTimedOutCommands`, `Sync`,
`ListDue`, `ListSchedules`). Weak fairness of what a goroutine does next: handlers,
HTTP calls and child processes have deadlines and a goroutine is not starved. Weak fairness of the passing of time
(`BackoffElapses`, `TimeoutPasses`). No fairness is given to users, faults, health
checks, a lucky answer or a particular outcome of a handler.

`AgentMonitor` asks for strong fairness of the monitor's own steps: each can be
disabled again and again by a crash or a request, and the assumption is that the
server does not die, nor the database refuse that one write, for ever.
`LicenseValidator` has one weak fairness condition, of time passing or any actor's
next step: time waits until every call, tick and closed channel that is due has been
dealt with, so no actor is left behind. In `JobQueue` and `WebhookDelivery` the
disturbances that code cannot end (a user who retries by hand again and again, a
server that dies again and again) are excluded in the property itself, `<>[][~
Disturbance]_vars => ...`, so that a behaviour with any finite number of them still
counts. `QueuedSettle` assumes in the same way that the server is reachable for good
at some time (`<>[]reachable`), and that crashes and refused writes end;
`LicenceRecovers`, that answers which fail or refuse, deactivations and restarts end.

## 5. Findings

1. `agent_commands_terminal`. Acknowledging and reporting read a command, check
   its status and overwrite the row by id. A cancellation or time-out in between
   is lost: the command becomes acknowledged or completed, and after an
   acknowledgement it is executed (`agent_api.go:493`; the handler itself says
   "command is already in terminal state", `agent_api.go:548`).
2. `backup_scheduler_no_repositories`. `GetEnabledSchedules` (`db/store.go:2310`)
   never loads `Schedule.Repositories`, unlike the other two lookups, so every run
   the scheduler starts ends with "no enabled repositories" and without a record.

More disagreements are documented by configurations kept beside the runs:

- `MCAgentMonitor_health_alert`. `handleHealthStatusChange` compares an error with
  `pgx.ErrNoRows` by `!=` (`agent_api.go:320`) but the store wraps it
  (`db/store.go:1935`): no health alert is ever created, although its comment says
  that it "creates or resolves alerts based on health status changes"
  (`agent_api.go:290`).
- `MCBackupScheduler_shared_repository`. A schedule's retention policy is applied to
  every snapshot of the same paths in the repository: the schedule's tags
  (`scheduler.go:663`) are given to `backup` but not to `forget` (`restic.go:747`).
- The server's restart. A backup that was made, but whose completed write was lost,
  stays `running` and is marked failed by `FailStaleBackups` at a later start
  (`cmd/keldris-server/main.go:152`). `RecordedAsItEnded` therefore says of a failed
  record only that its backup was not made *or* its outcome never reached the record.
- The seven violated configurations of `LicenseValidator` in §3: the property of each
  comes from a comment or a document, or is one a run checks without its exception.
- `MCAgentHost_no_restart`. `Apply` "replaces the current binary with the new one and
  restarts" (`updater.go:235`). On Linux the running file has been renamed to `.bak`
  and removed when the restart asks for `os.Executable` (`updater.go:271`,
  `main.go:2341`), so there is nothing to execute: the update is reported as
  completed, and the daemon goes on with the old version until somebody else ends
  it.

The missing repositories and the health alerts hide behind stores written for
tests, which fill in the repositories and return `pgx.ErrNoRows` unwrapped. The
other runs of the scheduler use a store that loads the repositories, so that the
rest of its behaviour can be examined; `AgentMonitor` has the server's own store
only.

## 6. Proofs

`tlapm` checks every proof to the last leaf. No assumption is used but the `ASSUME`
of each specification and what a theorem names.

| Module | Theorems | Inductive invariant |
|---|---|---|
| `JobQueueProofs` | `TypeCorrect`, `RetryBudgetHolds` | `BudgetInv`: types, budget of rows *and copies*, and that a copy being handled came from a claim |
| | `ExclusiveExecutionHolds`, `AttemptsBounded`, `CompletedStays`, for `SoleRequeuer` (one retry processor, no requests) | `ExclusionInv`: a job has at most one copy (`SoleHolder`), and `attempts` agrees with the retry count of the row or copy that will decide (`RunsAreCounted`) |
| | `ImplementsLifecycleHolds`, for `SoleRequeuer` | the same invariant; each action is a step of `JobLifecycle` or leaves it as it is |
| | `RunningIsProcessedHolds`, for `Faults = {}` | no copy that will be saved says running |
| `AgentCommandsProofs` | `TypeCorrect`, `ExecutedAtMostOnceHolds`, `ResultsFollowAckHolds`, `CompletedWasExecutedHolds` | `IInv`: at most one live request, of the agent's current command; the row of a claimed command is no longer pending; what has not been run is pending, being acknowledged or in the agent's hands; results belong to commands that ran |
| `AgentHostProofs` | `ImplementsCommandsHolds`, and from it and the theorem of `AgentCommandsProofs` `ExecutedAtMostOnceOnHost` | none: every step on the host is a step of `AgentCommands` or leaves it as it is |
| | `HostTypeCorrect`, `ExecutableInPlaceHolds` | `HostInv`: who is in `Apply` works on a path that has room for a `.bak`, a daemon that is down holds no command, and the executable is in place or being swapped |
| | `CompletedUpdateIsInstalledHolds` | `InstInv`: at most one process has taken the executable away (`SwapsExcluded`); a linked process runs the version its file has (`RunsItsFile`); nobody in `Apply` is new (`ApplierIsOld`); while the old version is the one to be started no other file and no process is ahead of it and no update is reported (`Kept`); of two updaters only one is about to move the executable, the other has no `.bak` it could mistake for its own (`Resolved`) |
| `OfflineQueueProofs` | `TypeCorrect`, `RetryBudgetHolds` | `IInv`: budget of rows and copies, and what each stage says of its copy |
| | `SyncedIsRecordedHolds`, without `reject` | also: a copy about to be saved as synced is on the server |
| | `SyncingIsInFlightHolds` | the property is inductive over `IInv`; `stranded` takes the place of assumptions about faults |
| | `ImplementsChannelHolds`, without `reject` | also: a copy is of a row that was there (`HeldExist`), so that only queued backups arrive; each action is a step of `AtLeastOnce` or leaves it as it is |
| `WebhookDeliveryProofs` | `TypeCorrect`, `DeliveredWasAcceptedHolds`, `FailedWasRefusedHolds` (without endpoint lookup errors) | `AcceptedInv`, `RefusedInv`: the property for rows and for every copy |
| | `ImplementsChannelHolds` | `AcceptedInv`, and each copy is of a stored row and would leave it stored (`SendsExist`) |
| `BackupSchedulerProofs` | `TypeCorrect`, `RecordsCorrect`, `RunningCorrect` | `PlacedInv` (repository and attempt of a run fit its stage), `RecordsInv` (record, stage and history of each backup agree; a row that is running without a run is `lost`, so that what a restart marks as failed is excused) |
| | `CompletedRestorable`, `SyncedHolds` | `SnapshotInv`: where a backup succeeded a snapshot of the same paths is left, since `forget` keeps one of each group, whichever schedule prunes; `SyncedInv`: the same for copies of replication rows |
| | `FailoverCorrect` | `OrderInv`: what a run has tried precedes what it is at, and everything that precedes it was tried (`OrderOK`); that it did not succeed comes from `RecordsInv` |
| | `FailureReported` | `ReportInv`: only attempts that were made have a record, and a run without a last backup has no failed record to tell of |
| `AgentMonitorProofs` | `TypeCorrect`, `OneOfflineAlertHolds`, `RecoveredIsNotOfflineHolds` | `SilentInv` (an agent marked offline was not seen recently, in rows and copies), `OfflineInv` (the monitor about to create an alert found none), `HealthInv` (what a report in flight has still to do to the alerts) |
| `LicenseValidatorProofs` | `TypeCorrect` | `IInv`: types, and which actor can be at which place with which answer in hand |
| | `SomeoneValidatesHolds`, for one administrator at a time | `ValidatedInv`: the flag tells the truth while the channel is open, and whoever closed it, saw no loop, or removes the key is still at it |
| | `TokenStaysFreshHolds` | `FreshInv`: a token is as old as the ticks since its heartbeat and the heartbeats missed since make it |
| | `NoEarlyDowngradeHolds` | `GraceInv`: a grace period that is longer than its key has been expired was begun under an earlier key |

The argument is the same everywhere. A property of rows is not inductive since
a stale copy may be written back at any time, so it is strengthened to say the
same of every copy, together with what the stage of its holder implies. Shape
lemmas (`RowStep`, `SendStep`, `HistoryStep` and the like) state once how each
action changes rows and copies; each invariant is then shown from the few shapes
rather than from every action.

The order of a failover is a proof about numbers: an attempt is a triple of
run, repository and attempt, `Precedes` orders those of one run lexicographically, and
a step of a run (`Follows`) either stays where it is or goes to the next attempt,
or to the first one at the least repository that is left (`FirstIsLeast`). Both
refinements of `AtLeastOnce` rest on one fact each about writes that come late
(`WriteTurns` and the `Save` step of `ChannelStep`): writing a copy back confirms a
message only if the invariant for copies says it arrived, and writes nothing where
the row is gone. The executable's proof follows the files rather than the
processes: lemmas say what a rename does to every process that runs one of the two
files (`RenameSeen`), and each step of `Apply` is then a rename at a known place.

Only model-checked: all liveness (`JobsSettle`, `CommandsSettle`, `QueuedSettle`,
`DeliveriesSettle`, `RunsEnd`, `EntriesFollowSchedules`, `OverdueIsAlerted`,
`LicenceRecovers`), which is beyond the prover. The violated properties
(`TerminalIsFinal`, `ConfiguredRepositoriesAreUsed`) have no theorem. Nothing else
that a passing run checks is without one.

Where a theorem assumes something, a configuration of §3 shows why:
`MCJobQueue_two_queues` for `SoleRequeuer` (its other half, no requests, excludes the
manual retries that bring a job back on purpose), `MCJobQueue_crash` for `Faults = {}`,
`MCOfflineQueue_reject` for `"reject" \notin Faults` (with it the queue does not
implement the channel either), `MCLicenseValidator_two_admins` for one administrator
at a time. Without `"lookup_error" \notin Faults` a failed lookup gives a delivery up
that its endpoint never saw: the code does that, and the assumption delimits what is
claimed. Where a property names a history variable instead (`unremoved`, `inherited`,
`missed`), `MCLicenseValidator_store_error`, `_inherited` and `_missed` show what
happens without it.

## 7. What is not modelled

`PROJECT.json` lists every part with its reason. Inside the modelled parts:
Pi-hole and Proxmox schedules, and the maintenance, concurrency and validation
services of the scheduler, which the server does not set; edits of a schedule's
paths, which move its later snapshots to another group; the SLA check, alert
rules and what users do to alerts and agents (an acknowledgement, for one, writes
back an alert read before it was resolved, `alerts.go:213`); how the updater finds
and downloads a release, which is one step that may fail; a licence key from the
environment, registration, what a trial is about, air-gapped licences, feature lists
and `Validator.killed`, which only feature checks read;
formatting, logging, metrics and validation of fields. Which services run: the
server's `main.go` starts the backup scheduler, the monitor, reports, metrics,
verification, DR tests, database backup and retention. It creates no job `Queue`,
webhook `Dispatcher`, `TimeoutWorker`, `ConcurrencyManager` or shutdown `Manager`;
the agent's `main.go` starts the offline queue's loops but calls neither
`QueueBackup` nor `RecordBackupResult`. These packages are modelled as they are
meant to be started.

## 8. Plan

Next, in this order:

1. `BackupConcurrency`: slots per organization and agent, the queue table, the lock
   that `AcquireSlot` holds while `CanStartBackup` asks for it again
   (`concurrency.go:123`), with a counting semaphore as its abstract specification.
2. `Checkpoints` composed with `Shutdown`: the active map, a save that races cancel
   or complete, phases with deadlines, late registrations, resume at start.
3. The rest of monitoring: the SLA check, downtime events, and the actions of
   users on alerts and agents.
4. `QueueManager`, and the remaining schedule types of the backup scheduler.

Abstract specification still to be stated: a one-way phase machine for shutdown.
