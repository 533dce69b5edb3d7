# Skauswatch, specified

TLA+ models of the concurrent parts of Skauswatch, checked by TLC on small
instances and, for the properties that matter most, proved by TLAPS for every
value of the constants. The modules follow the source; a definition keeps the
source's name where it has one, and `PROJECT.json` ("map") gives the lines
each definition stands for.

## The system

| part | state it keeps | operations | talks to |
|---|---|---|---|
| **worker-scanner**, scan jobs (`services/worker-scanner`: `api/routes/jobs.py`, `api/routes/targets.py`, `workers/scan_worker.py`) | rows of `scan_jobs`, `scan_findings`, `scan_targets` in PostgreSQL; messages in Redis | create, retry, delete a job; cancel; delete a target; execute a scan | Flask handlers and Celery workers share the database and meet through the broker |
| **worker-scanner**, schedules (`api/routes/schedules.py`, `workers/scheduler_worker.py`, `workers/celery_app.py`) | rows of `scan_schedules` | create, update, delete; `process_due_schedules`, asked for by Celery Beat every 60 s | creates scan jobs and publishes them |
| **worker-scanner**, attack surface scans (`execute_asm_scan`, `api/routes/asm.py`) | rows of `asm_*`, messages in Redis, a database connection per worker | create, run, compare with the previous scan; go with their target | as scan jobs, on tables of their own |
| **IceBox API**, just-in-time access (`icebox/services/flask-backend/api/v1/jit.py`, `main.py`) | rows of `icebox_jit_requests` and `icebox_jit_grants`; one database connection per process | request, approve, reject; delete a secret; a background loop revokes expired grants | async handlers and the loop share a thread and its connection; replicas share the database |
| **IceBox API**, one-time secrets (`api/v1/one_time.py`) | secrets with a viewed mark | create, view | concurrent views of one token; keys wrapped anew by a master key rotation |
| **IceBox API**, secrets and key rotation (`api/v1/secrets.py`, `api/v1/admin.py`, `crypto/envelope.py`) | secrets, numbered versions, wrapped keys, the master key of each process | create, rotate, read; rotate the master key | several processes, one database |
| IceBox sync worker (`sync-worker/worker.py`, `api/v1/sync.py`) | a Redis stream and its consumer group | push a secret to external stores | consumes what the API produces |
| IceBox PKI server, SSH CA | issued and revoked certificates | issue, revoke, publish lists | the IceBox API |
| **aaa-monitor**, event buffer (`services/aaa-monitor/buffer_manager.py`) | buffers in memory, critical events in Redis | add an event, flush, persist, recover | collectors add, batch processors are handed batches |
| **aaa-monitor**, threat feeds (`threat_intel/taxii_client.py`) | time of the last update, cursors, indicators in a database | discover collections, update a feed page by page | TAXII servers |
| aaa-monitor, the rest | patterns, health counters | collect, classify, analyse, alert | external log sources and alert sinks |
| edr-agent (Go) | a bounded channel of events, a batch | sample, batch, send, stop | sends to the log receiver over HTTP |
| log-receiver | a Redis stream, two stores | receive, consume, write, acknowledge | agents, stores |
| **manager**, approvals (`services/manager-new/api/v1/approvals.py`) | rows of `approval_requests` | create, decide, cancel | replicas of the manager share the database |
| manager, the rest (`services/manager-new`) | S3 scan jobs, streams, alert reviews | create and finish S3 scans, review alerts | worker-s3 over streams, external services |
| Darwin hunting workers | their own database | Celery tasks | - |
| web consoles, legacy services, Kubernetes files, documentation | none of their own | - | - |

### What makes each part correct, and what is hard in it

* **Scan jobs.** Every UPDATE of a status is unconditional and comes after a
  read that may be stale; messages are acknowledged late, so they come at
  least once; scans outlive the broker's visibility timeout; both Celery and
  users retry; a worker child can use its database connection in one task only.
  Correct means: no job is forgotten, outcomes are final once nobody works on
  the job, a summary counts stored findings, a cancelled job does not run, one
  worker executes a job, every job ends. The first and the last do not hold:
  what can be said is in which ways alone a job is dropped.
* **Schedules.** A run reads all due rows once and takes minutes over them; the
  next run, a user's update and a crash fall in between. Correct means: a
  recorded run happened, no slot is skipped, a disabled schedule is quiet.
* **Attack surface scans.** Services are committed one by one and the scan is
  completed in a commit of its own; scans outlive the visibility timeout; two
  scans of a target run at once and each reads what the other writes; a target
  can be deleted under them. Correct means: a completed scan is whole, a
  difference is between services that are there, a service is repeated only by
  another delivery, every scan ends or is dropped in a known way.
* **Just-in-time access.** An approval awaits the request body between its
  check and its writes; replicas sweep at once; one failed statement stays with
  a connection. Correct means: an approved request has a grant, a closed
  decision is final, expired grants are revoked.
* **One-time secrets.** Two requests can both read a secret before either marks
  it. Correct means: shown at most once, whoever asks.
* **Secrets and key rotation.** Version numbers are read and then written;
  a rotation waits for another's row locks with a list of versions older than
  they are; a master key rotation rewrites rows it read earlier, and each
  process has its own idea of the current master key. Correct means: a secret
  has its latest value, that version is not deprecated, every value can be
  decrypted.
* **Event buffer.** Several tasks flush the same buffers and await in between;
  buffers reach their limit; the process ends between buffering and flushing.
  Correct means: an event is handed over once by each of its routes, critical
  events are never dropped, buffers stay bounded, what is secured is delivered.
* **Threat feeds.** Objects are added while pages are read; updates stop at a
  page limit; a failed request counts as a success; the start of an update is
  read from the client's clock; cursors and the time of the last update die
  with the process. Correct means: the time of the last update can be trusted,
  every object is stored in the end.
* **Approvals.** Replicas read, modify and write a count and a history.
  Correct means: an approved request has the supporters it requires, decisions
  are not lost or undone.

The hazards of each part are listed, with their lines, under "hazards" in
`PROJECT.json`.

## Plan

All of it that is feasible is done: `ScanJobs`, `ScanSchedules`, `JitAccess`,
`SecretVault` with `ShownOnce`, `EventBuffer` with `EventDelivery`, `TaxiiFeed`,
`Approvals` and `AsmScans`, in the order of what a failure would cost. What
was planned and left out, and why, is under "Not modelled" below. Every safety
property of a passing run is proved for all values of the constants; the liveness
properties are not, but for three of them the invariant they stand on is
(`NoJobOrphaned`, `ActiveScansAreAwaited`, `AcceptedIsNotDropped`).

## The modules

| module | what it is |
|---|---|
| `ScanJobs` | the life of scan jobs |
| `MCScanJobs` | constants and symmetry for its runs |
| `ScanJobsProofs` | its theorems |
| `ScanSchedules` | schedules and the scheduler's runs |
| `MCScanSchedules` | the module of its runs |
| `ScanSchedulesProofs` | its theorems |
| `JitAccess` | just-in-time access to IceBox secrets |
| `MCJitAccess` | which secret each request of its runs is for |
| `JitAccessProofs` | its theorems |
| `ShownOnce` | what a one-time secret promises |
| `SecretVault` | secrets, versions, one-time secrets and master keys of IceBox |
| `MCSecretVault` | symmetry for its runs |
| `SecretVaultProofs` | its theorems, the refinement of `ShownOnce` among them |
| `EventDelivery` | what the event buffer promises |
| `EventBuffer` | the event buffer of aaa-monitor |
| `MCEventBuffer` | the keys and severities of its run |
| `EventBufferProofs` | its theorems |
| `TaxiiFeed` | the updates of a threat feed |
| `MCTaxiiFeed` | the module of its run |
| `TaxiiFeedProofs` | its theorems |
| `Approvals` | one approval request of the manager |
| `MCApprovals` | symmetry for its run |
| `ApprovalsProofs` | its theorems |
| `AsmScans` | the life of attack surface scans |
| `MCAsmScans` | the target of each scan, the address of each entry of its run |
| `AsmScansProofs` | its theorems |

A definition with the comment "Variant:" is not part of a specification. It is
a wrong version of the definition after it, kept to show that a property can
fail: with the variant in the definition's place, TLC finds the property
violated (`PROJECT.json`, "mutants").

### ScanJobs

State. `job[j]` is `scan_jobs.status`, with "none" before the id is allocated
and "deleted" after the row is gone; `findings` and `summary` are the stored
findings and `result_summary.total_findings`, counted in batches (one batch per
scan that reports anything: which findings they are does not matter to any
property); `targets` the rows of `scan_targets`. `queue[j][n]` counts the
messages in Redis for job `j` at its `n`-th Celery retry. For each worker
process, `pc`, `task`, `try` and `conn` are where it stands in `execute_scan`,
the message it holds unacknowledged, `request.retries`, and whether its
thread-local connection is open. `req` holds the requests and scheduler runs in
flight with the status they read. `faults` counts faults. `dropped`, which no
code keeps, are the jobs of which a message was acknowledged, or not published,
with no outcome written, and which did not begin to run since.

Steps. A handler that reads and then writes is two actions, because the
database locks nothing on a read: `BeginDelete`/`FinishDelete` (`delete_job`),
`BeginCancel`/`FinishCancel` (`cancel_scan`), `BeginDeleteTarget`/
`FinishDeleteTarget` (`delete_target`). `create_job`, `retry_job` and
`run_schedule` are `BeginCreate` or `BeginRetry` (the checks), `InsertJob` (the
INSERT and its commit) and `Dispatch` or `DispatchRaises` followed by
`RecordDispatchFailure`. The job of a due schedule is `BeginDue`, `InsertJob` and
`Dispatch` or `DueDispatchRaises`, after which nothing is recorded. `execute_scan`
is `Start` (receive, read the row, the checks before execution), `MarkRunning`
(UPDATE, commit, load the target), one
of `Succeed`, `InsertFails`, `Fail`, `Raise`, `LoseDatabase` (the scan and
everything up to the commit of the outcome, and Celery's retry) and `Ack`.
A scan's findings and its final UPDATE are committed together, so nobody else
sees anything between them.

The connection of a worker child. `get_db` keeps one connection per thread, and
nothing in a Celery child closes it; `get_configured_db` defines the tables on it
in every task (`database/models.py:285-288`), and PyDAL refuses to define a table
again. So the first task of a child, of whatever kind (`OtherTask`), is the only
one that gets its database. A later `execute_scan` is `StartInVain`: the error is
raised before `db` is assigned, no outcome is written, its text has none of the
words that are retried, and the message is acknowledged. `Recycle` replaces the
child after 50 tasks. (In the API each request closes its connection when it
ends.) `StartFails` is a database that cannot be reached: the child stays fresh
and the task is retried. That PyDAL refuses (`define_table`
raises for a table already defined, unless told to redefine it) is external; were it different, `StartInVain` would be `Start` on
the old connection, and `child_reuse` would have no violation.

The environment. PostgreSQL at READ COMMITTED and Celery on Redis are not in
the repository and are modelled by what the code relies on: an UPDATE of a row
that is gone changes nothing, foreign keys hold, an unacknowledged message is
delivered again when its worker dies (`Crash`) or when a scan outlives the
visibility timeout, which the configuration leaves at one hour
(`VisibilityTimeout`), and is acknowledged when the hard time limit kills the
child (`KillChild`). `AbortsOnError` says that a failed statement dooms the
transaction until a rollback, as PostgreSQL does; the connection it leaves behind
is one no later task can use in any case. The Celery revoke in
`delete_job` names the job's id where Celery expects a task id of its own; it
reaches no task and is left out.

### ScanSchedules

State. The columns of `scan_schedules` that scheduling depends on (`enabled`,
`cron`, `next`, `last`), the clock `now` in minutes, and for each runner (a
worker executing `process_due_schedules`) the time it read, the copies of rows
it has not reached, and the one it is working on. `sent[s]` records for which
run times a job of `s` was published. `edit` holds the requests in flight with
the columns they are going to write.

Steps. `Begin` reads the clock and the due rows; then, per row, `InsertJob`
(committed), `Dispatch`, `Record` (UPDATE of `last_run` and `next_run`), each
with its failure, which goes on with the next row; `End`. `LoseDatabase` is a
connection lost for good, on which the rollback raises too and the run is over.
`conn` is the child's connection, as in `ScanJobs`: only a run on a fresh child
gets to its query. A run with no due row, a run whose query fails (the `except`
that catches it rolls nothing back) and a task of another kind have the same
effect, a child that is used up: `OtherTask`. `BeginCreate`/`FinishCreate` and
`BeginUpdate`/`FinishUpdate` are the handlers; `delete_schedule` only writes what
it read to exist, so it is one step, `DeleteSchedule`, which also stands for the
schedules `delete_target` removes.

A cron expression is its period: `NextSlot(c, t)` is the first multiple of `c`
after `t`, which is what croniter's `get_next` returns for expressions like
`*/c * * * *`. The branch of `process_due_schedules` that falls back to one hour is
not modelled: an expression is validated by croniter, and its next run
computed, before it is ever stored.

### JitAccess

State. `status[r]` is `icebox_jit_requests.status`; `grant[g]` tells a grant's
life by `revoked_at` and the foreign keys ("none" before its id is used,
"deleted" after its secret or request is gone), `grantOf` and `expires` are its
`request_id` and `expires_at`; `now` is the clock. A process is one event loop
on one thread: `get_db` gives all its handlers and the revocation loop one
connection, whose transaction `conn[p]` says to be in order or aborted.
`doing[p]` is the handler or sweep that a process is in the middle of, between
two statements: no other handler of that process runs meanwhile, other
processes do. `call[h]` is an approval that awaits its request body: the one
place where a handler lets others of its process run.

Steps. `CreateRequest`; `BeginApprove` (the checks, up to the await) and
`FinishApprove` (insert, update, commit: nothing of it is visible before the
commit, and nothing checks the status again) or `AbandonApprove`;
`BeginReject`/`FinishReject`; `DeleteSecret` with its cascade;
`BeginSweep`/`FinishSweep`, the SELECT of the revocation loop and its updates
with their commit. `FinishApprove` for a request that is gone breaks the foreign key
and aborts the connection. `StatementFails` is any other failing statement
(two sweeps that deadlock, bad data), `Restart` replaces a process. Who may
approve, and whether a token is valid, is not modelled.

### SecretVault and ShownOnce

State. `row[s]`, `current[s]`, `wrap[s][n]` and `deprecated[s]` are the row of a
secret and its rows of `icebox_secret_versions`. Every encryption makes a data key
(DEK) of its own, so a value and its DEK are both named by the number of the
version they were made for; a wrapped DEK is the pair of the DEK inside it and the
master key (MEK) version around it. A row can be decrypted when its DEK is the
one of its value and the process has the MEK. `seal[t]` is `viewed_at` of a one-time
secret and `shown[t]`, which no code keeps, counts the answers that held its
value. `env` is the MEK version configured for processes that start now;
`loaded[p]` and `mekNow[p]` are `mek_versions` and `current_version` of a running one.

Steps. Each is a statement, because what interleaves are statements of different
processes. `rotate_secret` is `BeginRotate` (the body has arrived; its UPDATE finds
the versions without `deprecated_at`), `Deprecate` (it has their locks and looks at
them again, as READ COMMITTED does), `PickNumber` and `FinishRotate` (insert,
update, commit, or a broken constraint: `uq_secret_version` when another rotation
took the number, the foreign key when the secret is gone). `rotate_mek` is
`BeginRewrap` (reads the secrets), `Collect` (reads the other two tables) and
`FinishRewrap` (all rows written back by id and committed; a wait for another's
lock delays it, and since no one else can write a row between its UPDATE and
the commit one step is enough), or `RewrapRaises` for a row whose MEK
the process lacks, or `PersistFails`, after which the process wraps with the
new MEK although nothing was stored. A view is `BeginView` (read, checks),
`ClaimView` (the conditional UPDATE and its commit) and `AnswerView`.
`create_secret` and `delete_secret` with its cascade are single steps. The
lock that `DeleteSecret` takes is waited for; that it and a rotation may deadlock
is one of the causes of `StatementFails`.

`ShownOnce` is a one-time secret as its users see it: sealed, opened, shown, each
once. `SecretVault` implements it with `seal` and `shown` as they are
(`OnceSpec`); nearly every step of the vault is a stutter of it. That a secret
marked viewed may never be shown (the process restarts, or lacks the MEK) is
allowed by both: the code marks before it decrypts.

### AsmScans

State. `scan[s]` is `asm_scans.status`, `services[s][x]` how many rows record
entry `x` of a scanner's report (`open_ports`, a list in which an address may come
twice: `AddressOf`) under scan `s`, `diff[s]` its latest row of `asm_diffs`, which is the one
that `GET /scans/<id>/diff` serves. `creating` and `unsent` are requests
of `create_asm_scan` before and after their `delay()`. For each worker process
`pc`, `task`, `found` (`open_ports`), `left` (what it has still to insert) and `base`
(`prev_scan`) are the local variables of `execute_asm_scan`, `conn` the
thread-local connection. `dropped` is as in `ScanJobs`; `redelivered[s]` counts how
often a held message of `s` was delivered again.

Steps. One per commit or read that other processes can come between: `Start`,
`MarkRunning`, `LoadTarget`, `ScanSucceeds` or `ScanFails`, a `SaveService` for
each service, `ChoosePrevious`, `RecordDiff`, `Complete`, `Ack`. Host,
service, screenshots and certificate of one open port are one row in the model: they
hang together by foreign keys and no property tells them apart.
`ChoosePrevious` and the reading of that scan's services are statements of their own
in the code; the rows are read in `RecordDiff`, the last moment, and the diff is inserted right
after. Rows of a scan are only added while its target exists, so that an earlier reading would
be a smaller set: no property tells the two apart. `StartInVain` and `StartFails` are the
second task of a child and a database that cannot be reached; neither is retried here.
`DeleteTarget` takes the scans of the target and all their rows with it.
A statement refused by a foreign key goes to the `except` branch; on PostgreSQL
(`AbortsOnError`) the update of the status then fails as well. No code sets a
scan to cancelled, so the check of that status is not modelled, and
`max_retries=1` is never used: nothing calls `retry`.

### EventBuffer and EventDelivery

State. An asyncio process in which what happens between two awaits is one step.
`buffer[k]` is `event_buffers[k]`, `known` its keys, `priority` the three priority
buffers; an accepted event is in one of each. `adding[a]` is a call of `add_event`
at one of its awaits, `flushing[f]` a call of `flush_all`, `batches` what the
processors are working on, `recovery` and `found` the recovery task, `kept` the
keys in Redis. `acked`, `handed`, `released`, `hurt` and `expired` are history. An entry is an
event together with the run in which it was recovered (0 when a source offered
it), because the recovery buffers again what may be buffered already. Each event has a
key, and the key its severity, chosen initially from `Keyings`.

Steps. `Offer` is `add_event` up to its first await, `Persist` the call of Redis, and
`FlushOrReturn` its end with the immediate flush; `BeginFlush`, `FlushKey`,
`FlushPriority` and `EndFlush` are `flush_all`; `EndBatch` the end of the
processors. `Restart` is a crash, or a shutdown that has flushed. `FindKeys`,
`RecoverKey`, `DeleteKey` and `EndRecovery` are the recovery, which adds through
`add_event` like a source. Every call of Redis can fail, and a key expires (`Expire`),
an hour after it was written (`setex`): the model has no clock and lets it go at
any time. The file that `_persist_critical_event` writes as a backup is read by nothing.

`EventDelivery` is the buffer as seen from outside: entries are taken in once,
pending on two routes, handed over once on each, forgotten only all together.
`EventBuffer` implements it with `pending` the entries in buffers and batches
(`DeliverySpec`).

`Buffered` counts the places that are taken in the buffers (`Places`), pairs of a
key and an index: the sum of the lengths that `_should_drop_event` computes, as the
size of one set. So the theorems about finite sets reach what a sum over
the keys, which needs an induction over data, would not.

No module of the repository registers a batch processor and nothing starts the log
processor that would add events: the module models what the buffer does for the
sources and processors it is written for.

### TaxiiFeed

State. The server's clock counts the objects it has (`now`, `home`); `known` is the
list of collections, `lastUpdate` the time of the last update, `cursor` the remembered
pages, `stage`, `start`, `todo`, `current`, `from` and `page` the update in progress (a
lock allows one). `stored` are objects in the database of indicators, `lost` those that
a fault cut off, `late` those that showed up with a time that an update had passed by
the client's clock.

Steps. `BeginUpdate`, then for each collection `BeginCollection` and a `Fetch` for
each page, `Finish` (`last_updates`). `Discover` is the loop
that refreshes the collections. The faults: a failed request for a page, an object that
cannot be parsed or stored, a failed discovery, a restart. For each
the model records in `lost` exactly what the code gives up there, after a failed
request without a cursor everything the request asked for up to the update's
start; what still stands under a cursor is not lost.
So `NothingPassedOver` says that nothing else is ever lost.

The time of the last update is in memory only. `set_feed_last_update` fails every time:
the tables that the service creates do not include `feeds`
(`threat_database.py:247`, `1070-1143`; only the uncalled `_create_schema` has it), and
the failure is logged and forgotten. A restart therefore begins with no time and
no cursor, asks for everything again, and owes nothing to what was lost before
(`Restart` empties `lost` and `late`).

The start of an update is `datetime.utcnow()` of the client and is sent to the server as
`added_after`. `BeginUpdate` takes a time up to `Ahead` objects after or `Behind`
objects before the server's (`ClientTime`), which also stands for objects that the server
shows later than their time. A client that is ahead loses objects: those are `late`, and
nothing in the code would notice.

The server is assumed to order a collection by the time objects were added and to
take a cursor as the place where the page was broken, even next to the
`added_after` that the first request of an update sends along.

### Approvals

State. One row of `approval_requests`: `status`, `requester`, `required`, and in
`record` the count, the approvers and the history; `expired` says whether
`expires_at` is past. `call[p]` is the handler a replica is in, with the row it
read. `cast` are the decisions answered with success, `stale` the replicas whose
row was written since they read it, `overlapped` whether such a one has written.

Steps. `Create`; `BeginDecision` and `BeginCancel` (the read and the check of the
status); `WriteExpired`, `Refuse`, `Approve`, `Reject` and `Cancel` (the rest of the
handler, with the columns computed from the row it read); `Abandon` when it fails.
A handler awaits nothing between its read and its write, so each replica is
in at most one; the deployment asks for at least three (`minReplicas` in
`k8s/kustomize/base/manifests/manager/hpa.yaml`).

## What the runs check

| run | instance | shows |
|---|---|---|
| `redelivery` | 1 job, 2 workers, 2 requests or scheduler runs, 1 retry, 1 fault of any of the 7 kinds, on PostgreSQL; fair | `TypeOK`; `NoOrphan`; `CancelledIsNotRun`; `OutcomeIsFinal`; `JobsSettle` |
| `storage` | 2 jobs, 2 workers, 1 request, 1 retry, 2 faults out of killed child, failed publication, dead API process, lost database, failed insert; errors abort nothing | `OneExecutor`; `SummaryBacked` |
| `child_reuse` | 2 jobs, 1 worker, 1 request, no faults | finding: a child's second task is acknowledged and not executed |
| `schedule_runs` | 1 schedule, 2 runners, 1 request, expressions of 1 and 2 minutes, 3 minutes, 2 faults of any kind | `TypeOK`; `LastRunIsDispatched`; `DisabledStaysQuiet`; `NoSlotSkipped` |
| `jit_replicas` | 2 processes, 2 approvals in flight, 1 request, 3 grants, durations 0 and 1, 2 faults out of failing statement and restart; fair | `TypeOK`; `ApprovedIsGranted`; `DecisionIsFinal`; `ExpiredIsRevoked` |
| `jit_revocation` | 1 process, 2 secrets with a request each, no faults; fair | finding: a process revokes nothing any more |
| `vault_rotations` | 1 secret with 3 versions, 1 one-time secret, 2 processes, 2 master keys, failures and restarts without bound | `TypeOK`; `CurrentIsLatest`; `LatestIsInUse`; `HistoryIsReadable`; `OnceSpec` |
| `event_delivery` | a critical or high event and a low one, 2 tasks that flush, batches of 2, 1 fault out of end of the process, failing Redis and expired key; fair | `TypeOK`; `OnlyRecoveryForgets`; `BackpressureBounds`; `DeliverySpec`; `SecuredIsHanded` |
| `feed_updates` | 2 collections, 3 objects, pages of 2, 2 pages an update, a clock 1 object ahead or behind, 1 fault of any kind; fair | `TypeOK`; `NothingPassedOver`; `PublishedIsStored` |
| `approval_replicas` | 3 replicas, 4 users of whom 3 may decide, up to 2 required approvals, 4 calls | `TypeOK`; `ApprovedByQuorum`; `RecordIsExact`; `DecisionStands` |
| `asm_overlaps` | 2 scans of 1 target, 2 entries with an address each, 2 workers, 1 fault of any kind, on PostgreSQL; fair | `TypeOK`; `DiffIsGrounded`; `OncePerDelivery`; `CompletedWhole`; `ScansSettle` |
| `vault_stale_dek` | 1 secret with 2 versions, 2 processes, 2 master keys | finding: a secret gets the key of its previous value |

Bounds. Jobs interact only through workers and requests, so one job with two
of each meets every interleaving of two writers of a status; the runs with two
jobs add `retry_job`, whose row is a second one, and a deletion that takes
several jobs. One fault is what a state graph with fairness affords: it delivers a
job twice or breaks any one step of it, and the theorems cover any number of
faults and both values of `AbortsOnError`. Two faults in `storage` let Celery's
retry fail once more. Two runners are what "overlapping" needs, and in three minutes
a two-minute expression has its first slot, is edited and comes due again. Two processes
and two waiting approvals give every pair of decisions and sweeps on one request
in flight together, and the third grant one to issue after both. Secrets do not
share rows, so one secret in the vault meets every interleaving of two processes;
its third version is one that a rotation adds to two that overlapped. Two scans of
one target on two workers meet each other in every step, and one fault delivers one
of them twice; two entries with the same address are covered by the theorems. In the event buffer two keys with different severities and two
flushing tasks contend for each buffer, and a low threshold (`Backpressure` 40,
`DropAt` 100 percent of one event a key) makes the second event meet the limit;
one fault is a restart with a recovery in which Redis works and no key has expired, or a
failure of Redis or an expiry in the first run. A second crash is beyond the run; it is
covered by the theorem `ForgottenByRecoveryOnly`. Three objects over pages of two and updates of two pages leave a
cursor behind, and a clock off by one object is enough to pass one over. Three replicas in four calls put an approval, a rejection and
a cancellation on the same row. `MaxTime`, `MaxFaults`, `MaxRetries`, `MaxNumber`,
`MaxMek`, `MaxScan`, `MaxObjects`, `MaxRequests`, `Ahead`, `Behind` and the sets of ids are the
only bounds; ids are not reused. All runs but the vault's switch deadlock
checking off: when every id has been used and every request served there is
nothing left to do. In the vault a process can always be restarted.

Fairness. In `ScanJobs` `FairSpec` asks for weak fairness of what a worker process
does next (`Work`) and of a request in flight (`Serve`). Celery keeps a
free worker taking messages, whether its child is fresh or used up; the WSGI server
runs each request it accepted to its end. Nothing asks for a child to be
replaced: that needs fifty tasks. `ScanSchedules` has no fairness and no liveness
property, because none would be true: the runs of a child that ran a task before
do nothing, and an expression of a minute can be due again before a run has
recorded the last one, for ever. In
`JitAccess` the event loop of each process runs what it has begun and its
revocation loop (`Run`), which wakes up every 60 seconds and survives errors;
a request body need never arrive. In
`AsmScans` requests, messages and workers are fair as in `ScanJobs`. In
`EventBuffer` the event loop runs what can go on, and the flush timer never ends
(`start_processing`); in `TaxiiFeed` the loops of the feed and of the discovery do
not end. `Approvals` asks for none: it has safety properties only. Users, sources,
servers and faults are not fair: the liveness properties hold although nobody need
ever ask for anything again, and with faults bounded in number.

## What the code does against its documentation

* `child_reuse`: `celery_app.py:36` acknowledges "after execution for reliability".
  The second task of a worker child ends in `get_configured_db`, before it has a
  database, with nothing recorded and its message acknowledged. No fault is needed:
  of the scans sent to a child, up to fifty before it is replaced, only the
  first is executed, and the rows of the others stay pending. The same goes for
  `execute_asm_scan`, `cancel_scan` and `process_due_schedules`, and it is one of
  the ways in which the models drop a job or scan (`StartInVain`).
* `vault_stale_dek`: the documentation of IceBox says that a master key rotation
  keeps the DEK of every secret. `rotate_mek` writes back the DEK it read: when
  `rotate_secret` commits a new value in between, the row of the secret has the
  new value and the old DEK, and cannot be decrypted. The row of that value among the
  versions keeps its own DEK (`HistoryIsReadable`), so the value is not lost.
* `jit_revocation`: the revocation loop promises to revoke expired grants every 60
  seconds, and survives an exception; but nothing in the service rolls back, so
  after one failed statement the connection it shares with the handlers of its
  process fails every later one. An approval whose secret was deleted while it
  awaited its body is such a statement, with no fault of the environment.
  `/healthz` does not touch the database, so the process is not replaced either.
  `ExpiredIsRevoked` is what remains: a grant is revoked while any process
  has a connection that works.

More, which no run is about:

* `cancel_scan` says that completed and failed jobs cannot be cancelled
  (`scan_worker.py:595`), but it writes on the strength of a status that may be
  stale: a job that completes in between is cancelled. `OutcomeIsFinal` leaves out
  the time in which such a request is under way.
* `execute_scan` means to continue after a finding that cannot be inserted
  (`scan_worker.py:207`); on PostgreSQL the transaction is aborted, neither
  outcome can be written after it, and the job stays running with its message
  acknowledged.
* `update_schedule` says that `next_run` is recalculated when the expression
  changes (`schedules.py:357`); a scheduler run that read the row before writes the
  next slot of the old expression over it.
* `delete_target` looks at scan jobs only and can delete a target under a running
  attack surface scan, whose rows go with it; the worker's next insert breaks a foreign
  key. `CompletedWhole` and `ScansSettle` hold all the same.
* The "previous scan" that `execute_asm_scan` compares with is the completed scan
  of the target that was created last, even if that was after this one. Of two scans
  that overlap, the older may be compared with the newer, or both be stored
  without a difference. Executed twice, a scan has each service twice; and an address
  that masscan reports twice has two rows from one execution.
* Overlapping decisions on one approval request lose each other: the later write
  replaces count and history, a rejected or cancelled request can become approved,
  and an approved one can carry a record with fewer approvers than it requires.
  `ApprovedByQuorum` is what holds in any case: enough people did approve.
* The recovery of the event buffer deletes the Redis key of a critical event on the
  word of `add_event`, before the event has been flushed, under the key that
  buffering has just written again: a second crash loses it. An event dropped for
  back-pressure by the recovery loses its key as well. And the key expires after an
  hour, so that a process which is away for longer recovers nothing.
* A failed request for a page counts as a success of the update, a failed discovery
  empties the list of collections while `last_update` moves on: what is lost by each is
  what `lost` collects in `TaxiiFeed`. The time of an update is the client's own, so a
  client whose clock is ahead of the server's misses objects (`late`). Saving that time
  fails every time, for want of a table, so that every restart reads the feed from the
  beginning.
* `aaa-monitor/main.py:868` passes `update_feed` an argument it does not take, so
  that an update asked for by hand raises.
* Of two overlapping rotations of a secret the second can leave the version of the
  first without `deprecated_at`: its UPDATE saw the rows before that version was
  there. A rotation that picks a number already taken fails on
  `uq_secret_version`, with the aborted connection that `jit_revocation` is about.
* After `rotate_mek` the other processes go on wrapping with the old MEK until they
  are restarted, so it cannot be withdrawn then.
* `docs/icebox/ARCHITECTURE.md:122` and `tests/test_jit_flow_integration.py:89-93` say
  that the approved duration must not exceed the requested one, where `jit.py:174`
  compares it with the maximum only.
* A request that says rejected or expired may still have a live grant, when a
  rejection or a sweep overlapped an approval (`ApprovedIsGranted` holds in one
  direction only).

What can go wrong without an answer in the code is not excluded from `NoOrphan`,
`JobsSettle` and `ScansSettle` but named by them: these properties hold under every
fault, on PostgreSQL and elsewhere, for jobs and scans that are not in `dropped`. A job
is dropped when

* its message is given to a child that ran a task before (`StartInVain`),
* the scheduler could not publish it (`DueDispatchRaises`): the rollback that follows
  undoes nothing, for the row was committed,
* its API or scheduler process dies between the commit and `delay()` (`HandlerDies`),
* its child is killed at the hard time limit, and Celery acknowledges (`KillChild`),
* its worker loses the database, or cannot reach it, with no retry left
  (`LoseDatabase`, `StartFails`; an attack surface scan is never retried),
* a finding or service cannot be inserted on PostgreSQL, where the failed statement
  takes the outcome with it (`InsertFails`, `Refused`).

It is no longer dropped once an execution marks it running again. That a job is dropped
in no other way is what the properties say; `dropped` is recorded by those steps
alone.

Some hazards are things the code lets happen, so that no property can forbid them; they
are in `PROJECT.json` with a note instead: a stale writer over an outcome
(`jobs.py:306`), a cancellation under a scanning worker (`scan_worker.py:220`), findings
of a failed job stored again by its retry (`scan_worker.py:277`), a slot of an old
expression (`scheduler_worker.py:99`), one more run of a schedule disabled under its
runner (`schedules.py:483`) and a stale decision (`approvals.py:325`). The properties
next to them say what holds when no such overlap is in flight.

## What is proved

For every value of the constants, from the named assumptions of the modules
(`ScanJobsAssumption`, `ScanSchedulesAssumption`, `JitAccessAssumption`,
`SecretVaultAssumption`, `EventBufferAssumption`, `TaxiiFeedAssumption`,
`ApprovalsAssumption` and `IdleAssumption`, `AsmScansAssumption`) alone:

| theorem | states |
|---|---|
| `ScanJobsProofs!TypeCorrect` | `Spec => []TypeOK` |
| `ScanJobsProofs!SummaryIsBacked` | `Spec => []SummaryBacked` |
| `ScanJobsProofs!NoJobOrphaned` | `Spec => []NoOrphan` |
| `ScanJobsProofs!CancelledNeverRuns` | `Spec => CancelledIsNotRun` |
| `ScanJobsProofs!OutcomesAreFinal` | `Spec => OutcomeIsFinal` |
| `ScanJobsProofs!NoTwoExecutors` | `Spec => []OneExecutor` |
| `ScanSchedulesProofs!TypeCorrect` | `Spec => []TypeOK` |
| `ScanSchedulesProofs!LastRunHappened` | `Spec => []LastRunIsDispatched` |
| `ScanSchedulesProofs!DisabledIsQuiet` | `Spec => DisabledStaysQuiet` |
| `ScanSchedulesProofs!SlotsAreRun` | `Spec => NoSlotSkipped` |
| `JitAccessProofs!TypeCorrect` | `Spec => []TypeOK` |
| `JitAccessProofs!ApprovedAlwaysGranted` | `Spec => []ApprovedIsGranted` |
| `JitAccessProofs!DecisionsAreFinal` | `Spec => DecisionIsFinal` |
| `JitAccessProofs!ExpiryAlwaysEarned` | `Spec => []ExpiryIsEarned` |
| `SecretVaultProofs!TypeCorrect` | `Spec => []TypeOK` |
| `SecretVaultProofs!HistoryStaysReadable` | `Spec => []HistoryIsReadable` |
| `SecretVaultProofs!CurrentStaysLatest` | `Spec => []CurrentIsLatest` |
| `SecretVaultProofs!LatestStaysInUse` | `Spec => []LatestIsInUse` |
| `SecretVaultProofs!OnceRefined` | `Spec => OnceSpec`, the refinement of `ShownOnce` |
| `SecretVaultProofs!ValuesStayRecoverable` | `Spec => []ValueIsRecoverable` |
| `SecretVaultProofs!DekKeptApart` | `Spec /\ RotationsApart => []SecretKeepsItsDek` |
| `EventBufferProofs!TypeCorrect` | `Spec => []TypeOK` |
| `EventBufferProofs!ForgottenByRecoveryOnly` | `Spec => []OnlyRecoveryForgets` |
| `EventBufferProofs!BackpressureHolds` | `Spec => []BackpressureBounds` |
| `EventBufferProofs!DeliveryRefined` | `Spec => DeliverySpec`, the refinement of `EventDelivery` |
| `EventBufferProofs!HandedOnce` | `Spec => []BatchesAreNew` |
| `EventBufferProofs!AcceptedIsNotDropped` | `Spec => []AcceptedIsCarried` |
| `TaxiiFeedProofs!TypeCorrect` | `Spec => []TypeOK` |
| `TaxiiFeedProofs!LastUpdateIsTrue` | `Spec => []NothingPassedOver` |
| `ApprovalsProofs!TypeCorrect` | `Spec => []TypeOK` |
| `ApprovalsProofs!QuorumApproves` | `Spec => []ApprovedByQuorum` |
| `ApprovalsProofs!RecordsAreExact` | `Spec => []RecordIsExact` |
| `ApprovalsProofs!DecisionsStand` | `Spec => DecisionStands` |
| `AsmScansProofs!TypeCorrect` | `Spec => []TypeOK` |
| `AsmScansProofs!DifferencesAreGrounded` | `Spec => []DiffIsGrounded` |
| `AsmScansProofs!CompletedScansAreWhole` | `Spec => CompletedWhole` |
| `AsmScansProofs!ServicesCountDeliveries` | `Spec => []OncePerDelivery` |
| `AsmScansProofs!ActiveScansAreAwaited` | `Spec => []NoScanLost` |

`NoOrphan` is not inductive. `MarkRunning` ends at once when the target is
missing, which would orphan the job it just marked. The inductive invariant `IInv` adds
`RowHasTarget` (a job's row implies its target's: the foreign key on insertion,
one commit on deletion). Given it, every step that takes a job from its request, its
message or its worker hands it to another of the three, writes an outcome or
drops it; and `MarkRunning`, the only step that takes a job out of `dropped`,
leaves it with its worker.

`OutcomeIsFinal` and `CancelledIsNotRun` are action properties whose premises
speak of requests in flight: a request that saw an active status is about to
overwrite whatever is there. Their proofs need `CancelSawActive`, that a
cancellation in flight saw an active job, so that none of the requests left by
`Undisturbed` writes an outcome.

`LastRunIsDispatched` needs that a runner about to record has published the
job of that row for its own time, and that `sent` only grows; it holds with
any faults because the failures skip the record.

`NoSlotSkipped` needs the same invariant (`RecordsAfterDispatch`) and a fact of
arithmetic (`SlotReached`): the next slot of an expression after a time `t` is later
than a slot `n` of it only if `t >= n`. Only the record of a run moves a due
`next_run` on without an edit (`OnlyRecordMoves`), and that run was published at
its time `t`.

`ApprovedIsGranted` is inductive together with the types: a sweep writes the status
of the requests of exactly the grants it revokes, in the same transaction, so even a
stale batch takes "approved" away wherever it takes a grant away.
`DecisionIsFinal` holds because each half of a decision names its request in
`call` or `doing`: with none of them naming `r`, only a first half could act on
`r`, and its check fails. `ExpiryIsEarned` says the reverse of `ExpiredIsRevoked`: what
is revoked or expired had run out. It needs that what a sweep holds was issued and is
past its time for good (`Swept`: no second approval reuses a grant), and that a grant
goes only with its request (`Linked`), so that the sweep which expires a request
revokes a grant of it in the same transaction.

`CurrentIsLatest` and `LatestIsInUse` follow from `RotationInv`: the versions of
a secret are exactly 1 to its current one (`NumbersInOrder`), the current one is
not deprecated (`OldDeprecated`), and a rotation under way is `Behind` - what it is
about to deprecate exists already, and the number it picked is at most the
next. So a rotation whose number is still free holds precisely the next one,
which its list cannot contain; any other is refused by the unique constraint. It
is that constraint, and not a lock, that keeps the numbers in order.

`HistoryIsReadable` needs two facts about what processes hold: no process has a
key that is not configured (`KeysConfigured`), and the copy of a version that a
`rotate_mek` holds has that version's DEK (`CopiesAreTheirs`), which no write
ever changes. The row of the secret itself has no such invariant: that is
the finding `vault_stale_dek`. Two theorems say how far the finding goes.
`ValuesStayRecoverable` combines the three theorems above: even then the version that
is in use has the DEK of the value, under a configured master key.
`DekKeptApart` has a hypothesis about behaviours, `RotationsApart`: no rotation of
a secret is stored while a `rotate_mek` is under way. With it what `rotate_mek` has
read stays current (`ReadIsCurrent`), and `SecretKeepsItsDek` holds: no other
interleaving, failure or restart breaks it.

`OnceSpec` rests on `ClaimsAlone`: of a secret marked viewed, at most one process
is between marking and answering, and the value was not sent before. The
conditional UPDATE gives it, and every step is a step of `ShownOnce` or a
stutter.

`OneExecutor` follows from `SoleInv`: the right to execute a job is one thing, which
a request about to publish, a message in the broker or a worker holds, and no two
of them at once. Every step without a redelivery passes it on or gives it up, and
`retry_job` makes a new row with a right of its own instead of a second one.

`OnlyRecoveryForgets` needs `FlushedIsSafe`, that a call of `add_event` that waits for its
flush has been past the write to Redis, and for the critical events `AddedInv`: the
recovery deletes a key only for an event it has added, a critical event is never
dropped, and what was added stays in a buffer, in a batch or with the processors until
the process ends (from the refinement). The typing theorem needs `Owned`, that a batch
flushed at once has the call that waits for it.

`BackpressureBounds` is inductive together with `KnownInv`, that only known keys have
anything in their buffers. A key that becomes known adds to the capacity, a flush takes
places away, and an event that is added was not dropped, which for one that could be
dropped means that fewer places than the threshold were taken before it.

`DeliverySpec` rests on `OnceInv`: on each route an entry has one place, in one buffer
or one batch and at one index (`HeldOnce`); what was handed over by a route is not
held on it; and whatever is held or handed over has been `Seen`, so that the
entry a source or the recovery adds next is a new one. A step then has one of four shapes:
what is held stays (a batch is cut from a buffer: `HeldStays`), an entry is taken in
(`HeldTaken`), a batch is handed over (`HeldHanded`), or the process ends
(`RestartOnce`). `BatchesAreNew` is what `OnceInv` says of overlapping flushes, in
terms of the buffers. `AcceptedIsCarried` follows from the refinement: only `Forget` loses
anything, and a call of `add_event` has taken its event in before its first await.

`NothingPassedOver` says something about `lastUpdate` that is prepared while
an update runs (`FeedInv`): each collection that had its turn accounts for everything up
to the update's start (`TurnInv`), the one being read for everything before its next
request (`RequestInv`), and what is before a cursor was dealt with (`CursorInv`). An
object that appears below a time already taken is `late` at once, so no relation
between the two clocks is needed.

`QuorumInv` says that every copy of the row a replica holds is backed by as many
different supporters as it counts approvals (`Backed`), so that adding one who is not
in its history backs the next count, whatever the row holds by then. For the other
two, `FreshInv` says that a replica that is not stale has seen the row as it is, and
pending: without an overlap every write is as good as an atomic one.

`DiffIsGrounded` rests on what a worker remembers of the rows (`WorkInv`): what it took off
its list is stored while its scan has a row (`Saved`), and it compares with another
scan of the target (`Based`). Rows of a scan go only with its target, together with
every difference that names them (`RowInv`). `CompletedWhole` is `Saved` at the last
step. `OncePerDelivery` counts: rows of an
entry, messages, the request before its publication and the workers that have the insert
still before them are tokens (`TokenInv`), a step moves one or drops one, and only a
redelivery makes one. `NoScanLost` is the counterpart of `NoOrphan`: an active scan has
somebody left who will end it, or is in `dropped`. It needs that a scan has its row as long
as its target (`Standing`), because only then is an insert not refused, and a rejected
message not that of an active scan.

## What is only model-checked

`JobsSettle`, `ExpiredIsRevoked`, `SecuredIsHanded`, `PublishedIsStored` and
`ScansSettle`, and the violation of `RevocationGoesOn`: liveness under fairness is
beyond the proof system (as are ENABLED and induction over data), so these hold
for the instances above. The invariants named in the plan are what is proved of them:
that somebody is left to take the next step, not that it is taken.

## Not modelled

* Of the worker-scanner, `recalculate_next_runs` (nothing calls it), the settings of
  the extra ports, and the handlers that only read or that create and change targets.
  The scanners are seen as success, failure or an exception.
* Of IceBox, `update_secret` (no column it writes matters to a property), owners,
  policies, the audit log, cloud integrations and the reading of values, and the
  development fallback to a fixed master key.
* Of the event buffer, `clear_buffers` and `force_flush` (nothing calls them), and
  statistics. The module `models`, which
  defines events and severities, is not in the repository and is external here.
* Of the threat feeds, the saving of the last update (it always fails), TAXII 1.x and plain HTTP feeds (no cursor and no
  pages: every update reads everything), feeds that are added and removed, rate
  limits and health checks, which only delay an update, and the parsing of objects.
* The sync worker acknowledges a message whatever happened, on purpose; and the
  messages the API publishes carry no `encrypted_value`, so that as wired every push
  fails. There is no promise to check. The log receiver is one loop without state
  between batches; a batch that failed is left pending and never read again.
* The edr-agent calls `Start` of none of its collectors, and its only channel has no
  writer. The manager's side of S3 scan jobs is not wired to the worker's.
* The PKI server and the SSH CA keep certificates by library calls in files of each
  process (their images and ports do not match their code, and each replica makes a CA
  of its own). The Darwin workers repeat the life cycle of `ScanJobs` on a database of
  their own.
* Collectors, classifiers, anomaly detection, alert review and research are formats
  and calls of other services; consoles, gateways and superseded services keep no
  concurrent state.
