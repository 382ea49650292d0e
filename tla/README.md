# A verification of PostHog-LLM-Lite's ingestion core

TLA+ models of the protocols inside PostHog-LLM-Lite (a fork of PostHog 1.31): what
happens between the moment an event is captured and the moment it is stored with
the right person and properties, and the background machinery around it. TLC
checks each model on small instances, TLAPS proves the theorems for every value of
the constants. Every definition of a model is translated from the source; `PROJECT.json`
names the lines (`map`), the runs, a mutant of the code that breaks each property,
the findings, the hazards and the theorems.

## The system

    capture API (Django) --LPUSH--> Redis list --BRPOP--> CeleryQueue / Broker (plugin-server main thread)
        --> ingestEvent --piscina--> worker threads: processEvent plugins, then EventsProcessor.processEvent
              --> Postgres (persons, distinct ids, groups, events, elements)
    schedule / job queue consumer (one server at a time, Redlock) --> plugin tasks in the workers
    Celery workers (Django): async migrations, cohorts, insight caches, person splits

Kafka and ClickHouse exist in the code and are switched off in this distribution.

| Part | State | Operations | What is hard about it |
|---|---|---|---|
| Person identity (`process-event.ts`, `db.ts`, `person-manager.ts`) | persons, `is_identified`, distinct ids (Postgres); `personSeen` per worker; a transaction and its row locks per task | `$identify`, `$create_alias`, merge, create, set is_identified | statements of many tasks interleave; stale copies; deadlocks; nested retries; bounded connection pool; killed workers |
| Person properties (`properties-updater.ts`, `process-event.ts`) | properties, `properties_last_updated_at`, `properties_last_operation` | `$set`, `$set_once`, create with properties | events out of order; concurrent updates; creation racing with updates |
| Groups (`group-type-manager.ts`, `properties-updater.ts`) | group types with an index below 5, groups; cache per worker | index of a group type, upsert of a group | index from a stale count; two inserts of the same group |
| Celery queue and broker (`broker.ts`, `celery-queue.ts`, `queue.ts`) | channels (receive loops), `paused`, `closing`, active tasks | subscribe, receive, pause, resume, disconnect, stop | pause and resume around a blocked BRPOP; an error ends a loop; shutdown |
| Redlock and schedule (`redlock.ts`, `schedule.ts`) | the lock in Redis with its expiry; per server: has the lock, timers, running tasks | acquire, extend, expire, release, run | several servers; expiry while the owner goes on; a stop in any phase |
| Job queues (`job-queue-base.ts`, `job-queue-manager.ts`, `graphile-queue.ts`, `s3-queue.ts`, `job-queue-consumer.ts`) | `started`, `paused`, `timeout`, `runner`, `consumerPool`; the stored jobs | enqueue with fail-over, start, stop, pause, resume, poll | calls that overlap across an await; jobs lost by a crash |
| Plugin VMs (`setup.ts`, `lazy.ts`, `teardown.ts`) | configurations, VMs, retry timers, `pluginSchedule` | set up, initialise, retry, tear down, load the schedule | overlapping reloads; teardown during initialisation |
| Buffers (`postgres-logs-wrapper.ts`, `kafka-producer-wrapper.ts`, `team-manager.ts`) | entries not yet written | add, flush | entries added while a flush is awaited |
| Historical export (`export-historical-events.ts`) | cursors, batch id, running flag | export a batch, retry, restart | chained jobs, restarts racing with retries |
| Async migrations (Django) | status, current operation, Celery task id | start, run operations, stop, health check, roll back | a stop during an operation; worker crashes |
| Cohorts, insight caches (Django) | `is_calculating`, `refreshing`, attempt counters | calculate, refresh | crashes between setting and clearing a flag |

`PROJECT.json` lists every part with its status, and the hazards at their lines.

## Modules

| Module | What it is |
|---|---|
| `PersonStore` | Abstract specification: persons, their distinct ids and `is_identified`, changed by atomic Create, Attach, Merge, Identify |
| `PersonIdentity` | The code of alias, merge, identify and person creation, one SQL statement a step |
| `MCPersonIdentity` | Its instances: which events, which tables to start with |
| `PersonIdentityProofs` | Inductive invariant; type correctness, table consistency, locks; `PersonIdentity` implements `PersonStore`; distinct ids stay together; when the pool of clients is large enough |
| `PropertyUpdates` | `calculateUpdate`: what `$set` and `$set_once` do to properties and their metadata |
| `PersonProperties` | Concurrent events of one distinct id: creation and both ways of updating properties |
| `MCPersonProperties` | Its instances |
| `PersonPropertiesProofs` | The latest `$set` wins, else the earliest `$set_once`, for any number of events; what is stored in the end |
| `GroupStore` | Abstract specification: group types numbered one by one, groups changed by one event at a time |
| `Groups` | Group types numbered from stale caches, and concurrent upserts of groups |
| `MCGroups` | Its instances |
| `GroupsProofs` | Group types are numbered without gaps, columns are right, groups have their latest properties; `Groups` implements `GroupStore` |
| `CeleryBroker` | Receive loops over a Redis list: receive, pause, resume, disconnect |
| `EventPipeline` | The main thread over `CeleryBroker`: task handlers, worker pool, back-pressure, shutdown |
| `MCEventPipeline` | Its instances |
| `EventPipelineProofs` | Back-pressure ends, the queue goes on receiving, handlers wait for tasks that exist |
| `MigrationChain` | Abstract specification: operations reached in order, a migration after the one it depends on |
| `AsyncMigrations` | API requests, server starts and Celery workers over the table of async migrations |
| `MigrationEffects` | `AsyncMigrations` with a monitor: what the status of a migration tells of the effects in the database |
| `MCAsyncMigrations` | Its instances |
| `AsyncMigrationsProofs` | Operations in order; `AsyncMigrations` implements `MigrationChain`; the status tells the effects |
| `Redlock` | `startRedlock`: servers that get, extend, lose and release one lock in Redis |
| `ScheduledTasks` | `startSchedule` over `Redlock`: cron ticks, reloads, tasks, shutdown |
| `ScheduledTasksProofs` | Two servers run a task only when a lock was lost or released; nothing runs after a stop |
| `JobQueues` | Queues of plugin jobs and their consumers: fail-over, the Graphile runner, the polled S3 queue |
| `MCJobQueues` | Its instances |
| `JobQueuesProofs` | One runner, one turn that polls; no job leaves S3 before it has run |
| `PluginVMs` | The VMs of a plugin config: reload, lazy initialisation, retries, teardown, schedule |
| `PluginVMsProofs` | No VM is orphaned but in the cases named; attempts are bounded |

### PersonIdentity

A *task* is one `ingestEvent` call in a worker. Its program counter `pc[t]` names the SQL
statement it is about to run, and a step is that statement with the code up to the next
`await`: `FetchOld` and `FetchNew` are the two `fetchPerson` calls of `alias`,
`AddDistinctId` is the INSERT with its catch block, `InsertId`, `InsertPrev` and `CommitPerson`
are the transaction of `createPerson`, `UpdateTarget`, `MoveIds`, `DeleteSource` and `CommitMerge`
the transaction of `mergePeople`, `FetchIdentity` and `SetIdentified` are `setIsIdentified`,
`IsNewPerson`, `CountIds` and `InsertNew` are `createPersonIfDistinctIdIsNew`.
`old[t]` and `new[t]` are the copies of the two persons the task has fetched: stale at once, as in
the code. `attempts[t]` counts the `mergePeople` calls on the stack whose transaction Postgres
has aborted (their `catch` block has called `alias` again, and their client is still theirs);
`retried[t]` says that `alias` has called itself after a failed INSERT. `Return` unwinds both.

Of Postgres the model keeps what the code depends on: READ COMMITTED snapshots (each
statement sees committed rows), row locks until the end of the transaction, waiting, the unique key and the
deferred foreign keys of `posthog_persondistinctid`, detection of deadlocks, and a pool of
clients for each worker. The definitions for these are marked external.
Left out: properties (see `PersonProperties`), cohorts, Kafka messages, teams (one team),
and errors that come from outside (a lost connection).

What is checked, on the run `person_identity`:

* `TablesConsistent`: a distinct id refers to an existing person, no person is without a distinct id.
* `LocksMatchTransactions`: locks belong to running transactions, whatever way a
  transaction ends; the target of a merge stays alive and locked, the moved ids stay the source's until COMMIT.
* `NeverSplit`: distinct ids of one person are never separated (an action property).
* `ImplementsStore`: the detailed specification implements `PersonStore` (same variables, so the
  refinement mapping is the identity: committed rows).
* `EveryTaskEnds`: every task ends, through deadlocks, retries and waiting.
* `EveryEventGetsAPerson`: the distinct id of a handled event has a person in the end,
  though `isNewPerson` may only have relied on another task.

Bounds: three tasks on two workers, three distinct ids and a generic one, four persons, a pool of four clients,
three merge attempts (the code's number). Each scenario is started from tables without persons, with two
and with three. Three tasks are enough for two transactions to wait for each other while a third changes what they will find
when they go on, and for a ring of merges; the scenarios (`RingOfMerges`, `Crossing`,
`SameSource`, `PlainEvents`) were chosen so that each branch of each action is taken. One of the two workers may be killed at any statement.

Fairness: `WF_vars(TaskStep(t))` for each task. The event loop resumes a task when its query has
returned, and Postgres lets a waiting statement go on when the lock is released and
aborts one transaction of a deadlock. Crashes have no fairness.

Two runs show where the code does not do what its comments say:

* `identify_race` (`IdentifySparesIdentified`): "for $identify, we'll not merge a user who's already identified
  into anyone else" (`process-event.ts:360`). The flag is tested on the copy fetched before; another `$identify` may set it before
  the merge, which also resets it.
* `merge_pool` (`EveryTaskEnds` with a pool of 2 instead of 10 clients): the retry of a merge waits for a second
  client while it holds the client of its dead transaction. With as many such tasks as the pool has clients
  they wait for each other forever. The size is scaled down with the number of tasks (2 for each worker). The theorem `PoolLasts` says how many tasks a worker may run at a time so that they never all wait:
  `n * (MaxMergeAttempts - 1) < PoolSize`. With the 3 attempts and the 10 clients of the code (`utils.ts:462`) that is four, while `TASKS_PER_WORKER` is 10 by default (`config.ts:51`).

### PropertyUpdates and PersonProperties

A property is modelled by the event that wrote its value, the operation and the time in
its metadata. `CalculateUpdate` is `calculateUpdate`, key by key.
`PersonProperties` has the events of one distinct id on one worker. Each passes `IsNewPerson`, `CountIds`, `CreatePerson`
as `capture` does, and then updates the person: with `FetchForUpdate` and `UpdateUnderLock` (one transaction, `SELECT ... FOR UPDATE`) when the team is one
of `NEW_PERSON_PROPERTIES_UPDATE_ENABLED_TEAMS`, else with `Fetch` and `Update` (the deprecated, unlocked way). `creator` is the event that created the person, `before` (a history variable) the properties
the person had before any event.

* `PropertiesResolved` (teams with the lock): the value of a property is that of the latest `$set`, else the one from `before` if there was one, else that of the earliest
  `$set_once`, whatever the order of events and however they overlap. The time that counts
  is the event's timestamp, except for the one event that created the person: `createPerson` writes `sent_at` (`TimeOf`).
* `ReadIsCurrent`: what an update has read is what it overwrites, and the row lock is never left behind.
* `EveryEventHandled`: no event waits for the row forever (fairness as above).
* `event_lost` (`PersonAlwaysFound`) shows a defect: `personSeen` is set before the person exists, so a second event of a new user on the same
  worker may find no person, throw and be dropped before it is stored.

Bounds: three events on one key (keys do not influence each other in `CalculateUpdate`), each a `$set`, a `$set_once` or both,
all weak orders of timestamps, `sent_at` the earliest or the latest time, a person that exists or not, seen or not. Three events are the fewest in which an update can lose
against one event and win against another.

### Groups

The group types of one team and its groups. Each event looks up its group types one after another (`addGroupProperties`, and last the `$group_type` of a `$groupidentify` event) and then upserts
its group. `groupTypes` is the table `posthog_grouptypemapping`, `cache[w]` the worker's `groupTypesCache`; `MissCache` also stands for a cache older than 30 seconds, and `QueryTypes` and
`CacheTypes` are apart because the answer may be old when it is cached, after another task has dropped the cache. A new type gets `NextIndex`, the size of the map the task happens to have. `insertGroupType` is one
statement whose `SELECT` sees the rows from before it and whose `INSERT` those of now: `SelectType` or `SelectNothing`, then `InsertType` or `InsertConflicts` (the recursive call with the
next index). `upsertGroup` is `FetchGroup` (`FOR UPDATE`, which locks nothing when there is no row), then `UpdateGroup`, or `InsertGroup`, or `RetryUpsert` (`RaceConditionError`); a group without a row has version 0. INSERT and
COMMIT are one step, because a parallel insert of the same key waits for the COMMIT and a parallel `SELECT` does not see the row before it.

* `ImplementsStore`: the refinement of `GroupStore` (same variables). A new type gets the index after those in use (`Register`), although it was proposed from an old count; an event
  changes its group from what the event before it has left, with the next version, and at most once (`Upsert`), although it may have been retried.
  `TypesNumbered` (the indexes in use are 0, 1, 2, ...) and `VersionsNotReused` (a version, which ClickHouse is sent with the properties, never names two states of a group) are proved besides.
* `ColumnsAgree`: an event gets the column of its type, and a refusal means that all indexes are in use. The code does refuse a type that has an index in one
  case: two tasks insert the same new type when one index is left; the loser's `SELECT` does not see the winner's row, the next index is over the limit, and the loser's
  event goes without its group. The property says that this happens to the last index only.
* `GroupsResolved`: each property of a group has the value with the latest timestamp, the first handled of several (the event's timestamp is stored from the start, other than for persons).
* `EveryEventStored`: the retries end and no event waits for a group's row forever (fairness as above).

Bounds: two tasks of one worker and one of another, which is enough for a cache that is stale through a task of the same or the other worker. `MaxGroupTypes` is 2 instead of 5, with three types, so that the limit is reached; events with
one or two types; `$groupidentify` events of the same and different groups, with and without properties, all weak orders of their timestamps on two values. A killed worker is not modelled: its open transaction leaves nothing and its cache is gone.

### CeleryBroker and EventPipeline

The main thread of a plugin server is one Node.js thread: the code between two awaits is one step. `loop[l]` says what the receive loop behind promise `l`
is doing: it waits for its next tick (`Tick` is the head of `receiveOneOnNextTick`), or for BRPOP (`ReceiveNothing`, `ReceiveFails`, or `Receive`, which also runs the
callback up to its first await); it has resolved its promise ("off"), or an error has ended it with the promise pending ("dead"). `channels`, `paused` and `closing`
are the fields of `Broker`; `awaited` is what the `Promise.all` of `disconnect` waits for.
`stage[m]` is the handler of a message: `process` (processEvent of the plugins), `deliver` (ingestEvent and onEvent, of which a
failing one ends the handler while the other still runs), `react` (onAction), `enqueue` (a plugin job). The handlers that are not done are `activeTasks`.
`running` and `waiting` are the tasks of the worker pool. Piscina is external: `Submit` hands a task to a free slot or lets it wait, and the start of the last waiting task emits "drain", which
resumes the queue within the same step. `Stop`, `TasksFinished`, `BrokerDisconnected`, `Exit` are `queue.stop()` and the rest of `closeJobs`; `Abort` is a second signal.

What is checked, on the run `event_pipeline`:

* `PausedUntilDrain`: a paused queue always has tasks waiting behind running ones, so that a drain event will resume it.
* `ReceivesUnlessPaused`: pauses and resumes around a BRPOP never stop the last loop.
* `HandlersHaveTasks`: a pending handler has a task in the pool, so that `stop` does not wait for nothing.
* `EveryMessageHandled`, `StopEnds`: as long as no bad message and no failing BRPOP has ended a loop, messages are handled, those that waited in the list while the queue was paused too, and a shutdown ends.

Bounds: four messages, one slot and a threshold of one, as with `WORKER_CONCURRENCY` and `TASKS_PER_WORKER` 1. Three messages are the fewest that bring the pool's queue above the threshold, so that
the fourth is still in the list when the queue has paused, and is received only if it resumes (the mutant of `EveryMessageHandled` loses the resume). The loads are two events before two jobs, snapshots between jobs, and a bad message between two events and a job;
BRPOP may fail for one loop (`Fragile`). The first two messages cannot pause the queue, each later one can, and so can the end of each processEvent; every resume starts one loop, so five loops are enough (the assumption `LoopsSuffice` computes it); identifiers of ended loops are used again. The onAction calls of an event are one task,
as only their number is lost; the 50 ms of `receiveSlow` and the five seconds of BRPOP may be any time. A crash of the process is the end of a behaviour: only the list survives it.

Fairness: each loop goes on (BRPOP returns in the end), some task of the pool ends as long as one runs, and the shutdown goes on once called. Nobody has to push messages or stop the server.

One run shows a disagreement:

* `stop_loses` (`ExitLosesNothing`): `stop` waits for the tasks of the moment while the loops go on receiving; later ones are not waited for.

### MigrationChain and AsyncMigrations

A process is a Celery worker, or one request or server start (`Requests`; a crash is also one, so that its number is bounded). `pc[p]` names the query, operation or message it is about to
send. `row[m]` is the row of migration `m` (status, `current_operation_index`, `celery_task_id`); `applied[m]` the operations whose effect is in the database. `copy[p]` is the Django instance a process holds, as far as it is used later:
the API's `trigger` saves the whole stale instance (`Fetch`, `SaveStarting`), and so does the start of a server, for each migration in turn (`StartServer`, `SetupFetch`, `SetupSave` are `setup_async_migrations`, `known[p]` the `applied_migrations` it has read first; `EndSetup` is
`kickstart_migration_if_possible`, with `AUTO_START_ASYNC_MIGRATIONS`); everything else writes single fields under `SELECT ... FOR UPDATE` (`UpdateRow`). `Begin` is a view up to its first write; `Revoke`, `ProcessError`, `BeginRollback`, `Undo`, `RolledBack`, `ForcedFails` are `force_stop_migration` and `attempt_migration_rollback`; `Lookup`, `Delay`,
`NoTrigger`, `RecordTask` are `run_next_migration` and `trigger_migration`; `Take`, `CheckStart`, `CheckDependency`, `MarkRunning`, `NextOp`, `Execute`, `Bump`, `CompleteMigration` are the task. Celery is external: any free worker takes any queued task, `Terminate` kills a worker whose
task has been revoked. The chain of dependencies is linear, which `setup.py` enforces.

`ALL_ASYNC_MIGRATIONS` is empty in this fork (`setup.py:11`): the machinery is there and dormant, and the migrations of the model are whichever will be put in it.

`check_async_migration_health` is not an action because it has no effect: it waits for the task state STARTED, which Celery reports only with `track_started`, and otherwise returns. So `run_async_migration` never resumes a migration, and
a migration whose worker crashed stays Running. Likewise `mark_async_migration_as_running` erases `celery_task_id`, the id of the very task that runs it: a force stop then revokes nothing, and goes on to roll back while the worker runs
the next operation. Both are hazards in `PROJECT.json`, and both are why the properties below say what they exempt.

* `OperationsInOrder`: the index never passes an operation that has not been executed, though two workers may run one migration and stale instances are saved.
* `ImplementsChain`: the refinement of `MigrationChain`; `reached` maps to the number of operations ever executed.
* `StatusTellsEffects`: completed means every effect is there, rolled back that none is (but for operations that need no rollback), unless
  two processes have worked on the migration at once, one was killed, a rollback failed, the migration was begun again over its own effects, or a server start has written an old status or index over the row (`setup.py:46`; after a forced rollback this may say completed again): `spoiled`, a monitor of `MigrationEffects`.
  The exemption of repeated runs is needed because `trigger` starts a migration that is already completed; when this run fails or is stopped, `attempt_migration_rollback` goes back
  from the new index only (`runner.py:170`), and the row says rolled back while effects of the first run are left.
* `RunsEnd`: no task stays queued for ever, and no migration stays Running for ever, whatever other requests and workers write to its row; unless it is `stranded`: its process was killed while it was Running (a crash, or a stop whose revoke
  arrives when the task has already marked the migration), or a server start has written an old Running over its end. Nothing resumes or ends such a migration, as said above.

Bounds: two migrations, of which the first is not required (so that the second may be reached after a completion without operations) and the second has an operation that needs no rollback before one that does; two workers, at most three tasks, and four scenarios of up to three requests in any order, each of which may also not come: an automatic
start, a start of another server and a stop; a trigger, a rollback and a start; two triggers; a trigger, a crash and a stop. Two workers on one migration are enough for each of the races above, and the starts find the row in every phase of a run and of a rollback.
An automatic start with a trigger and a stop has several million states and is left out; what it adds, a task terminated after it marked the migration, happens to the one task of the last scenario as well. Fairness: a process that is not killed goes on; a request need not come.

### Redlock and ScheduledTasks

`key` is the server whose value is in Redis. `token[s]` says which places carry the current value: the variable `lock` of server `s`, the unlock command it has sent; a value that has expired is in nobody's token, so that a late
`unlock` or `extend` does nothing. `stage[s]` is the timer or command of `tryToGetTheLock` and `extendLock`, `stop[s]` how far the stop is. `Grant` and `GotLock` are apart because the
answer takes time: a stop may come between. `Faulty` servers may be cut off Redis, or be late, so that their key expires. `has`, `running`, `awaited`, `schedule`, `ticking` are `weHaveTheLock`, `pluginSchedulePromises`, what
`waitForTasksToFinish` awaits, `pluginSchedulePromise`, and a tick that awaits it.

* `OneServerUnlessLost`: two servers run the same task only if one has lost its lock unnoticed (`extendLock` does not call `onUnlock` when it fails) or is stopping (the lock is released before the tasks are awaited). `plugin-server/README.md:114` says
  tasks "run on only one plugin server instance in the entire cluster"; these two cases are where they may not.
* `StoppedIsQuiet`: when `stopSchedule` has returned nothing runs, unless a tick that had passed its conditions was waiting for the schedule (`caught`).
* `TakesOver`: a server that stays gets the lock when the others were stopped or killed at any point of their protocol.
* `StopScheduleEnds`: a stop ends, or rejects with a task it waits for.

Bounds: two servers, of which one is faulty; both may be stopped or killed; two tasks, so that one may end while another runs; one reload. Which tasks are due is left open. Fairness: Redis answers, an abandoned key expires, tasks and loads end.
The key of a server that is neither faulty nor dead does not expire: it is extended at half its time to live.

### JobQueues

A server gets the lock of the job queue consumer (`StartConsumer`), is paused by `onJob` when the worker pool is full (`OnJob`), resumed by its drain (`ResumeConsumer`), and stopped (`StopConsumer`). These calls do not wait for each other; each ends in `syncState`
of every queue (`SyncGraphile`, `SyncS3`), up to its first await. A *turn* is what one start or resume sets going. `stage[s][n]` follows turn `n` of the GraphileQueue through creating the pool, starting the runner and stopping it (`PoolCreated`, `RunStarted`, `RunFails`,
`Halted`); `loop[s][n]` follows the one of the S3Queue through its timer, the listing, and GET, run, DELETE of each object (`TimerFires`, `ListObjects`, `GetObject`, `RunJob`, `DeleteObject`, `ReadFails`). `timeout[s]` is `this.timeout`, which only the last timer is in.
Several servers may consume at once, as `ScheduledTasks` shows that a lock allows.

* `RunnerAtRest`: when no call is under way there is one runner, on an open pool, exactly when the consumer is started and not paused; unless calls have overlapped (`overlapped`) or failed (`cut`).
  The exemption is needed: `syncState` reads `consumerPool` again after it has awaited the stop of the old runner (`graphile-queue.ts:93`), and ends the new pool when a resume has come meanwhile; a start that fails is not repeated, because `started` stays true.
* `OneTurnPolls`: the S3Queue polls in one turn exactly when it should; unless it was resumed while an earlier turn was reading (`rejoined`). Then two turns delete each other's objects; each ends when it fails to get one, and no timer is left.
* `RanBeforeDeleted`: S3 keeps a job until it has run, so that jobs of an `S3Queue` run at least once, through turns that delete each other's objects, pauses within a turn, failing calls and servers that die. It says nothing of Graphile,
  which counts a job as done before it has run (`graphile-queue.ts:83`).
* `JobsTaken`: all jobs are taken once a server goes on consuming, with the same exemptions.

Bounds: two jobs, two servers with either kind of queue and one with both, one pause (so two turns), one server whose calls may fail. One pause is enough for a turn that is overtaken by the next. Fairness: calls are answered, timers fire, jobs end.

### PluginVMs

One plugin config in one worker thread. A save in Django changes `updated_at` and `enabled`, and `post_save` publishes a reload: after the save (`Save`, `Publish`), or inside a transaction that ends later (`SaveInTransaction`, `EndTransaction`; `Organization.objects.bootstrap`, the Django admin), so that
a reload may read the row before the commit. A message may also be lost: a worker reads the configs when it is created (`worker.ts:20`), but the server subscribes only at the end of its start (`pluginsServer.ts:167`). `disablePlugin` is not awaited (`GiveUp` starts it, `Disable` is its UPDATE, which waits for a transaction). A reload (`StartReload`, `SetUp`, `FinishReload`) is `setupPlugins`: it reads the rows, makes a VM for a config that has changed and tears
down the one before, awaits `loadPlugin`, assigns the maps and calls `loadSchedule`. `vm[v]` is what a `LazyPluginVM` is at: not yet initialised, in `initializeVm`, waiting for a retry, loaded, given up, torn down. A promise that is resolved
(`Resolve`) resumes those who await it in the same step: `teardownPlugins` (`tearing`) and `loadSchedule` (`waits`).

* `NoOrphans`: a VM that runs or will run is the one of the current config, of a reload under way, or about to be torn down. Three exemptions, each a way the code can leave one: overlapping reloads; a teardown during an attempt that fails, whose retry is scheduled
  after `clearRetryTimeoutIfExists` (it may later run `disablePlugin` on the new config); a config that was disabled, whose VM nobody tears down.
* `ConfigSettles`: in the end the worker has the saved config (unless no reload has been waiting to read it since it was committed: `missed`, for a message that was lost, or that came before the commit and was read before it; such a worker keeps the old config until the next reload), its VM is loaded or given up, and its tasks are in the schedule if it was loaded at the first attempt (`loadSchedule` does not wait for retries).

Bounds: three reloads, the one of the start included, of which the last belongs to a save in a transaction, and two attempts instead of ten (`MAX_SETUP_RETRIES`): the last attempt that is retried and the one that is not. Fairness: awaited calls end, timers fire; nobody has to save, publish or commit, and the UPDATE nobody awaits may never come.

## What is proved

All theorems hold for every value of the constants that satisfies the named assumptions (`ConstantsOK`, `EventsOK`, `GroupsOK`, `BrokerConstants`, `PipelineConstants`, `MigrationConstants`, `RedlockConstants`, `JobQueueConstants`, `PluginVMConstants`): any number of tasks,
workers, distinct ids, persons, events, keys, migrations, operations and servers.

* `PersonIdentityProofs!InductiveInvariant`. `TablesConsistent` is not inductive: that a merge leaves no distinct id behind depends on the
  locks its transaction holds, those on the statement it is at, and that an aborted transaction holds none. The invariant therefore
  joins the types, the consistency of the tables, `LocksMatchTransactions` and what a task's counters allow at each statement. From it
  `TypeCorrect`, `AlwaysConsistent`, `LocksAlwaysMatch`.
* `PersonIdentityProofs!Refinement`: every step is a step of `PersonStore` or leaves its variables alone. The merge step is
  where the locks are needed: all rows of the source are held by the transaction, and none has been added since
  because of the foreign key. `NeverSplitHolds` follows from the abstract steps.
* `PersonIdentityProofs!PoolLasts`, `PoolSuffices`: as long as a worker runs `n` tasks with `n * (MaxMergeAttempts - 1) < PoolSize`, some task that runs has the client it needs or can get one; with `n * MaxMergeAttempts <= PoolSize` nobody waits for a client at all. The
  invariant `RetriesInAlias` bounds the clients a task holds by the retries it is in. They assume finitely many tasks; other users of the pool are not in the model.
* `PersonPropertiesProofs!OrderDoesNotMatter`: one key at a time, the winner among the events applied so far and a new event give the winner
  among all; the row lock (`ReadStaysCurrent`) makes the properties the update was computed from the current ones. `Determined`: for a person that existed before its
  events, once all are handled, the properties are `Final`, which is computed from the events and from the properties there were before, and from nothing that the schedule decides; up to the value where timestamps tie. For a new person it fails, because the event that creates it counts with
  its `sent_at`. The invariant adds that the creator is done (`Creation`), that no event has written a property while there is no person (`Unborn`), and that no event fails to find a person that was there (`Found`).

* `EventPipelineProofs!BackPressure`, `KeepsReceiving`, `HandlersProgress`, for any number of messages, loops and slots and any threshold. The first needs
  `WaitBehindOthers` (tasks wait only behind running ones), which follows from how `Submit` fills the slots; the others are inductive given the types.

* `GroupsProofs!Invariance`, for any number of group types and any limit. `TypesNumbered` is not inductive: that the free index a task inserts is the next one follows from what the task knew
  when it proposed it. `Earlier` says that every cached or queried map is a past state of the table, numbered without gaps, of which nothing has changed since; `Proposed` that all indexes below the one a task
  tries are taken, and that a type invisible to its statement has not got one of them meanwhile. `LocksHeld` makes what an update has read the current group. From it `GroupTypesNumbered`,
  `ColumnsCorrect`, `GroupsCorrect`, `VersionsUnique`.
* `GroupsProofs!Refinement`: every step is a step of `GroupStore` or leaves its variables alone. `InsertType` is where `Proposed` is needed, `UpdateGroup` and `InsertGroup` are where `LocksHeld` is.
  The lemmas about `calculateUpdate` that the proofs about persons and groups need are in both modules.

* `AsyncMigrationsProofs!InOrder`, `ImplementsChainHolds`, for any chain of migrations, any number of workers and requests. `OperationsInOrder` is not inductive: that a worker may bump the index depends on what it has executed since it read it. `Reached`
  says what each process knows at each step (its operation has been executed, all have, the dependency has been completed), that the operations executed are a prefix, and that nothing of this is ever lost, because `ran` and `completed` only grow. With it each step is one of
  `MigrationChain` or changes neither of its variables; the cardinality of a prefix is its length (`PrefixSize`).
* `AsyncMigrationsProofs!StatusTells`: `StatusTellsEffects` for any chain. The invariant `EffectsTold` says what the row tells at any time
  (no effect that has to be removed lies beyond its index) and what the stage of the one process at work adds: all operations below the index have been executed while it runs them, the one at the index before it is bumped,
  and none is left at or above the point a rollback has come to.
* `JobQueuesProofs!OneRunner`, `OneTurn`, `AtLeastOnce`, for any number of servers, jobs and pauses. `RunnerAtRest` needs to know what each call under way is about to do (`RunnersKept`): that without overlaps the pool a turn has created is
  the current one, and that the call that ends it belongs to the pause. `OneTurnPolls` needs that the turn whose timer is in `timeout` is the one that polls (`TurnsPoll`), `RanBeforeDeleted` that a turn deletes only the object whose job it has run (`ObjectsHandled`).
  The types are inductive with what fits each call's stage (`Fits`) and with the deployment (`Configured`).
* `ScheduledTasksProofs!MutualExclusion`, `QuietAfterStop`, for any number of servers and tasks. The invariant adds that only the server in Redis has a token (`TokensMatch`), that a server that thinks it has the lock has it unless its key has
  expired (`OwnersKnown`), and that a server with running tasks has the lock or is stopping and awaits them (`TasksCovered`).
* `PluginVMsProofs!NothingOrphaned`, for any number of reloads and attempts. `NoOrphans` is not inductive: that the VM a reload is about to forget has been torn down depends on what it did before it awaited `loadPlugin`. `PreviousTorn` says so, and
  `OneReload` that no other reload can have changed the maps meanwhile; a VM once disposed of stays so through all its steps (`VMStepKeeps`). `RetryLeft` makes the types inductive: a retry is waited for only while attempts are left.

Only model-checked: the liveness properties (`EveryTaskEnds`, `EveryEventGetsAPerson`, `EveryEventHandled`, `EveryMessageHandled`, `StopEnds`, `EveryEventStored`, `RunsEnd`, `TakesOver`, `StopScheduleEnds`, `JobsTaken`, `ConfigSettles`), because TLAPS does not
reason about fairness and ENABLED; and the findings, which are counterexamples. Every invariant, action property and refinement of a passing run is a theorem.

## Plan

Done, in this order: `PersonStore` and `PersonIdentity`; `PropertyUpdates` and `PersonProperties`; `CeleryBroker` and `EventPipeline`; `Groups`; `MigrationChain` and `AsyncMigrations`; `Redlock` and `ScheduledTasks`; `PluginVMs`; `JobQueues`. All with proofs.

Left, in the order of what they would add:

1. Proofs: `EventPipeline` hands every message to one handler at most; what the liveness properties rest on (some step is possible as long as a task, a run or a stop has not ended).
2. `JobQueues` composed with `Redlock`, and an abstract specification of what a job queue promises.
3. `LogBuffer`: log entries added while a flush is awaited.
4. The action cache: reloads and deletions of one action that answer in another order.
5. `HistoricalExport`: batches chained by jobs, cursors, a restart that races with a retry.
6. Cohorts and insight caches: flags that a crash between two writes leaves set.

## Not modelled

* The frontend, the REST API and query builders: no protocol of their own. Kafka and ClickHouse: switched off in this distribution.
* The VM sandbox and code transforms (`vm.ts`, `transforms/`), the running of plugin methods (`run.ts`), matching of actions and formatting of webhooks: functions of one call.
* `splitPerson` (a Django operation, the one deliberate exception to `NeverSplit`); the capture API, which pushes one message for each event.
* Of modelled parts: `connectProducer` and `disconnectProducer` of job queues, the test-only `FsQueue`, the teardown of all VMs at shutdown, the progress and error texts of migrations, `check_async_migration_health` and the resumption of
  migrations (without effect, see above), the properties of persons in merges, publishing to Celery.

## Running

    tlc -workers 2 -config person_identity.cfg MCPersonIdentity
    tlapm PersonIdentityProofs.tla

`PROJECT.json` lists the twelve runs: eight that pass (`person_identity`, `person_properties`, `event_pipeline`, `groups`, `async_migrations`, `schedule`, `job_queues`, `plugin_vms`) and four that end in a counterexample (`identify_race`, `merge_pool`, `event_lost`, `stop_loses`).
