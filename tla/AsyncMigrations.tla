--------------------------- MODULE AsyncMigrations ---------------------------
(***************************************************************************)
(* Django's async migrations: the API's requests (trigger, force_stop,     *)
(* force_rollback), the start of a server (setup_async_migrations), and    *)
(* the Celery workers that run the operations (runner.py, utils.py).       *)
(* Every step is one query, one operation or one message.  The row of a    *)
(* migration is written under SELECT ... FOR UPDATE, but for two saves of  *)
(* a whole instance read before, without a lock: the one of the API's      *)
(* trigger, and those of every migration when a server starts.  (The rows  *)
(* exist: an earlier start has created them.)                              *)
(*                                                                         *)
(* check_async_migration_health is not a step: it asks whether the task is *)
(* STARTED, which Celery never says of run_async_migration (no             *)
(* track_started), and returns.  So nothing resumes a migration either.    *)
(*                                                                         *)
(* External: Celery hands a queued task to any free worker, in any order   *)
(* (prefetch), and acknowledges it first; revoke with terminate=True       *)
(* kills the worker process some time later.  Operations run in autocommit.*)
(***************************************************************************)
EXTENDS Integers, Sequences, FiniteSets

CONSTANTS Operations,   \* per migration, its operations' rollbacks: "sql", "noop", "none"
          Required,     \* the migrations of which is_required() is true
          Workers,      \* Celery worker processes
          Requests,     \* requests and server starts, each happens at most once
          Scenarios,    \* what the requests may be
          MaxTasks,     \* bound on the tasks ever queued
          NoTask        \* celery_task_id = ""

\* Only the first migration has no dependency (setup.py raises otherwise).
Migrations == 1 .. Len(Operations)
Rollbacks == {"sql", "noop", "none"}
\* What comes from outside: requests, the start of a server, without and with
\* AUTO_START_ASYNC_MIGRATIONS, the crash of a process.
RequestKinds == {"trigger", "stop", "rollback", "start", "kickstart", "crash", "none"}

ASSUME MigrationConstants ==
    /\ Operations \in Seq(Seq(Rollbacks)) /\ Operations # <<>>
    /\ Required \subseteq Migrations
    /\ Workers \cap Requests = {}
    /\ Scenarios \subseteq [Requests -> RequestKinds]
    /\ MaxTasks \in Nat
    /\ NoTask \notin 1 .. MaxTasks

Length == [m \in Migrations |-> Len(Operations[m])]
OpsOf(m) == 0 .. Length[m] - 1

VARIABLES
    request,            \* what each request is
    row,                \* posthog_asyncmigration
    applied,            \* the operations of each migration whose effect is there
    queue, queued,      \* waiting tasks <<id, migration>>; the number ever queued
    revoked,            \* task ids
    pc, mig, copy, job, \* each process: next step, migration, its instance, its task
    known,              \* each server start: applied_migrations, as it has read them
    ran, completed      \* history: the operations ever executed, the migrations
                        \* ever completed

tables == <<row, applied>>
celery == <<queue, queued, revoked>>
locals == <<mig, copy, job>>
history == <<ran, completed>>
vars == <<request, tables, celery, pc, locals, known, history>>

Statuses == {"NotStarted", "Running", "CompletedSuccessfully", "Errored", "RolledBack",
             "Starting"}
Tasks == 1 .. MaxTasks
Procs == Workers \cup Requests
Stages == {"idle", "done", "check", "depend", "mark", "next", "exec", "bump", "complete",
           "lookup", "delay", "record", "error", "refresh", "undo", "failed",
           "fetch", "save", "revoke", "setup", "resave"}

NewRow == [status |-> "NotStarted", index |-> 0, task |-> NoTask]
Rows == [status : Statuses, index : Nat, task : Tasks \cup {NoTask}]

TypeOK ==
    /\ request \in [Requests -> RequestKinds]
    /\ row \in [Migrations -> Rows]
    /\ applied \in [Migrations -> SUBSET Nat]
    /\ queue \in SUBSET (Tasks \X Migrations)
    /\ queued \in 0 .. MaxTasks
    /\ revoked \in SUBSET Tasks
    /\ pc \in [Procs -> Stages]
    /\ mig \in [Procs -> Migrations]
    /\ copy \in [Procs -> Rows]
    /\ job \in [Procs -> Tasks \cup {NoTask}]
    /\ known \in [Requests -> SUBSET Migrations]
    /\ ran \in [Migrations -> SUBSET Nat]
    /\ completed \in SUBSET Migrations

Init ==
    /\ request \in Scenarios
    /\ row = [m \in Migrations |-> NewRow]
    /\ applied = [m \in Migrations |-> {}]
    /\ queue = {} /\ queued = 0 /\ revoked = {}
    /\ pc = [p \in Procs |-> "idle"]
    /\ mig = [p \in Procs |-> 1]
    /\ copy = [p \in Procs |-> NewRow]
    /\ job = [p \in Procs |-> NoTask]
    /\ known = [p \in Requests |-> {}]
    /\ ran = [m \in Migrations |-> {}]
    /\ completed = {}

-----------------------------------------------------------------------------
Running == {m \in Migrations : row[m].status = "Running"}
MaxConcurrent == 1          \* MAX_CONCURRENT_ASYNC_MIGRATIONS

Goto(p, s) == pc' = [pc EXCEPT ![p] = s]
Continue(p, s) == Goto(p, s) /\ UNCHANGED locals

\* The end of a task or a request, with its locals.
Ended(p) == IF p \in Workers THEN "idle" ELSE "done"
Forget(p) ==
    /\ mig' = [mig EXCEPT ![p] = 1]
    /\ copy' = [copy EXCEPT ![p] = NewRow]
    /\ job' = [job EXCEPT ![p] = NoTask]
Finish(p) == Goto(p, Ended(p)) /\ Forget(p)

\* The instance read from the database (get, refresh_from_db), as far as it is used.
Remember(p, r) == copy' = [copy EXCEPT ![p] = r]
RememberIndex(p, i) == Remember(p, [NewRow EXCEPT !.index = i])

\* update_async_migration: the given fields of the current row, under its lock.
UpdateRow(m, r) == row' = [row EXCEPT ![m] = r]

\* Mutant of DependencyFulfilled: only a migration that is at work is waited for.
DependencyIdle(m) == m > 1 => row[m - 1].status \notin {"Starting", "Running"}

\* is_migration_dependency_fulfilled.
DependencyFulfilled(m) == m > 1 => row[m - 1].status = "CompletedSuccessfully"

-----------------------------------------------------------------------------
(* Requests *)

\* AsyncMigrationsViewset.trigger: nothing may be running.
Trigger(p, m) ==
    /\ request[p] = "trigger"
    /\ Cardinality(Running) < MaxConcurrent
    /\ Goto(p, "fetch")
    /\ UNCHANGED copy

\* force_stop and force_rollback: the instance has the right status.
Stop(p, m) ==
    /\ request[p] = "stop"
    /\ row[m].status = "Running"
    /\ Remember(p, [NewRow EXCEPT !.task = row[m].task])
    /\ Goto(p, "revoke")

ForceRollback(p, m) ==
    /\ request[p] = "rollback"
    /\ row[m].status = "CompletedSuccessfully"
    /\ Goto(p, "refresh")
    /\ UNCHANGED copy

Begin(p) ==
    /\ pc[p] = "idle"
    /\ \E m \in Migrations :
          /\ mig' = [mig EXCEPT ![p] = m]
          /\ Trigger(p, m) \/ Stop(p, m) \/ ForceRollback(p, m)
    /\ UNCHANGED <<tables, celery, job, history>>

\* trigger: get_object,
Fetch(p) ==
    /\ pc[p] = "fetch"
    /\ Remember(p, row[mig[p]])
    /\ Goto(p, "save")
    /\ UNCHANGED <<tables, celery, mig, job, history>>

\* and save() of the whole instance.
SaveStarting(p) ==
    /\ pc[p] = "save"
    /\ UpdateRow(mig[p], [copy[p] EXCEPT !.status = "Starting"])
    /\ Continue(p, "delay")
    /\ UNCHANGED <<applied, celery, history>>

\* setup_async_migrations: the migrations that are completed now,
StartServer(p) ==
    /\ pc[p] = "idle"
    /\ request[p] \in {"start", "kickstart"}
    /\ known' = [known EXCEPT ![p] = {m \in Migrations : row[m].status = "CompletedSuccessfully"}]
    /\ Continue(p, "setup")
    /\ UNCHANGED <<tables, celery, history>>

\* then of each migration get_or_create,
SetupFetch(p) ==
    /\ pc[p] = "setup"
    /\ Remember(p, row[mig[p]])
    /\ Goto(p, "resave")
    /\ UNCHANGED <<tables, celery, mig, job, known, history>>

\* AUTO_START_ASYNC_MIGRATIONS, and kickstart_migration_if_possible: the first migration
\* that was not completed.
Kickstart(p, m) ==
    /\ request[p] = "kickstart"
    /\ m \notin known[p] /\ \A k \in 1 .. m - 1 : k \in known[p]

EndSetup(p) ==
    \/ /\ \A m \in Migrations : ~Kickstart(p, m)
       /\ Finish(p)
    \/ \E m \in Migrations :
          /\ Kickstart(p, m)
          /\ mig' = [mig EXCEPT ![p] = m]
          /\ Goto(p, "lookup")
          /\ UNCHANGED <<copy, job>>

\* and save() of the whole instance.  The start ends with an exception when the version
\* is too new for a migration that was not completed.
SetupSave(p) ==
    /\ pc[p] = "resave"
    /\ UpdateRow(mig[p], copy[p])
    /\ \/ /\ mig[p] + 1 \in Migrations
          /\ mig' = [mig EXCEPT ![p] = @ + 1]
          /\ Goto(p, "setup")
          /\ UNCHANGED <<copy, job, known>>
       \/ /\ \/ mig[p] \notin known[p] /\ Finish(p)
             \/ mig[p] + 1 \notin Migrations /\ EndSetup(p)
          /\ known' = [known EXCEPT ![p] = {}]
    /\ UNCHANGED <<applied, celery, history>>

\* force_stop_migration: revoke with the task id of the instance; the workers
\* discard the task if it has not begun.
Revoke(p) ==
    /\ pc[p] = "revoke"
    /\ revoked' = revoked \cup ({copy[p].task} \ {NoTask})
    /\ queue' = {t \in queue : t[1] \notin revoked'}
    /\ Continue(p, "error")
    /\ UNCHANGED <<tables, queued, history>>

\* run_next_migration: the instance,
Lookup(p) ==
    /\ pc[p] = "lookup"
    /\ Remember(p, [NewRow EXCEPT !.status = row[mig[p]].status])
    /\ Goto(p, "delay")
    /\ UNCHANGED <<tables, celery, mig, job, history>>

\* then its conditions; a trigger has none.
MayTrigger(p) ==
    \/ p \in Requests /\ request[p] = "trigger"
    \/ copy[p].status = "NotStarted" /\ DependencyFulfilled(mig[p])

\* trigger_migration: run_async_migration.delay,
Delay(p) ==
    /\ pc[p] = "delay"
    /\ MayTrigger(p)
    /\ queued < MaxTasks
    /\ queued' = queued + 1
    /\ queue' = queue \cup {<<queued', mig[p]>>}
    /\ Remember(p, [NewRow EXCEPT !.task = queued'])
    /\ Goto(p, "record")
    /\ UNCHANGED <<tables, revoked, mig, job, history>>

NoTrigger(p) ==
    /\ pc[p] = "delay"
    /\ ~MayTrigger(p)
    /\ Finish(p)
    /\ UNCHANGED <<tables, celery, history>>

\* and the id of the task, which may have begun.
RecordTask(p) ==
    /\ pc[p] = "record"
    /\ UpdateRow(mig[p], [row[mig[p]] EXCEPT !.task = copy[p].task])
    /\ Finish(p)
    /\ UNCHANGED <<applied, celery, history>>

-----------------------------------------------------------------------------
(* The task: start_async_migration and the operations *)

\* A task, and the instance.
Take(w) ==
    /\ pc[w] = "idle"
    /\ \E t \in queue :
          /\ queue' = queue \ {t}
          /\ mig' = [mig EXCEPT ![w] = t[2]]
          /\ job' = [job EXCEPT ![w] = t[1]]
          /\ Remember(w, [NewRow EXCEPT !.status = row[t[2]].status])
    /\ Goto(w, "check")
    /\ UNCHANGED <<tables, queued, revoked, history>>

\* Not over the limit, and the instance was not running.
MayStart(w) == Cardinality(Running) < MaxConcurrent /\ copy[w].status # "Running"

\* The conditions; then is_required, the service versions and the precheck.
CheckStart(w) ==
    /\ pc[w] = "check"
    /\ \/ ~MayStart(w) /\ Finish(w)
       \/ /\ MayStart(w)
          /\ \/ mig[w] \notin Required /\ Continue(w, "complete")
             \/ mig[w] \in Required /\ (Continue(w, "depend") \/ Continue(w, "error"))
    /\ UNCHANGED <<tables, celery, history>>

CheckDependency(w) ==
    /\ pc[w] = "depend"
    /\ Continue(w, IF DependencyFulfilled(mig[w]) THEN "mark" ELSE "error")
    /\ UNCHANGED <<tables, celery, history>>

MarkRunning(w) ==
    /\ pc[w] = "mark"
    /\ UpdateRow(mig[w], [status |-> "Running", index |-> 0, task |-> NoTask])
    /\ Continue(w, "next")
    /\ UNCHANGED <<applied, celery, history>>

\* run_async_migration_next_op: refresh_from_db, which looks at the index only.
NextOp(w) ==
    /\ pc[w] = "next"
    /\ RememberIndex(w, row[mig[w]].index)
    /\ Goto(w, IF row[mig[w]].index > Length[mig[w]] - 1 THEN "complete" ELSE "exec")
    /\ UNCHANGED <<tables, celery, mig, job, history>>

\* Mutant of Execute: an exception is not caught.
ExecuteUncaught(w) ==
    /\ pc[w] = "exec"
    /\ \/ Finish(w) /\ UNCHANGED <<applied, ran>>
       \/ /\ applied' = [applied EXCEPT ![mig[w]] = @ \cup {copy[w].index}]
          /\ ran' = [ran EXCEPT ![mig[w]] = @ \cup {copy[w].index}]
          /\ Continue(w, "bump")
    /\ UNCHANGED <<row, celery, completed>>

\* execute_op and side_effect: either may raise.
Execute(w) ==
    /\ pc[w] = "exec"
    /\ \/ /\ Continue(w, "error")
          /\ UNCHANGED <<applied, ran>>
       \/ /\ applied' = [applied EXCEPT ![mig[w]] = @ \cup {copy[w].index}]
          /\ ran' = [ran EXCEPT ![mig[w]] = @ \cup {copy[w].index}]
          /\ Continue(w, "bump") \/ Continue(w, "error")
    /\ UNCHANGED <<row, celery, completed>>

\* Mutant of Bump: F("current_operation_index") + 1.
BumpStored(w) ==
    /\ pc[w] = "bump"
    /\ UpdateRow(mig[w], [row[mig[w]] EXCEPT !.index = @ + 1])
    /\ Continue(w, "next")
    /\ UNCHANGED <<applied, celery, history>>

\* The index of the instance, plus one, and the progress (not modelled).
Bump(w) ==
    /\ pc[w] = "bump"
    /\ UpdateRow(mig[w], [row[mig[w]] EXCEPT !.index = copy[w].index + 1])
    /\ Continue(w, "next")
    /\ UNCHANGED <<applied, celery, history>>

\* complete_migration; then the migration that depends on this one.
CompleteMigration(w) ==
    /\ pc[w] = "complete"
    /\ UpdateRow(mig[w], [row[mig[w]] EXCEPT !.status = "CompletedSuccessfully"])
    /\ completed' = completed \cup {mig[w]}
    /\ \/ /\ mig[w] + 1 \in Migrations
          /\ mig' = [mig EXCEPT ![w] = @ + 1]
          /\ Goto(w, "lookup")
          /\ UNCHANGED <<copy, job>>
       \/ /\ mig[w] + 1 \notin Migrations
          /\ Finish(w)
    /\ UNCHANGED <<applied, celery, ran>>

-----------------------------------------------------------------------------
(* process_error and attempt_migration_rollback, of workers and requests *)

ProcessError(p) ==
    /\ pc[p] = "error"
    /\ UpdateRow(mig[p], [row[mig[p]] EXCEPT !.status = "Errored"])
    /\ Continue(p, "refresh")
    /\ UNCHANGED <<applied, celery, history>>

\* Mutants of OpsToUndo: the completed operations; all before the last completed one.
OpsCompleted(m) == row[m].index
OpsBeforeLast(m) == row[m].index - 1

\* The length of operations[: current_operation_index + 1].
OpsToUndo(m) ==
    LET n == row[m].index + 1 IN IF n > Length[m] THEN Length[m] ELSE n

\* refresh_from_db; copy.index counts the operations still to be rolled back.
BeginRollback(p) ==
    /\ pc[p] = "refresh"
    /\ RememberIndex(p, OpsToUndo(mig[p]))
    /\ Goto(p, "undo")
    /\ UNCHANGED <<tables, celery, mig, job, history>>

Forced(p) == p \in Requests /\ request[p] = "rollback"

\* The next operation's rollback: SQL, nothing, or none, which raises, as may
\* side_effect_rollback.  An error ends the rollback; the status is only changed
\* when it was forced.
Undo(p) ==
    /\ pc[p] = "undo"
    /\ copy[p].index > 0
    /\ LET m == mig[p]
           k == copy[p].index
           undone == IF Operations[m][k] = "sql"
                     THEN [applied EXCEPT ![m] = @ \ {k - 1}] ELSE applied
       IN \/ /\ Operations[m][k] # "none"
             /\ applied' = undone
             /\ RememberIndex(p, k - 1)
             /\ UNCHANGED <<pc, mig, job>>
          \/ /\ Operations[m][k] # "noop"
             /\ IF Forced(p) THEN Continue(p, "failed") ELSE Finish(p)
             /\ applied' \in {applied, undone}
    /\ UNCHANGED <<row, celery, history>>

RolledBack(p) ==
    /\ pc[p] = "undo"
    /\ copy[p].index = 0
    /\ UpdateRow(mig[p], [row[mig[p]] EXCEPT !.status = "RolledBack"])
    /\ Finish(p)
    /\ UNCHANGED <<applied, celery, history>>

ForcedFails(p) ==
    /\ pc[p] = "failed"
    /\ UpdateRow(mig[p], [row[mig[p]] EXCEPT !.status = "Errored"])
    /\ Finish(p)
    /\ UNCHANGED <<applied, celery, history>>

-----------------------------------------------------------------------------
(* Processes that are killed *)

Active(p) == pc[p] \notin {"idle", "done"}

\* The worker that runs a revoked task.
Terminate(w) ==
    /\ Active(w)
    /\ job[w] \in revoked
    /\ Finish(w)
    /\ UNCHANGED <<tables, celery, history>>

\* A process is killed; p is that event.
Crash(p) ==
    /\ pc[p] = "idle"
    /\ request[p] = "crash"
    /\ \E q \in Procs :
          /\ Active(q)
          /\ pc' = [pc EXCEPT ![p] = "done", ![q] = Ended(q)]
          /\ Forget(q)
    /\ UNCHANGED <<tables, celery, history>>

-----------------------------------------------------------------------------
WorkerStep(w) ==
    \/ Take(w) \/ CheckStart(w) \/ CheckDependency(w) \/ MarkRunning(w)
    \/ NextOp(w) \/ Execute(w) \/ Bump(w) \/ CompleteMigration(w)

RequestStep(p) == Fetch(p) \/ SaveStarting(p) \/ Revoke(p) \/ ForcedFails(p)

SetupStep(p) == SetupFetch(p) \/ SetupSave(p)

SharedStep(p) ==
    \/ Lookup(p) \/ Delay(p) \/ NoTrigger(p) \/ RecordTask(p)
    \/ ProcessError(p) \/ BeginRollback(p) \/ Undo(p) \/ RolledBack(p)

Next ==
  /\ UNCHANGED request
  /\ \/ \E p \in Requests : StartServer(p) \/ SetupStep(p)
     \/ /\ UNCHANGED known
        /\ \/ \E w \in Workers : WorkerStep(w) \/ SharedStep(w) \/ Terminate(w)
           \/ \E p \in Requests : Begin(p) \/ RequestStep(p) \/ SharedStep(p) \/ Crash(p)

Spec == Init /\ [][Next]_vars

\* Processes that are not killed go on; no request has to come.
Fairness ==
    /\ \A w \in Workers :
          WF_vars((WorkerStep(w) \/ SharedStep(w)) /\ UNCHANGED <<request, known>>)
    /\ \A p \in Requests :
          WF_vars((RequestStep(p) \/ SetupStep(p) \/ SharedStep(p)) /\ UNCHANGED <<request, known>>)

-----------------------------------------------------------------------------
(* Properties *)

\* The index of a migration never passes an operation that has not been executed,
\* though the API and every server start save instances read long before, several
\* workers may run the same migration, and an index of zero is written over any other
\* (models the counter run_async_migration_next_op and update_async_migration share).
OperationsInOrder ==
    \A m \in Migrations :
        /\ row[m].index <= Length[m]
        /\ 0 .. row[m].index - 1 \subseteq ran[m]

\* Whatever requests, workers, failures and crashes do, operations are reached in
\* order, after the migration they depend on has been completed, and a migration
\* is not completed before all of them were (is_migration_dependency_fulfilled,
\* complete_migration).
Chain == INSTANCE MigrationChain WITH
             Last <- Len(Operations),
             Needed <- Required,
             reached <- [m \in Migrations |-> Cardinality(ran[m])]
ImplementsChain == Chain!ChainSpec
=============================================================================
