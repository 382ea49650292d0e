--------------------------- MODULE MigrationEffects ---------------------------
(***************************************************************************)
(* AsyncMigrations with a monitor of the migrations whose history a single *)
(* operator would not expect, and what the status of the others tells of   *)
(* the effects that are in the database.                                   *)
(***************************************************************************)
EXTENDS AsyncMigrations

VARIABLES
    spoiled,    \* migrations that two processes worked on at the same time, whose
                \* process was killed, whose rollback has failed, that were begun again
                \* while effects of an earlier run were there, or whose status or index a
                \* server start has set back
    stranded    \* migrations whose process was killed while they were Running, or that a
                \* server start has made Running again

\* Stages from which a process may still write the row or run operations.
WorkStages == {"save", "mark", "next", "exec", "bump", "complete", "revoke", "error",
               "refresh", "undo", "failed"}
WorkingOn(m) == {p \in Procs : mig[p] = m /\ pc[p] \in WorkStages}

\* The effects that are there and that a rollback has to remove.
Effects(m) == {i \in applied[m] : Operations[m][i + 1] # "noop"}

\* A server start writes an instance that is no longer the row.
SetsBack(m) ==
    \E p \in Requests :
        /\ mig[p] = m /\ pc[p] = "resave"
        /\ row'[m].status # row[m].status \/ row'[m].index # row[m].index

Spoils(m) ==
    \/ SetsBack(m)
    \/ \E p, q \in WorkingOn(m) : p # q
    \/ \E p \in WorkingOn(m) :
          \/ pc'[p] = Ended(p) /\ pc[p] \in {"mark", "next", "exec", "bump", "error", "refresh"}
          \/ pc[p] = "undo" /\ pc'[p] # "undo" /\ row'[m].status # "RolledBack"
          \/ pc[p] = "mark" /\ pc'[p] = "next" /\ Effects(m) # {}

\* The process is killed: its task has been revoked, or this is the crash.
Killed(p) ==
    /\ pc'[p] = Ended(p)
    /\ job[p] \in revoked \/ \E c \in Requests : request[c] = "crash" /\ pc[c] # pc'[c]

Strands(m) ==
    /\ row'[m].status = "Running"
    /\ \/ SetsBack(m)
       \/ \E p \in Procs :
             /\ mig[p] = m /\ pc[p] \in {"next", "exec", "bump", "complete", "error"}
             /\ Killed(p)

MonitoredInit == Init /\ spoiled = {} /\ stranded = {}
MonitoredNext ==
    /\ Next
    /\ spoiled' = spoiled \cup {m \in Migrations : Spoils(m)}
    /\ stranded' = stranded \cup {m \in Migrations : Strands(m)}
MonitoredSpec == MonitoredInit /\ [][MonitoredNext]_<<vars, spoiled, stranded>>

\* When one process at a time has worked on a required migration, none was killed, no
\* rollback has failed, it was not begun again over its own effects and no server start
\* has set it back: completed means that every operation's effect is there, and rolled
\* back that none is but those declared to need no rollback, after any number of
\* failures, repetitions and forced rollbacks (models the use of the operation index by
\* run_async_migration_next_op and attempt_migration_rollback).
StatusTellsEffects ==
    \A m \in Required \ spoiled : WorkingOn(m) = {} =>
        /\ row[m].status = "CompletedSuccessfully" => applied[m] = OpsOf(m)
        /\ row[m].status = "RolledBack" => Effects(m) = {}

\* No task is left in the queue, and no migration is left Running for ever unless its
\* process was killed (by a crash, or by the revoke of a stop that comes when the task
\* has already gone on) or a server start has written an old Running over its end: each
\* mark_async_migration_as_running is followed by complete_migration or process_error,
\* whatever other requests and workers write to the same row in between.
RunsEnd ==
    /\ <>[](queue = {})
    /\ \A m \in Migrations : <>[](m \in stranded \/ row[m].status # "Running")
=============================================================================
