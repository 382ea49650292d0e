-------------------------- MODULE MCAsyncMigrations --------------------------
(* Small instances of AsyncMigrations with its monitor, for TLC. *)
EXTENDS MigrationEffects

FairMonitoredSpec == MonitoredSpec /\ Fairness

\* The first migration is not required; the second has an operation that need not be
\* rolled back before one that must.
TwoMigrations == <<<<"sql">>, <<"noop", "sql">>>>

Three(a, b, c) == [r1 |-> a, r2 |-> b, r3 |-> c]

\* Requests come in any order, or not at all; the workers of one may still run when the
\* next comes.
Combinations ==
    {Three("kickstart", "start", "stop"), Three("trigger", "rollback", "start"),
     Three("trigger", "trigger", "none"), Three("trigger", "crash", "stop")}
=============================================================================
