----------------------------- MODULE ScheduledTasks -----------------------------
(***************************************************************************)
(* startSchedule: every server of the cluster ticks, the one that has the  *)
(* lock runs the scheduled plugin tasks in its workers.  The tasks are the *)
(* plugin configs of one name (runEveryMinute); which of them are in the   *)
(* schedule of the moment is left open.                                    *)
(*                                                                         *)
(* External: cron jobs fire at any time; the workers run tasks.            *)
(***************************************************************************)
EXTENDS Redlock

CONSTANTS Tasks,
          MayStop,      \* servers that may be stopped
          MayDie,       \* servers that may be killed
          MayReload     \* servers that may reload their schedule, once

VARIABLES
    has,        \* weHaveTheLock of startSchedule
    running,    \* pluginSchedulePromises: the tasks that run, per server
    awaited,    \* the tasks that waitForTasksToFinish waits for
    schedule,   \* pluginSchedulePromise
    ticking,    \* servers with a tick that waits for pluginSchedulePromise
    caught      \* history: servers that were stopped while a tick waited

scheduleVars == <<has, running, awaited, schedule, ticking, caught>>
vars == <<redlockVars, scheduleVars>>

ScheduleStages == {"ready", "loading", "reloaded", "failed"}

TypeOK ==
    /\ RedlockType
    /\ has \in SUBSET Servers
    /\ running \in [Servers -> SUBSET Tasks]
    /\ awaited \in [Servers -> SUBSET Tasks]
    /\ schedule \in [Servers -> ScheduleStages]
    /\ ticking \in SUBSET Servers
    /\ caught \in SUBSET Servers

Init ==
    /\ RedlockInit
    /\ has = {} /\ ticking = {} /\ caught = {}
    /\ running = [s \in Servers |-> {}]
    /\ awaited = [s \in Servers |-> {}]
    /\ schedule = [s \in Servers |-> "ready"]

-----------------------------------------------------------------------------
\* The lock, with the callbacks of startSchedule.
Locked(s) ==
    /\ GotLock(s)
    /\ has' = has \cup {s}
    /\ UNCHANGED <<running, awaited, schedule, ticking, caught>>

Lock(s) == LockStep(s) /\ UNCHANGED scheduleVars

KeyExpires == Expire /\ UNCHANGED scheduleVars

\* runScheduleDebounced: some tasks are due, those that still run are skipped.
Run(s) == \E due \in SUBSET Tasks : running' = [running EXCEPT ![s] = @ \cup due]

MayTick(s) == Up(s) /\ s \in has

\* A cron job: the conditions come before the await.
Tick(s) ==
    /\ MayTick(s)
    /\ schedule[s] \in {"ready", "reloaded"}
    /\ Run(s)
    /\ UNCHANGED <<redlockVars, has, awaited, schedule, ticking, caught>>

TickWaits(s) ==
    /\ MayTick(s)
    /\ schedule[s] = "loading"
    /\ ticking' = ticking \cup {s}
    /\ UNCHANGED <<redlockVars, has, running, awaited, schedule, caught>>

\* Mutant of TaskEnds: a promise that was replaced by null does not count as ended.
TaskEndsUnseen(s) ==
    /\ \E t \in running[s] : running' = [running EXCEPT ![s] = @ \ {t}]
    /\ UNCHANGED <<redlockVars, has, awaited, schedule, ticking, caught>>

TaskEnds(s) ==
    /\ \E t \in running[s] :
          /\ running' = [running EXCEPT ![s] = @ \ {t}]
          /\ awaited' = [awaited EXCEPT ![s] = @ \ {t}]
    /\ UNCHANGED <<redlockVars, has, schedule, ticking, caught>>

\* A task whose promise is rejected; stopSchedule rejects with it if it waits for it.
TaskFails(s) ==
    /\ \E t \in running[s] :
          /\ running' = [running EXCEPT ![s] = @ \ {t}]
          /\ IF stop[s] = "closed" /\ t \in awaited[s]
             THEN StopAt(s, "aborted") ELSE UNCHANGED stop
          /\ awaited' = [awaited EXCEPT ![s] = @ \ {t}]
    /\ s \in Faulty
    /\ UNCHANGED <<key, token, stage, late, has, schedule, ticking, caught>>

\* reloadSchedule, loadPluginSchedule and the ticks that wait for it.
Reload(s) ==
    /\ s \in MayReload
    /\ schedule[s] = "ready" /\ stop[s] # "dead"
    /\ schedule' = [schedule EXCEPT ![s] = "loading"]
    /\ UNCHANGED <<redlockVars, has, running, awaited, ticking, caught>>

Loaded(s) ==
    /\ schedule[s] = "loading"
    /\ schedule' = [schedule EXCEPT ![s] = "reloaded"]
    /\ IF s \in ticking THEN Run(s) ELSE UNCHANGED running
    /\ ticking' = ticking \ {s}
    /\ UNCHANGED <<redlockVars, has, awaited, caught>>

\* 'Could not load plugin schedule in time': the promise stays rejected.
LoadFails(s) ==
    /\ schedule[s] = "loading"
    /\ s \in Faulty
    /\ schedule' = [schedule EXCEPT ![s] = "failed"]
    /\ ticking' = ticking \ {s}
    /\ UNCHANGED <<redlockVars, has, running, awaited, caught>>

-----------------------------------------------------------------------------
(* stopSchedule *)

StopSchedule(s) ==
    /\ s \in MayStop
    /\ StopLock(s)
    /\ caught' = IF s \in ticking THEN caught \cup {s} ELSE caught
    /\ UNCHANGED <<has, running, awaited, schedule, ticking>>

\* Mutants of ToAwait: nothing is waited for when the lock was lost; without the
\* filter, null promises too.
ToAwaitWithLock(s) == IF s \in late THEN {} ELSE running[s]
ToAwaitUnfiltered(s) == running[s] \cup {NoServer}

ToAwait(s) == running[s]

\* onUnlock, and waitForTasksToFinish collects the promises of the moment.
Unlocked(s) ==
    /\ Close(s)
    /\ has' = has \ {s}
    /\ awaited' = [awaited EXCEPT ![s] = ToAwait(s)]
    /\ UNCHANGED <<running, schedule, ticking, caught>>

TasksFinished(s) ==
    /\ stop[s] = "closed"
    /\ awaited[s] = {}
    /\ StopAt(s, "stopped")
    /\ UNCHANGED <<key, token, stage, late, scheduleVars>>

\* The process dies, with its workers.
Killed(s) ==
    /\ s \in MayDie
    /\ Die(s)
    /\ has' = has \ {s}
    /\ running' = [running EXCEPT ![s] = {}]
    /\ awaited' = [awaited EXCEPT ![s] = {}]
    /\ schedule' = [schedule EXCEPT ![s] = "ready"]
    /\ ticking' = ticking \ {s}
    /\ caught' = caught \ {s}

-----------------------------------------------------------------------------
Next ==
    \/ KeyExpires
    \/ \E s \in Servers :
          \/ Locked(s) \/ Lock(s) \/ Tick(s) \/ TickWaits(s) \/ TaskEnds(s) \/ TaskFails(s)
          \/ Reload(s) \/ Loaded(s) \/ LoadFails(s)
          \/ StopSchedule(s) \/ Unlocked(s) \/ TasksFinished(s) \/ Killed(s)

Spec == Init /\ [][Next]_vars

\* Redis answers, unused keys expire, tasks and loads end; nobody has to stop.
Fairness ==
    /\ WF_vars(Abandoned /\ KeyExpires)
    /\ \A s \in Servers :
          /\ WF_vars(Lock(s)) /\ WF_vars(Locked(s)) /\ WF_vars(Unlocked(s)) /\ WF_vars(TasksFinished(s))
          /\ WF_vars(TaskEnds(s)) /\ WF_vars(Loaded(s) \/ LoadFails(s))

FairSpec == Spec /\ Fairness

-----------------------------------------------------------------------------
(* Properties *)

\* Two servers run a task at the same time only if one of them lost its lock by
\* expiry without being told (extendLock does not call onUnlock), or is stopping
\* (the lock is released before the tasks have ended).
OneServerUnlessLost ==
    \A s, r \in Servers :
        s # r /\ running[s] \cap running[r] # {}
        => \E q \in {s, r} : q \in late \/ ~Up(q)

\* When stopSchedule has returned no scheduled task runs, unless a tick had passed
\* its conditions and waited for the schedule to be loaded.
StoppedIsQuiet ==
    \A s \in Servers \ caught : stop[s] = "stopped" => running[s] = {}

\* When all other servers have been stopped or killed, at any point of their
\* protocol, the one that stays and is not cut off takes over.
TakesOver ==
    \A s \in Servers \ Faulty :
        <>[](Up(s) /\ \A r \in Servers \ {s} : stop[r] \in {"stopped", "aborted", "dead"})
        => <>(s \in has)

\* stopSchedule ends, or rejects with a task it waits for.
StopScheduleEnds ==
    \A s \in Servers : stop[s] = "unlocking" ~> stop[s] \in {"stopped", "aborted", "dead"}
=============================================================================
