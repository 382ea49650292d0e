---------------------------- MODULE EventPipeline ----------------------------
(***************************************************************************)
(* The main thread of a plugin server without Kafka: the Celery queue's    *)
(* task handler (celery-queue.ts, queue.ts), ingestEvent and its calls of  *)
(* the workers (main/ingestion-queues/ingest-event.ts), back-pressure      *)
(* (pauseQueueIfWorkerFull and the pool's drain event) and shutdown        *)
(* (CeleryQueue.stop, closeJobs of pluginsServer.ts), over CeleryBroker.   *)
(*                                                                         *)
(* Piscina, the pool of worker threads, is external: Slots tasks run, the  *)
(* others wait; "drain" is emitted when the last waiting task is handed to *)
(* a worker.  In which order waiting tasks start is left open.             *)
(***************************************************************************)
EXTENDS CeleryBroker

CONSTANTS Slots,        \* WORKER_CONCURRENCY * TASKS_PER_WORKER
          PauseAbove,   \* WORKER_CONCURRENCY * WORKER_CONCURRENCY
          Loads         \* the kinds of messages pushed, a function on Messages each

\* What Django pushes; "bad" stands for a message that receiveOne or the task
\* handler throws on (encodings, a task nobody registered).
Kinds == {"event", "snapshot", "job", "bad"}

\* Each message pauses the queue at most twice, and each resume starts one loop.
ASSUME PipelineConstants ==
    /\ Slots \in Nat \ {0}
    /\ PauseAbove \in Nat
    /\ Loads \subseteq [Messages -> Kinds]

VARIABLES
    kind,               \* what each message is
    stage,              \* how far each message is
    matched,            \* the events of which ingestEvent returned actionMatches
    running, waiting,   \* the pool's tasks
    shutdown,           \* how far closeJobs is
    unfinished          \* the messages whose promise CeleryQueue.stop waits for

pool == <<running, waiting>>
vars == <<broker, kind, stage, matched, pool, shutdown, unfinished>>

\* activeTasks: the messages whose handler's promise is pending.
HandlerStages == {"process", "deliver", "react", "enqueue"}
Stages == HandlerStages \cup {"new", "listed", "done", "dropped", "lost"}
Active == {m \in Messages : stage[m] \in HandlerStages}

WorkerTasks == {"processEvent", "ingestEvent", "onEvent", "onAction", "enqueueJob"}
PoolTasks == Messages \X WorkerTasks

Up == shutdown \notin {"exited", "aborted"}

TypeOK ==
    /\ BrokerType
    /\ kind \in [Messages -> Kinds]
    /\ stage \in [Messages -> Stages]
    /\ matched \in SUBSET Messages
    /\ running \in SUBSET PoolTasks
    /\ waiting \in SUBSET PoolTasks
    /\ shutdown \in {"up", "finishing", "disconnecting", "disconnected",
                    "exited", "aborted"}
    /\ unfinished \in SUBSET Messages

Init ==
    /\ BrokerInit
    /\ kind \in Loads
    /\ stage = [m \in Messages |-> "new"]
    /\ matched = {}
    /\ running = {}
    /\ waiting = {}
    /\ shutdown = "up"
    /\ unfinished = {}

-----------------------------------------------------------------------------
(* The worker pool *)

\* piscina.run of the tasks S, with r running and w waiting before.
Submit(S, r, w) ==
    \E started \in SUBSET S :
        /\ \/ w = {} /\ Cardinality(r \cup started) <= Slots
           \/ started = {}
        /\ started # S => w # {} \/ Cardinality(r \cup started) = Slots
        /\ running' = r \cup started
        /\ waiting' = w \cup (S \ started)

\* pauseQueueIfWorkerFull, with w waiting.
PauseIfWorkerFull(w) ==
    IF Cardinality(w) > PauseAbove THEN Pause ELSE UNCHANGED <<paused, channels>>

\* A task ends, which lets a waiting one start; then its caller goes on, looks at
\* the pool's queue if checks, and submits S.  When the last waiting task starts,
\* "drain" resumes the queue before that; no queue is too long then.
EndTask(x, S, checks) ==
    /\ x \in running
    /\ UNCHANGED <<list, closing, awaited, kind, shutdown, unfinished>>
    /\ \E next \in IF waiting = {} THEN {{}} ELSE {{y} : y \in waiting} :
          /\ Submit(S, (running \ {x}) \cup next, waiting \ next)
          /\ \/ next # {} /\ next = waiting /\ Resume
             \/ /\ next = {} \/ next # waiting
                /\ IF checks THEN PauseIfWorkerFull(waiting \ next)
                             ELSE UNCHANGED <<paused, channels>>
                /\ UNCHANGED loop

-----------------------------------------------------------------------------
(* The Celery task handlers, from message to message *)

Goto(m, s) == stage' = [stage EXCEPT ![m] = s]

\* Django: LPUSH.
Publish(m) ==
    /\ Up
    /\ stage[m] = "new"
    /\ \A k \in Messages : k < m => stage[k] # "new"
    /\ list' = Append(list, m)
    /\ Goto(m, "listed")
    /\ UNCHANGED <<loop, channels, paused, closing, awaited, kind, matched, pool,
                   shutdown, unfinished>>

\* Mutant of Deliveries: a task the workers do not have.
DeliveriesMisnamed(m) == {<<m, "ingestEvent">>, <<m, "afterEvent">>}

Deliveries(m) == {<<m, "ingestEvent">>, <<m, "onEvent">>}

\* The callback runs the handler up to its first await; $snapshot events skip
\* processEvent (both calls of checkAndPause see the same queue).
Receive(l) ==
    \E m \in Messages :
        /\ Up
        /\ Receives(l, m)
        /\ UNCHANGED <<closing, awaited, kind, matched, shutdown, unfinished>>
        /\ \/ /\ kind[m] = "bad"
              /\ loop' = [loop EXCEPT ![l] = "dead"]
              /\ Goto(m, "dropped")
              /\ UNCHANGED <<paused, channels, pool>>
           \/ /\ kind[m] # "bad"
              /\ loop' = [loop EXCEPT ![l] = "tick"]
              /\ PauseIfWorkerFull(waiting)
              /\ \/ /\ kind[m] = "event"
                    /\ Submit({<<m, "processEvent">>}, running, waiting)
                    /\ Goto(m, "process")
                 \/ /\ kind[m] = "snapshot"
                    /\ Submit(Deliveries(m), running, waiting)
                    /\ Goto(m, "deliver")
                 \/ /\ kind[m] = "job"
                    /\ Submit({<<m, "enqueueJob">>}, running, waiting)
                    /\ Goto(m, "enqueue")

Wait(l) ==
    /\ Up
    /\ Tick(l) \/ ReceiveNothing(l)
    /\ UNCHANGED <<kind, stage, matched, pool, shutdown, unfinished>>

Fail(l) ==
    /\ Up
    /\ ReceiveFails(l)
    /\ UNCHANGED <<kind, stage, matched, pool, shutdown, unfinished>>

\* The worker's processEvent returns an event, returns null, or fails.
ProcessEventEnds(m) ==
    /\ UNCHANGED matched
    /\ \/ EndTask(<<m, "processEvent">>, Deliveries(m), TRUE) /\ Goto(m, "deliver")
       \/ EndTask(<<m, "processEvent">>, {}, TRUE) /\ Goto(m, "done")
       \/ EndTask(<<m, "processEvent">>, {}, FALSE) /\ Goto(m, "done")

\* Mutant of DeliveryFails: the handler does not learn of it.
DeliveryFailsUnseen(m, x) ==
    /\ stage[m] = "deliver"
    /\ EndTask(x, {}, FALSE)
    /\ UNCHANGED stage

\* One of ingestEvent and onEvent fails, and the other one is not waited for.
DeliveryFails(m, x) ==
    /\ stage[m] = "deliver"
    /\ EndTask(x, {}, FALSE)
    /\ Goto(m, "done")

\* Promise.all over ingestEvent and onEvent: ends when both have succeeded or one
\* has failed.
DeliveryEnds(m, t) ==
    LET x == <<m, t>>
        both == Deliveries(m) \cap (running \cup waiting) = {x}
    IN \/ /\ stage[m] = "done"
          /\ EndTask(x, {}, FALSE)
          /\ UNCHANGED <<stage, matched>>
       \/ DeliveryFails(m, x) /\ UNCHANGED matched
       \/ /\ stage[m] = "deliver"
          /\ matched' \in IF t = "ingestEvent" THEN {matched, matched \cup {m}} ELSE {matched}
          /\ \/ ~both /\ EndTask(x, {}, FALSE) /\ UNCHANGED stage
             \/ both /\ m \in matched' /\ EndTask(x, {<<m, "onAction">>}, FALSE) /\ Goto(m, "react")
             \/ both /\ m \notin matched' /\ EndTask(x, {}, FALSE) /\ Goto(m, "done")

\* The last call of a handler, which catches its error.  The onAction calls of an
\* event, one for each matching action, are modelled as one.
LastTaskEnds(m, t) ==
    /\ EndTask(<<m, t>>, {}, FALSE)
    /\ Goto(m, "done")
    /\ UNCHANGED matched

TaskEnds(m) ==
    \/ ProcessEventEnds(m)
    \/ \E t \in {"ingestEvent", "onEvent"} : DeliveryEnds(m, t)
    \/ \E t \in {"onAction", "enqueueJob"} : LastTaskEnds(m, t)

-----------------------------------------------------------------------------
(* Shutdown *)

\* closeJobs calls queue.stop(): it disconnects at once when no task is in progress.
Stop ==
    /\ shutdown = "up"
    /\ \/ /\ Active = {}
          /\ Disconnect
          /\ shutdown' = "disconnecting"
          /\ UNCHANGED unfinished
       \/ /\ Active # {}
          /\ unfinished' = Active
          /\ shutdown' = "finishing"
          /\ UNCHANGED broker
    /\ UNCHANGED <<kind, stage, matched, pool>>

TasksFinished ==
    /\ shutdown = "finishing"
    /\ unfinished \cap Active = {}
    /\ Disconnect
    /\ shutdown' = "disconnecting"
    /\ UNCHANGED <<kind, stage, matched, pool, unfinished>>

BrokerDisconnected ==
    /\ shutdown = "disconnecting"
    /\ Disconnected
    /\ shutdown' = "disconnected"
    /\ UNCHANGED <<broker, kind, stage, matched, pool, unfinished>>

\* process.exit, with all that is in progress.
EndProcess(how) ==
    /\ shutdown' = how
    /\ stage' = [m \in Messages |-> IF m \in Active THEN "lost" ELSE stage[m]]
    /\ running' = {}
    /\ waiting' = {}
    /\ UNCHANGED <<broker, kind, matched, unfinished>>

\* The rest of closeJobs stops the other parts and destroys the pool (stopPiscina).
Exit == shutdown = "disconnected" /\ EndProcess("exited")

\* A second signal: closeJobs returns at once, and process.exit follows.
Abort == Up /\ shutdown # "up" /\ EndProcess("aborted")

-----------------------------------------------------------------------------
\* disconnect waits for a promise that a bad message has left pending.
Hung == \E l \in awaited : loop[l] = "dead"

Ended == (~Up \/ Hung) /\ UNCHANGED vars

Next ==
    \/ \E m \in Messages : Publish(m) \/ TaskEnds(m)
    \/ \E l \in Loops : Wait(l) \/ Receive(l) \/ Fail(l)
    \/ Stop \/ TasksFinished \/ BrokerDisconnected \/ Exit \/ Abort
    \/ Ended

Spec == Init /\ [][Next]_vars

\* Node.js runs every callback, BRPOP returns after five seconds, a worker ends
\* its tasks, and closeJobs goes on once it has been called.
FairSpec ==
    /\ Spec
    /\ \A l \in Loops : WF_vars(Wait(l) \/ Receive(l))
    /\ WF_vars(\E m \in Messages : TaskEnds(m))
    /\ WF_vars(TasksFinished \/ BrokerDisconnected \/ Exit)

-----------------------------------------------------------------------------
(* Properties *)

Dead == \E l \in Loops : loop[l] = "dead"

\* Whoever paused the queue, the pool has tasks waiting behind others that run, so
\* that a drain event will come and resume it (pauseQueueIfWorkerFull and
\* piscina.on('drain') are the only callers of pause and resume).
PausedUntilDrain == Up /\ paused => running # {} /\ waiting # {}

\* A queue that is neither paused nor closing receives: an error apart, no pause
\* and resume, however they interleave with a BRPOP under way, stop the last loop.
ReceivesUnlessPaused ==
    ~paused /\ ~closing => \E l \in channels : loop[l] # "off"

\* No task handler waits for a worker that is not working for it, so that
\* CeleryQueue.stop, which waits for the handlers, does not hang.
HandlersHaveTasks ==
    \A m \in Active : \E t \in WorkerTasks : <<m, t>> \in running \cup waiting

\* Every message is handled (ingested, dropped by a plugin, or failed and reported)
\* as long as the server runs and no bad message has ended a loop.
EveryMessageHandled ==
    \A m \in Messages :
        stage[m] = "listed" ~> stage[m] = "done" \/ shutdown # "up" \/ Dead

\* closeJobs ends, unless a bad message has ended a loop.
StopEnds == shutdown = "finishing" \/ shutdown = "disconnecting"
               ~> ~Up \/ Hung

\* closeJobs "makes async exit possible with the process waiting until jobs are
\* closed": an orderly exit loses no message that was received.
ExitLosesNothing ==
    shutdown = "exited" => \A m \in Messages : stage[m] # "lost"
=============================================================================
