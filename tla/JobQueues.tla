-------------------------------- MODULE JobQueues --------------------------------
(***************************************************************************)
(* The queues of plugin jobs and their consumers: JobQueueManager,         *)
(* JobQueueBase with the polled S3Queue, and GraphileQueue.                *)
(*                                                                         *)
(* A server is told to start when it gets the lock of the job queue        *)
(* consumer, also a second time or next to another server (Redlock), and   *)
(* to stop when it shuts down; a job may pause it, the drain of the worker *)
(* pool resumes it.  None of these calls waits for another, each ends in   *)
(* syncState.  A turn is what one start or resume sets going; turns are    *)
(* numbered by the pauses before them.                                     *)
(*                                                                         *)
(* External: graphile-worker hands a job to one runner, and counts it as   *)
(* done when its task returns; a runner needs its pool to be open.  S3     *)
(* lists keys in their order, fails to get an object that is gone, and     *)
(* deletes one that is gone without an error.                              *)
(***************************************************************************)
EXTENDS Naturals, FiniteSets, FiniteSetsExt

CONSTANTS Servers,
          Jobs,         \* numbers, in the order of their keys
          Deployments,  \* the queues JOB_QUEUES names, the servers that are there
          MaxPauses,    \* pauses per server
          Flaky,        \* servers whose calls of S3 and Postgres may fail
          MayPause, MayStop, MayDie

ASSUME JobQueueConstants ==
    /\ Jobs \subseteq Nat
    /\ MaxPauses \in Nat
    /\ \A d \in Deployments : d.queues \subseteq {"graphile", "s3"} /\ d.servers \subseteq Servers
    /\ Flaky \subseteq Servers

VARIABLES
    queues,     \* the queues configured
    store,      \* the jobs in each queue
    ran,        \* the jobs that have run
    life,       \* per server: "up", "stopping", "dead"
    started, paused,    \* fields of every queue of the server
    pauses,     \* pauses so far, per server
    runner, consumerPool,   \* GraphileQueue: the turns they belong to
    open,       \* GraphileQueue: turns whose pool is open
    stage,      \* GraphileQueue: what each turn is at
    taken,      \* GraphileQueue: jobs handed over to the server, not run yet
    timeout,    \* S3Queue: the turn whose timer this.timeout is
    loop,       \* S3Queue: what each turn is at
    todo,       \* S3Queue: the keys each turn has listed and not handled
    overlapped, \* history: servers with a call while syncState of Graphile was awaited
    rejoined,   \* history: servers with a call while the S3Queue was being read
    cut         \* history: servers with a call that has failed

graphileVars == <<runner, consumerPool, open, stage>>
s3Vars == <<timeout, loop, todo>>
callVars == <<started, paused, pauses, life>>
history == <<overlapped, rejoined, cut>>
vars == <<queues, store, ran, callVars, graphileVars, taken, s3Vars, history>>

None == 0
Turns == 1 .. MaxPauses + 1
Lives == {"up", "stopping", "dead"}
RunnerStages == {"none", "pool", "starting", "live", "halting"}
LoopStages == {"none", "timer", "list", "get", "run", "delete"}

TypeOK ==
    /\ queues \in {d.queues : d \in Deployments}
    /\ store \in [queues -> SUBSET Jobs] /\ ran \in SUBSET Jobs
    /\ life \in [Servers -> Lives]
    /\ started \in SUBSET Servers /\ paused \in SUBSET Servers
    /\ pauses \in [Servers -> 0 .. MaxPauses]
    /\ runner \in [Servers -> Turns \cup {None}]
    /\ consumerPool \in [Servers -> Turns \cup {None}]
    /\ open \in [Servers -> SUBSET Turns]
    /\ stage \in [Servers -> [Turns -> RunnerStages]]
    /\ taken \in [Servers -> SUBSET Jobs]
    /\ timeout \in [Servers -> Turns \cup {None}]
    /\ loop \in [Servers -> [Turns -> LoopStages]]
    /\ todo \in [Servers -> [Turns -> SUBSET Jobs]]
    /\ overlapped \in SUBSET Servers /\ rejoined \in SUBSET Servers
    /\ cut \in SUBSET Servers

Init ==
    /\ \E d \in Deployments :
          /\ queues = d.queues
          /\ life = [s \in Servers |-> IF s \in d.servers THEN "up" ELSE "dead"]
    /\ store = [q \in queues |-> {}] /\ ran = {}
    /\ started = {} /\ paused = {}
    /\ pauses = [s \in Servers |-> 0]
    /\ runner = [s \in Servers |-> None]
    /\ consumerPool = [s \in Servers |-> None]
    /\ open = [s \in Servers |-> {}]
    /\ stage = [s \in Servers |-> [n \in Turns |-> "none"]]
    /\ taken = [s \in Servers |-> {}]
    /\ timeout = [s \in Servers |-> None]
    /\ loop = [s \in Servers |-> [n \in Turns |-> "none"]]
    /\ todo = [s \in Servers |-> [n \in Turns |-> {}]]
    /\ overlapped = {} /\ rejoined = {} /\ cut = {}

-----------------------------------------------------------------------------
(* JobQueueManager.enqueue *)

Enqueued == ran \cup UNION {store[q] : q \in queues} \cup UNION {taken[s] : s \in Servers}

\* The first queue that does not fail; one that failed may have kept the job.
Enqueue(j) ==
    /\ j \notin Enqueued
    /\ \E q \in queues :
          \E kept \in SUBSET (IF q = "s3" /\ Flaky # {} THEN queues \ {q} ELSE {}) :
             /\ q = "s3" /\ "graphile" \in queues => Flaky # {}
             /\ store' = [p \in queues |-> IF p \in kept \cup {q} THEN store[p] \cup {j} ELSE store[p]]
    /\ UNCHANGED <<queues, ran, callVars, graphileVars, taken, s3Vars, history>>

-----------------------------------------------------------------------------
(* syncState, up to its first await; on says whether the consumer is started and  *)
(* not paused after the call, turns is loop[s] at that time                       *)

Alive(s) == life[s] # "dead"
InCall(s) == \E n \in Turns : stage[s][n] \in {"pool", "starting", "halting"}
Reading(s) == {n \in Turns : loop[s][n] \in {"list", "get", "run", "delete"}}
NewTurn(s) == pauses[s] + 1

\* Mutant of SyncGraphile: the runner is stopped and not forgotten.
SyncGraphileKept(s, on) ==
    /\ \/ /\ "graphile" \in queues /\ on /\ runner[s] = None
          /\ stage' = [stage EXCEPT ![s][NewTurn(s)] = "pool"]
       \/ /\ "graphile" \in queues /\ ~on /\ runner[s] # None
          /\ stage' = [stage EXCEPT ![s][runner[s]] = "halting"]
       \/ /\ "graphile" \notin queues \/ (on <=> runner[s] # None)
          /\ UNCHANGED stage
    /\ overlapped' = IF InCall(s) THEN overlapped \cup {s} ELSE overlapped
    /\ UNCHANGED <<runner, consumerPool, open>>

SyncGraphile(s, on) ==
    /\ \/ /\ "graphile" \in queues /\ on /\ runner[s] = None
          /\ stage' = [stage EXCEPT ![s][NewTurn(s)] = "pool"]
          /\ UNCHANGED runner
       \/ /\ "graphile" \in queues /\ ~on /\ runner[s] # None
          /\ stage' = [stage EXCEPT ![s][runner[s]] = "halting"]
          /\ runner' = [runner EXCEPT ![s] = None]
       \/ /\ "graphile" \notin queues \/ (on <=> runner[s] # None)
          /\ UNCHANGED <<runner, stage>>
    /\ overlapped' = IF InCall(s) THEN overlapped \cup {s} ELSE overlapped
    /\ UNCHANGED <<consumerPool, open>>

\* Mutant of Cleared: the timer is not cleared.
NotCleared(s, turns) == turns

\* clearTimeout(this.timeout), which may have fired.
Cleared(s, turns) ==
    [n \in Turns |-> IF n = timeout[s] /\ turns[n] = "timer" THEN "none" ELSE turns[n]]

SyncS3(s, on, turns) ==
    IF on /\ "s3" \in queues
    THEN /\ loop' = [loop EXCEPT ![s] = [Cleared(s, turns) EXCEPT ![NewTurn(s)] = "list"]]
         /\ rejoined' = IF Reading(s) # {} THEN rejoined \cup {s} ELSE rejoined
    ELSE /\ loop' = [loop EXCEPT ![s] = Cleared(s, turns)]
         /\ UNCHANGED rejoined

Sync(s, on, turns) == SyncGraphile(s, on) /\ SyncS3(s, on, turns)

-----------------------------------------------------------------------------
(* Calls of the consumer *)

\* onLock; when the lock is got again nothing happens.
StartConsumer(s) ==
    /\ life[s] = "up" /\ s \notin started
    /\ started' = started \cup {s}
    /\ Sync(s, s \notin paused, loop[s])
    /\ UNCHANGED <<queues, store, ran, paused, pauses, life, taken, timeout, todo, cut>>

\* onUnlock.
StopConsumer(s) ==
    /\ s \in MayStop
    /\ life[s] = "up"
    /\ life' = [life EXCEPT ![s] = "stopping"]
    /\ started' = started \ {s}
    /\ Sync(s, FALSE, loop[s])
    /\ UNCHANGED <<queues, store, ran, paused, pauses, taken, timeout, todo, cut>>

\* The pool of workers has drained.
ResumeConsumer(s) ==
    /\ Alive(s) /\ s \in paused
    /\ paused' = paused \ {s}
    /\ Sync(s, s \in started, loop[s])
    /\ UNCHANGED <<queues, store, ran, started, pauses, life, taken, timeout, todo, cut>>

\* onJob begins, with turns in the S3Queue: the pool of workers is full, or not.
OnJob(s, turns) ==
    \/ /\ s \in MayPause /\ pauses[s] < MaxPauses
       /\ paused' = paused \cup {s}
       /\ pauses' = [pauses EXCEPT ![s] = @ + 1]
       /\ Sync(s, FALSE, turns)
    \/ /\ loop' = [loop EXCEPT ![s] = turns]
       /\ UNCHANGED <<paused, pauses, graphileVars, overlapped, rejoined>>

-----------------------------------------------------------------------------
(* GraphileQueue *)

PoolCreated(s, n) ==
    /\ stage[s][n] = "pool"
    /\ stage' = [stage EXCEPT ![s][n] = "starting"]
    /\ consumerPool' = [consumerPool EXCEPT ![s] = n]
    /\ open' = [open EXCEPT ![s] = @ \cup {n}]
    /\ UNCHANGED <<queues, store, ran, callVars, runner, taken, s3Vars, history>>

\* Mutant of RunStarted: the runner is not kept.
RunForgotten(s, n) ==
    /\ stage[s][n] = "starting" /\ n \in open[s]
    /\ stage' = [stage EXCEPT ![s][n] = "live"]
    /\ UNCHANGED <<queues, store, ran, callVars, runner, consumerPool, open, taken, s3Vars, history>>

RunStarted(s, n) ==
    /\ stage[s][n] = "starting" /\ n \in open[s]
    /\ stage' = [stage EXCEPT ![s][n] = "live"]
    /\ runner' = [runner EXCEPT ![s] = n]
    /\ UNCHANGED <<queues, store, ran, callVars, consumerPool, open, taken, s3Vars, history>>

\* The call of syncState rejects.
RunFails(s, n) ==
    /\ stage[s][n] \in {"pool", "starting"}
    /\ s \in Flaky \/ (stage[s][n] = "starting" /\ n \notin open[s])
    /\ stage' = [stage EXCEPT ![s][n] = "none"]
    /\ cut' = cut \cup {s}
    /\ UNCHANGED <<queues, store, ran, callVars, runner, consumerPool, open, taken, s3Vars,
                   overlapped, rejoined>>

\* The runner has stopped; the pool of the moment is ended.
Halted(s, n) ==
    /\ stage[s][n] = "halting"
    /\ stage' = [stage EXCEPT ![s][n] = "none"]
    /\ open' = [open EXCEPT ![s] = @ \ {consumerPool[s]}]
    /\ UNCHANGED <<queues, store, ran, callVars, runner, consumerPool, taken, s3Vars, history>>

\* A runner takes a job; its promise is not awaited.
TakeJob(s, n) ==
    /\ stage[s][n] = "live" /\ n \in open[s]
    /\ \E j \in store["graphile"] :
          /\ store' = [store EXCEPT !["graphile"] = @ \ {j}]
          /\ taken' = [taken EXCEPT ![s] = @ \cup {j}]
    /\ OnJob(s, loop[s])
    /\ UNCHANGED <<queues, ran, started, life, timeout, todo, cut>>

TakenRuns(s) ==
    /\ Alive(s)
    /\ \E j \in taken[s] : taken' = [taken EXCEPT ![s] = @ \ {j}] /\ ran' = ran \cup {j}
    /\ UNCHANGED <<queues, store, callVars, graphileVars, s3Vars, history>>

-----------------------------------------------------------------------------
(* JobQueueBase with S3Queue *)

Goes(s, n, l) == loop' = [loop EXCEPT ![s][n] = l]

\* The timer of a turn fires and calls syncState.
TimerFires(s, n) ==
    /\ loop[s][n] = "timer"
    /\ loop' = [loop EXCEPT ![s] =
                   [Cleared(s, @) EXCEPT ![n] = IF s \in started \ paused THEN "list" ELSE "none"]]
    /\ UNCHANGED <<queues, store, ran, callVars, graphileVars, taken, timeout, todo, history>>

SetTimer(s, n) == Goes(s, n, "timer") /\ timeout' = [timeout EXCEPT ![s] = n]

\* Mutant of Listed: the object of the connection test is not filtered out.
ListedAll == store["s3"] \cup {None}

Listed == store["s3"]

ListObjects(s, n) ==
    /\ loop[s][n] = "list"
    /\ todo' = [todo EXCEPT ![s][n] = Listed]
    /\ IF Listed = {} THEN SetTimer(s, n) ELSE Goes(s, n, "get") /\ UNCHANGED timeout
    /\ UNCHANGED <<queues, store, ran, callVars, graphileVars, taken, history>>

First(s, n) == Min(todo[s][n])

\* Mutant of GetObject: the loop does not await onJob.
GetObjectUnawaited(s, n) ==
    /\ loop[s][n] = "get" /\ First(s, n) \in store["s3"]
    /\ OnJob(s, [loop[s] EXCEPT ![n] = "delete"])
    /\ UNCHANGED <<queues, store, ran, started, life, taken, timeout, todo, cut>>

GetObject(s, n) ==
    /\ loop[s][n] = "get" /\ First(s, n) \in store["s3"]
    /\ OnJob(s, [loop[s] EXCEPT ![n] = "run"])
    /\ UNCHANGED <<queues, store, ran, started, life, taken, timeout, todo, cut>>

RunJob(s, n) ==
    /\ loop[s][n] = "run"
    /\ ran' = ran \cup {First(s, n)}
    /\ Goes(s, n, "delete")
    /\ UNCHANGED <<queues, store, callVars, graphileVars, taken, timeout, todo, history>>

DeleteObject(s, n) ==
    /\ loop[s][n] = "delete"
    /\ store' = [store EXCEPT !["s3"] = @ \ {First(s, n)}]
    /\ todo' = [todo EXCEPT ![s][n] = @ \ {First(s, n)}]
    /\ IF todo'[s][n] = {} THEN SetTimer(s, n) ELSE Goes(s, n, "get") /\ UNCHANGED timeout
    /\ UNCHANGED <<queues, ran, callVars, graphileVars, taken, history>>

\* readState rejects and no timer is set: an object is gone, or a call failed.
ReadFails(s, n) ==
    /\ n \in Reading(s)
    /\ Goes(s, n, "none")
    /\ todo' = [todo EXCEPT ![s][n] = {}]
    /\ s \in Flaky \/ (loop[s][n] = "get" /\ First(s, n) \notin store["s3"])
    /\ cut' = cut \cup {s}
    /\ UNCHANGED <<queues, store, ran, callVars, graphileVars, taken, timeout, overlapped, rejoined>>

-----------------------------------------------------------------------------
\* The server exits after its stop, or is killed.
Die(s) ==
    /\ life[s] = "stopping" \/ (life[s] = "up" /\ s \in MayDie)
    /\ life' = [life EXCEPT ![s] = "dead"]
    /\ started' = started \ {s} /\ paused' = paused \ {s}
    /\ runner' = [runner EXCEPT ![s] = None]
    /\ consumerPool' = [consumerPool EXCEPT ![s] = None]
    /\ open' = [open EXCEPT ![s] = {}]
    /\ stage' = [stage EXCEPT ![s] = [n \in Turns |-> "none"]]
    /\ timeout' = [timeout EXCEPT ![s] = None]
    /\ loop' = [loop EXCEPT ![s] = [n \in Turns |-> "none"]]
    /\ todo' = [todo EXCEPT ![s] = [n \in Turns |-> {}]]
    /\ UNCHANGED <<queues, store, ran, pauses, taken, history>>

GraphileStep(s, n) ==
    PoolCreated(s, n) \/ RunStarted(s, n) \/ RunFails(s, n) \/ Halted(s, n) \/ TakeJob(s, n)

S3Step(s, n) ==
    TimerFires(s, n) \/ ListObjects(s, n) \/ GetObject(s, n) \/ RunJob(s, n)
    \/ DeleteObject(s, n) \/ ReadFails(s, n)

Next ==
    \/ \E j \in Jobs : Enqueue(j)
    \/ \E s \in Servers :
          \/ StartConsumer(s) \/ StopConsumer(s) \/ ResumeConsumer(s)
          \/ TakenRuns(s) \/ Die(s)
          \/ \E n \in Turns : GraphileStep(s, n) \/ S3Step(s, n)

Spec == Init /\ [][Next]_vars

\* Calls of Postgres and S3 are answered, timers fire, jobs end, runners take jobs.
Fairness ==
    \A s \in Servers :
        /\ WF_vars(TakenRuns(s))
        /\ \A n \in Turns : WF_vars(GraphileStep(s, n)) /\ WF_vars(S3Step(s, n))

FairSpec == Spec /\ Fairness

-----------------------------------------------------------------------------
(* Properties *)

Consumes(s) == s \in started \ paused

\* When no call of the consumer is under way, a GraphileQueue has a runner, one, on an
\* open pool, exactly when it is started and not paused: unless a call has come while
\* an earlier one was awaited (the pool is read again after the await), or has failed.
RunnerAtRest ==
    \A s \in Servers \ (overlapped \cup cut) :
        "graphile" \in queues /\ Alive(s) /\ ~InCall(s)
        => /\ Consumes(s) <=> runner[s] # None
           /\ {n \in Turns : stage[s][n] = "live"} = {runner[s]} \ {None}
           /\ open[s] = {runner[s]} \ {None}

\* An S3Queue has one turn that polls exactly when it is started and not paused, but
\* for turns that stop at their next timer; unless it was resumed while an earlier turn
\* was reading (two turns delete each other's objects until none is left), or a call
\* has failed.
OneTurnPolls ==
    \A s \in Servers \ (rejoined \cup cut) :
        LET polling == {n \in Turns : loop[s][n] # "none"} IN
            "s3" \in queues
            => Cardinality(polling) <= 1 /\ (Consumes(s) => polling # {})

\* A job is deleted from S3 only when it has run: although two turns, or two servers, handle
\* the same object and delete each other's, onJob pauses the consumer in the middle of a
\* turn, calls fail and servers die.  (A job of Graphile leaves its queue before it runs.)
RanBeforeDeleted == []["s3" \in queues => store["s3"] \ store'["s3"] \subseteq ran]_vars

\* All jobs are taken when a server goes on consuming for good.
JobsTaken ==
    \A s \in Servers :
        <>[](Consumes(s) /\ s \notin overlapped \cup rejoined \cup cut)
        => <>[](\A q \in queues : store[q] = {})
=============================================================================
