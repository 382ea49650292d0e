------------------------- MODULE EventPipelineProofs -------------------------
(***************************************************************************)
(* Safety of the event pipeline, for any number of messages, loops, slots  *)
(* and any threshold: type correctness, back-pressure that always ends,    *)
(* a queue that goes on receiving, and handlers that always wait for       *)
(* something that runs.                                                    *)
(***************************************************************************)
EXTENDS EventPipeline, FiniteSetTheorems, TLAPS

USE BrokerConstants, PipelineConstants DEF BrokerConstants, PipelineConstants

-----------------------------------------------------------------------------
(* Type correctness *)

\* Submit keeps the pool's sets within PoolTasks.
LEMMA SubmitType ==
    ASSUME NEW S \in SUBSET PoolTasks, NEW r \in SUBSET PoolTasks, NEW w \in SUBSET PoolTasks,
           Submit(S, r, w)
    PROVE  running' \in SUBSET PoolTasks /\ waiting' \in SUBSET PoolTasks
  BY DEF Submit

\* A task's end keeps every variable it may write within its type.
LEMMA EndTaskType ==
    ASSUME TypeOK, NEW x, NEW S \in SUBSET PoolTasks, NEW checks \in BOOLEAN,
           EndTask(x, S, checks)
    PROVE  /\ BrokerType'
           /\ kind' = kind /\ shutdown' = shutdown /\ unfinished' = unfinished
           /\ running' \in SUBSET PoolTasks /\ waiting' \in SUBSET PoolTasks
<1>1. PICK next \in IF waiting = {} THEN {{}} ELSE {{y} : y \in waiting} :
          /\ Submit(S, (running \ {x}) \cup next, waiting \ next)
          /\ \/ next # {} /\ next = waiting /\ Resume
             \/ /\ next = {} \/ next # waiting
                /\ IF checks THEN PauseIfWorkerFull(waiting \ next)
                             ELSE UNCHANGED <<paused, channels>>
                /\ UNCHANGED loop
  BY DEF EndTask
<1>2. next \in SUBSET waiting
  OBVIOUS
<1>3. running' \in SUBSET PoolTasks /\ waiting' \in SUBSET PoolTasks
  <2>1. (running \ {x}) \cup next \in SUBSET PoolTasks /\ waiting \ next \in SUBSET PoolTasks
    BY <1>2 DEF TypeOK
  <2> QED BY <1>1, <2>1, SubmitType
<1>4. list' = list /\ closing' = closing /\ awaited' = awaited
  BY DEF EndTask
<1>5. loop' \in [Loops -> LoopStates] /\ channels' \in SUBSET Loops /\ paused' \in BOOLEAN
  BY <1>1 DEF Resume, NewLoop, PauseIfWorkerFull, Pause, TypeOK, BrokerType, LoopStates
<1>6. BrokerType'
  BY <1>4, <1>5 DEF TypeOK, BrokerType
<1> QED BY <1>3, <1>6 DEF EndTask

\* Every variable keeps its type.
THEOREM TypeCorrect == Spec => []TypeOK
<1>1. Init => TypeOK
  <2> SUFFICES ASSUME Init PROVE TypeOK
    OBVIOUS
  <2>1. BrokerType
    <3>1. PICK l \in Loops : /\ loop = [k \in Loops |-> IF k = l THEN "tick" ELSE "off"]
                             /\ channels = {l}
      BY DEF Init, BrokerInit
    <3>2. loop \in [Loops -> LoopStates] /\ channels \in SUBSET Loops
      BY <3>1 DEF LoopStates
    <3>3. list = <<>> /\ paused = FALSE /\ closing = FALSE /\ awaited = {}
      BY DEF Init, BrokerInit
    <3>4. <<>> \in Seq(Messages)
      OBVIOUS
    <3>5. {} \in SUBSET Loops
      OBVIOUS
    <3>6. list \in Seq(Messages)
      BY <3>3, <3>4
    <3> QED BY <3>2, <3>3, <3>5, <3>6 DEF BrokerType
  <2>2. kind \in [Messages -> Kinds]
    BY DEF Init
  <2> QED BY <2>1, <2>2 DEF Init, TypeOK, Stages, HandlerStages
<1>2. TypeOK /\ [Next]_vars => TypeOK'
  <2> SUFFICES ASSUME TypeOK, [Next]_vars PROVE TypeOK'
    OBVIOUS
  <2>1. ASSUME NEW m \in Messages, Publish(m) PROVE TypeOK'
    BY <2>1 DEF Publish, Goto, TypeOK, BrokerType, pool, Stages
  <2>2. ASSUME NEW m \in Messages, TaskEnds(m) PROVE TypeOK'
    <3>1. /\ Deliveries(m) \in SUBSET PoolTasks
          /\ {<<m, "onAction">>} \in SUBSET PoolTasks
          /\ {} \in SUBSET PoolTasks
      BY DEF Deliveries, PoolTasks, WorkerTasks
    <3>2. ASSUME ProcessEventEnds(m) PROVE TypeOK'
      <4>1. /\ BrokerType'
            /\ kind' = kind /\ shutdown' = shutdown /\ unfinished' = unfinished
            /\ running' \in SUBSET PoolTasks /\ waiting' \in SUBSET PoolTasks
        BY <3>1, <3>2, EndTaskType DEF ProcessEventEnds
      <4>2. stage' \in [Messages -> Stages] /\ matched' = matched
        BY <3>2 DEF ProcessEventEnds, Goto, TypeOK, Stages, HandlerStages
      <4> QED BY <4>1, <4>2 DEF TypeOK
    <3>3. ASSUME NEW t \in {"ingestEvent", "onEvent"}, DeliveryEnds(m, t) PROVE TypeOK'
      <4>1. /\ BrokerType'
            /\ kind' = kind /\ shutdown' = shutdown /\ unfinished' = unfinished
            /\ running' \in SUBSET PoolTasks /\ waiting' \in SUBSET PoolTasks
        BY <3>1, <3>3, EndTaskType DEF DeliveryEnds, DeliveryFails
      <4>2. stage' \in [Messages -> Stages]
        BY <3>3 DEF DeliveryEnds, DeliveryFails, Goto, TypeOK, Stages, HandlerStages
      <4>3. matched' \in SUBSET Messages
        BY <3>3 DEF DeliveryEnds, DeliveryFails, TypeOK
      <4> QED BY <4>1, <4>2, <4>3 DEF TypeOK
    <3>4. ASSUME NEW t \in {"onAction", "enqueueJob"}, LastTaskEnds(m, t) PROVE TypeOK'
      <4>1. /\ BrokerType'
            /\ kind' = kind /\ shutdown' = shutdown /\ unfinished' = unfinished
            /\ running' \in SUBSET PoolTasks /\ waiting' \in SUBSET PoolTasks
        BY <3>1, <3>4, EndTaskType DEF LastTaskEnds
      <4> QED BY <3>4, <4>1 DEF LastTaskEnds, Goto, TypeOK, Stages
    <3> QED BY <2>2, <3>2, <3>3, <3>4 DEF TaskEnds
  <2>3. ASSUME NEW l \in Loops, Wait(l) \/ Fail(l) PROVE TypeOK'
    BY <2>3 DEF Wait, Tick, ReceiveNothing, Fail, ReceiveFails, TypeOK, BrokerType, LoopStates, pool
  <2>4. ASSUME NEW l \in Loops, Receive(l) PROVE TypeOK'
    <3>1. PICK m \in Messages :
             /\ Receives(l, m)
             /\ UNCHANGED <<closing, awaited, kind, matched, shutdown, unfinished>>
             /\ \/ /\ kind[m] = "bad"
                   /\ loop' = [loop EXCEPT ![l] = "dead"]
                   /\ Goto(m, "dropped")
                   /\ UNCHANGED <<paused, channels, pool>>
                \/ /\ loop' = [loop EXCEPT ![l] = "tick"]
                   /\ PauseIfWorkerFull(waiting)
                   /\ \E S \in {{<<m, "processEvent">>}, Deliveries(m), {<<m, "enqueueJob">>}},
                         s \in HandlerStages : Submit(S, running, waiting) /\ Goto(m, s)
      BY <2>4 DEF Receive, HandlerStages
    <3>2. list' \in Seq(Messages)
      BY <3>1 DEF Receives, TypeOK, BrokerType
    <3>3. loop' \in [Loops -> LoopStates] /\ channels' \in SUBSET Loops /\ paused' \in BOOLEAN
      BY <3>1 DEF PauseIfWorkerFull, Pause, TypeOK, BrokerType, LoopStates
    <3>4. stage' \in [Messages -> Stages]
      BY <3>1 DEF Goto, TypeOK, Stages
    <3>5. running' \in SUBSET PoolTasks /\ waiting' \in SUBSET PoolTasks
      <4>1. \A S \in {{<<m, "processEvent">>}, Deliveries(m), {<<m, "enqueueJob">>}} :
               S \in SUBSET PoolTasks
        BY DEF Deliveries, PoolTasks, WorkerTasks
      <4> QED BY <3>1, <4>1, SubmitType DEF TypeOK, pool
    <3> QED BY <3>1, <3>2, <3>3, <3>4, <3>5 DEF TypeOK, BrokerType
  <2>5. CASE Stop
    BY <2>5 DEF Stop, Disconnect, broker, pool, Active, TypeOK, BrokerType
  <2>6. CASE TasksFinished
    BY <2>6 DEF TasksFinished, Disconnect, pool, TypeOK, BrokerType
  <2>7. CASE BrokerDisconnected
    BY <2>7 DEF BrokerDisconnected, broker, pool, TypeOK, BrokerType
  <2>8. CASE Exit \/ Abort
    BY <2>8 DEF Exit, Abort, EndProcess, broker, TypeOK, BrokerType, Stages
  <2>9. CASE UNCHANGED vars
    BY <2>9 DEF vars, broker, pool, TypeOK, BrokerType
  <2> QED BY <2>1, <2>2, <2>3, <2>4, <2>5, <2>6, <2>7, <2>8, <2>9 DEF Next, Ended
<1> QED BY <1>1, <1>2, PTL DEF Spec

-----------------------------------------------------------------------------
(* Back-pressure *)

\* The pool hands waiting tasks to its workers: tasks wait only behind running ones.
WaitBehindOthers == waiting # {} => running # {}

\* piscina.run leaves tasks waiting only when workers are busy.
LEMMA SubmitBehindOthers ==
    ASSUME NEW S, NEW r, NEW w, w # {} => r # {}, Submit(S, r, w)
    PROVE  WaitBehindOthers' /\ w \subseteq waiting'
<1>1. PICK started \in SUBSET S :
         /\ started # S => w # {} \/ Cardinality(r \cup started) = Slots
         /\ running' = r \cup started
         /\ waiting' = w \cup (S \ started)
  BY DEF Submit
<1>2. Cardinality({}) = 0
  BY FS_EmptySet
<1>3. CASE w # {}
  BY <1>1, <1>3 DEF WaitBehindOthers
<1>4. CASE w = {} /\ started = S
  BY <1>1, <1>4 DEF WaitBehindOthers
<1>5. CASE w = {} /\ started # S
  <2>1. Cardinality(r \cup started) # 0
    BY <1>1, <1>5
  <2>2. r \cup started # {}
    BY <2>1, <1>2
  <2> QED BY <1>1, <1>5, <2>2 DEF WaitBehindOthers
<1> QED BY <1>3, <1>4, <1>5

\* When a task ends, either the queue is resumed or tasks go on waiting.
LEMMA EndTaskBackPressure ==
    ASSUME TypeOK, WaitBehindOthers, paused => waiting # {},
           NEW x, NEW S, NEW checks, EndTask(x, S, checks)
    PROVE  WaitBehindOthers' /\ (paused' => waiting' # {})
<1>1. PICK next \in IF waiting = {} THEN {{}} ELSE {{y} : y \in waiting} :
          /\ Submit(S, (running \ {x}) \cup next, waiting \ next)
          /\ \/ next # {} /\ next = waiting /\ Resume
             \/ /\ next = {} \/ next # waiting
                /\ IF checks THEN PauseIfWorkerFull(waiting \ next)
                             ELSE UNCHANGED <<paused, channels>>
                /\ UNCHANGED loop
  BY DEF EndTask
<1>2. next \subseteq waiting /\ (waiting # {} => next # {})
  OBVIOUS
<1>3. WaitBehindOthers' /\ waiting \ next \subseteq waiting'
  BY <1>1, <1>2, SubmitBehindOthers
<1>4. ASSUME paused' PROVE waiting' # {}
  <2>1. CASE next # {} /\ next = waiting /\ Resume
    BY <1>4, <2>1 DEF Resume, TypeOK, BrokerType
  <2>2. CASE next = {} \/ next # waiting
    <3>1. CASE next = {}
      <4>1. waiting = {} /\ ~paused /\ Cardinality(waiting \ next) = 0
        BY <1>2, <3>1, FS_EmptySet
      <4>2. Cardinality(waiting \ next) > PauseAbove
        BY <1>1, <1>4, <3>1, <4>1 DEF PauseIfWorkerFull
      <4> QED BY <4>1, <4>2
    <3>2. CASE next # {} /\ next # waiting
      BY <1>2, <1>3, <3>2
    <3> QED BY <2>2, <3>1, <3>2
  <2> QED BY <1>1, <2>1, <2>2
<1> QED BY <1>3, <1>4

\* Back-pressure always ends: while the queue is paused, tasks wait behind others
\* that run, and the start of the last one resumes it.
THEOREM BackPressure == Spec => []PausedUntilDrain
<1> DEFINE Inv == WaitBehindOthers /\ (Up /\ paused => waiting # {})
<1>1. Init => Inv
  BY DEF Init, BrokerInit, WaitBehindOthers
<1>2. TypeOK /\ Inv /\ [Next]_vars => Inv'
  <2> SUFFICES ASSUME TypeOK, Inv, [Next]_vars PROVE Inv'
    OBVIOUS
  <2>1. ASSUME NEW m \in Messages, Publish(m) PROVE Inv'
    BY <2>1 DEF Publish, pool, WaitBehindOthers, Up
  <2>2. ASSUME NEW m \in Messages, NEW x, NEW S, NEW checks, EndTask(x, S, checks) PROVE Inv'
    <3>1. CASE Up
      BY <2>2, <3>1, EndTaskBackPressure DEF Up
    <3>2. CASE ~Up
      <4>1. PICK next : /\ next \subseteq waiting /\ (waiting # {} => next # {})
                        /\ Submit(S, (running \ {x}) \cup next, waiting \ next)
        <5>1. PICK next \in IF waiting = {} THEN {{}} ELSE {{y} : y \in waiting} :
                 Submit(S, (running \ {x}) \cup next, waiting \ next)
          BY <2>2 DEF EndTask
        <5> QED BY <5>1
      <4>2. WaitBehindOthers'
        BY <4>1, SubmitBehindOthers
      <4>3. ~Up'
        BY <2>2, <3>2 DEF EndTask, Up
      <4> QED BY <4>2, <4>3
    <3> QED BY <3>1, <3>2
  <2>3. ASSUME NEW m \in Messages, TaskEnds(m) PROVE Inv'
    BY <2>2, <2>3 DEF TaskEnds, ProcessEventEnds, DeliveryEnds, DeliveryFails, LastTaskEnds
  <2>4. ASSUME NEW l \in Loops, Wait(l) \/ Fail(l) PROVE Inv'
    BY <2>4 DEF Wait, Tick, ReceiveNothing, Fail, ReceiveFails, pool, WaitBehindOthers, Up
  <2>5. ASSUME NEW l \in Loops, Receive(l) PROVE Inv'
    <3>1. PICK m \in Messages :
             /\ Up /\ UNCHANGED shutdown
             /\ \/ UNCHANGED <<paused, channels, pool>>
                \/ /\ PauseIfWorkerFull(waiting)
                   /\ \E S : Submit(S, running, waiting)
      BY <2>5 DEF Receive
    <3>2. CASE UNCHANGED <<paused, channels, pool>>
      BY <3>1, <3>2 DEF pool, WaitBehindOthers, Up
    <3>3. CASE PauseIfWorkerFull(waiting) /\ \E S : Submit(S, running, waiting)
      <4>1. WaitBehindOthers' /\ waiting \subseteq waiting'
        BY <3>3, SubmitBehindOthers DEF WaitBehindOthers
      <4>2. ASSUME waiting = {} PROVE ~paused'
        <5>1. Cardinality(waiting) = 0 /\ ~paused
          BY <3>1, <4>2, FS_EmptySet
        <5> QED BY <3>3, <5>1 DEF PauseIfWorkerFull
      <4> QED BY <4>1, <4>2
    <3> QED BY <3>1, <3>2, <3>3
  <2>6. CASE Stop \/ TasksFinished \/ BrokerDisconnected
    BY <2>6 DEF Stop, TasksFinished, BrokerDisconnected, Disconnect, broker, pool,
                WaitBehindOthers, Up
  <2>7. CASE Exit \/ Abort
    BY <2>7 DEF Exit, Abort, EndProcess, WaitBehindOthers, Up
  <2>8. CASE UNCHANGED vars
    BY <2>8 DEF vars, broker, pool, WaitBehindOthers, Up
  <2> QED BY <2>1, <2>3, <2>4, <2>5, <2>6, <2>7, <2>8 DEF Next, Ended
<1>3. Inv => PausedUntilDrain
  BY DEF WaitBehindOthers, PausedUntilDrain
<1> QED BY <1>1, <1>2, <1>3, TypeCorrect, PTL DEF Spec

-----------------------------------------------------------------------------
(* Receive loops *)

\* What pause, resume and the pool's drain event do to the loops: none ends, and a
\* queue that is not paused keeps its loops or has just got a new one.
LEMMA FlowKeepsReceiving ==
    ASSUME TypeOK, ReceivesUnlessPaused, NEW w, UNCHANGED closing,
           Resume \/ (PauseIfWorkerFull(w) /\ UNCHANGED loop) \/ UNCHANGED <<paused, channels, loop>>
    PROVE  ReceivesUnlessPaused'
<1>1. CASE Resume
  <2>1. CASE paused
    <3>1. PICK l \in Loops : /\ loop' = [loop EXCEPT ![l] = "tick"]
                             /\ channels' = channels \cup {l}
      BY <1>1, <2>1 DEF Resume
    <3>2. loop'[l] = "tick"
      BY <3>1 DEF TypeOK, BrokerType
    <3> QED BY <3>1, <3>2 DEF ReceivesUnlessPaused
  <2>2. CASE ~paused
    BY <1>1, <2>2 DEF Resume, ReceivesUnlessPaused
  <2> QED BY <2>1, <2>2
<1>2. CASE PauseIfWorkerFull(w) /\ UNCHANGED loop
  BY <1>2 DEF PauseIfWorkerFull, Pause, ReceivesUnlessPaused
<1>3. CASE UNCHANGED <<paused, channels, loop>>
  BY <1>3 DEF ReceivesUnlessPaused
<1> QED BY <1>1, <1>2, <1>3

\* No order of pauses and resumes, with a BRPOP under way, stops the last loop.
THEOREM KeepsReceiving == Spec => []ReceivesUnlessPaused
<1>1. Init => ReceivesUnlessPaused
  <2> SUFFICES ASSUME Init PROVE ReceivesUnlessPaused
    OBVIOUS
  <2>1. PICK l \in Loops : /\ loop = [k \in Loops |-> IF k = l THEN "tick" ELSE "off"]
                           /\ channels = {l}
    BY DEF Init, BrokerInit
  <2> QED BY <2>1 DEF ReceivesUnlessPaused
<1>2. TypeOK /\ ReceivesUnlessPaused /\ [Next]_vars => ReceivesUnlessPaused'
  <2> SUFFICES ASSUME TypeOK, ReceivesUnlessPaused, [Next]_vars
               PROVE  ReceivesUnlessPaused'
    OBVIOUS
  <2>1. ASSUME NEW m \in Messages, Publish(m) PROVE ReceivesUnlessPaused'
    BY <2>1 DEF Publish, ReceivesUnlessPaused
  <2>2. ASSUME NEW x, NEW S, NEW checks, EndTask(x, S, checks) PROVE ReceivesUnlessPaused'
    <3>1. UNCHANGED closing /\ \E w : \/ Resume
                                      \/ PauseIfWorkerFull(w) /\ UNCHANGED loop
                                      \/ UNCHANGED <<paused, channels, loop>>
      BY <2>2 DEF EndTask
    <3> QED BY <3>1, FlowKeepsReceiving
  <2>3. ASSUME NEW m \in Messages, TaskEnds(m) PROVE ReceivesUnlessPaused'
    BY <2>2, <2>3 DEF TaskEnds, ProcessEventEnds, DeliveryEnds, DeliveryFails, LastTaskEnds
  <2>4. ASSUME NEW l \in Loops, Wait(l) \/ Fail(l) PROVE ReceivesUnlessPaused'
    <3>1. /\ UNCHANGED <<channels, paused, closing>>
          /\ ~paused /\ ~closing =>
                \E s \in {"tick", "brpop", "dead"} : loop' = [loop EXCEPT ![l] = s]
      BY <2>4 DEF Wait, Tick, ReceiveNothing, Fail, ReceiveFails
    <3> QED BY <3>1 DEF ReceivesUnlessPaused, TypeOK, BrokerType
  <2>5. ASSUME NEW l \in Loops, Receive(l) PROVE ReceivesUnlessPaused'
    <3>1. /\ UNCHANGED closing
          /\ \E s \in {"tick", "dead"} : loop' = [loop EXCEPT ![l] = s]
          /\ UNCHANGED <<paused, channels>> \/ PauseIfWorkerFull(waiting)
      BY <2>5 DEF Receive
    <3>2. ~paused' => ~paused /\ channels' = channels
      BY <3>1 DEF PauseIfWorkerFull, Pause
    <3> QED BY <3>1, <3>2 DEF ReceivesUnlessPaused, TypeOK, BrokerType
  <2>6. CASE Stop \/ TasksFinished \/ BrokerDisconnected \/ Exit \/ Abort
    BY <2>6 DEF Stop, TasksFinished, BrokerDisconnected, Exit, Abort, EndProcess, Disconnect, broker,
                ReceivesUnlessPaused
  <2>7. CASE UNCHANGED vars
    BY <2>7 DEF vars, broker, ReceivesUnlessPaused
  <2> QED BY <2>1, <2>3, <2>4, <2>5, <2>6, <2>7 DEF Next, Ended
<1> QED BY <1>1, <1>2, TypeCorrect, PTL DEF Spec

-----------------------------------------------------------------------------
(* Handlers *)

\* A task in the pool stays there until it ends, and what is submitted gets there.
LEMMA PoolAfterEnd ==
    ASSUME NEW x, NEW S, NEW checks, EndTask(x, S, checks)
    PROVE  ((running \cup waiting) \ {x}) \cup S \subseteq running' \cup waiting'
<1>1. PICK next \in IF waiting = {} THEN {{}} ELSE {{y} : y \in waiting} :
         Submit(S, (running \ {x}) \cup next, waiting \ next)
  BY DEF EndTask
<1>2. next \subseteq waiting
  OBVIOUS
<1> QED BY <1>1, <1>2 DEF Submit

\* Every handler whose promise is pending waits for a task of its own in the pool.
THEOREM HandlersProgress == Spec => []HandlersHaveTasks
<1>1. Init => HandlersHaveTasks
  BY DEF Init, HandlersHaveTasks, Active, HandlerStages
<1>2. TypeOK /\ HandlersHaveTasks /\ [Next]_vars => HandlersHaveTasks'
  <2> SUFFICES ASSUME TypeOK, HandlersHaveTasks, [Next]_vars,
                      NEW n \in Messages, stage'[n] \in HandlerStages
               PROVE  \E t \in WorkerTasks : <<n, t>> \in running' \cup waiting'
    BY DEF HandlersHaveTasks, Active
  <2> DEFINE Goal == \E t \in WorkerTasks : <<n, t>> \in running' \cup waiting'
  <2>0. ASSUME stage[n] \in HandlerStages
        PROVE  \E t \in WorkerTasks : <<n, t>> \in running \cup waiting
    BY <2>0 DEF HandlersHaveTasks, Active
  <2>1. ASSUME NEW m \in Messages, Publish(m) PROVE Goal
    BY <2>0, <2>1 DEF Publish, Goto, pool, TypeOK, HandlerStages
  <2>2. ASSUME NEW m \in Messages, n # m, NEW t, NEW S, NEW checks,
               EndTask(<<m, t>>, S, checks), stage'[n] = stage[n]
        PROVE  Goal
    <3>1. PICK u \in WorkerTasks : <<n, u>> \in running \cup waiting
      BY <2>0, <2>2
    <3>2. <<n, u>> # <<m, t>>
      BY <2>2
    <3> QED BY <2>2, <3>1, <3>2, PoolAfterEnd
  <2>3. ASSUME NEW m \in Messages, ProcessEventEnds(m) PROVE Goal
    <3>1. CASE n = m
      <4>1. EndTask(<<m, "processEvent">>, Deliveries(m), TRUE)
        BY <2>3, <3>1 DEF ProcessEventEnds, Goto, TypeOK, HandlerStages
      <4>2. Deliveries(m) \subseteq running' \cup waiting'
        BY <4>1, PoolAfterEnd
      <4> QED BY <3>1, <4>2 DEF Deliveries, WorkerTasks
    <3>2. CASE n # m
      <4>1. stage'[n] = stage[n]
        BY <2>3, <3>2 DEF ProcessEventEnds, Goto, TypeOK
      <4> QED BY <2>2, <2>3, <3>2, <4>1 DEF ProcessEventEnds
    <3> QED BY <3>1, <3>2
  <2>4. ASSUME NEW m \in Messages, NEW t \in {"ingestEvent", "onEvent"}, DeliveryEnds(m, t)
        PROVE  Goal
    <3>1. CASE n = m
      <4>1. CASE EndTask(<<m, t>>, {<<m, "onAction">>}, FALSE)
        BY <3>1, <4>1, PoolAfterEnd DEF WorkerTasks
      <4>2. CASE /\ Deliveries(m) \cap (running \cup waiting) # {<<m, t>>}
                 /\ EndTask(<<m, t>>, {}, FALSE)
        <5>1. <<m, t>> \in Deliveries(m) \cap (running \cup waiting)
          BY <4>2 DEF EndTask, Deliveries
        <5>2. PICK y \in Deliveries(m) \cap (running \cup waiting) : y # <<m, t>>
          BY <4>2, <5>1
        <5>3. y \in running' \cup waiting'
          BY <4>2, <5>2, PoolAfterEnd
        <5> QED BY <3>1, <5>2, <5>3 DEF Deliveries, WorkerTasks
      <4>3. stage'[m] # "done"
        BY <3>1 DEF HandlerStages
      <4>4. stage[m] # "done"
        BY <2>4, <4>3 DEF DeliveryEnds, DeliveryFails
      <4>5. ~Goto(m, "done")
        BY <4>3 DEF Goto, TypeOK
      <4> QED BY <2>4, <4>1, <4>2, <4>4, <4>5 DEF DeliveryEnds, DeliveryFails
    <3>2. CASE n # m
      <4>1. stage'[n] = stage[n]
        BY <2>4, <3>2 DEF DeliveryEnds, DeliveryFails, Goto, TypeOK
      <4> QED BY <2>2, <2>4, <3>2, <4>1 DEF DeliveryEnds, DeliveryFails
    <3> QED BY <3>1, <3>2
  <2>5. ASSUME NEW m \in Messages, NEW t \in {"onAction", "enqueueJob"}, LastTaskEnds(m, t)
        PROVE  Goal
    <3>1. n # m /\ stage'[n] = stage[n]
      BY <2>5 DEF LastTaskEnds, Goto, TypeOK, HandlerStages
    <3> QED BY <2>2, <2>5, <3>1 DEF LastTaskEnds
  <2>6. ASSUME NEW l \in Loops, Wait(l) \/ Fail(l) PROVE Goal
    BY <2>0, <2>6 DEF Wait, Fail, pool
  <2>7. ASSUME NEW l \in Loops, Receive(l) PROVE Goal
    <3>1. PICK m \in Messages :
             \/ Goto(m, "dropped") /\ UNCHANGED pool
             \/ \E S \in {{<<m, "processEvent">>}, Deliveries(m), {<<m, "enqueueJob">>}},
                   s \in HandlerStages : Submit(S, running, waiting) /\ Goto(m, s)
      BY <2>7 DEF Receive, HandlerStages
    <3>2. CASE Goto(m, "dropped") /\ UNCHANGED pool
      BY <2>0, <3>2 DEF Goto, pool, TypeOK, HandlerStages
    <3>3. ASSUME NEW S \in {{<<m, "processEvent">>}, Deliveries(m), {<<m, "enqueueJob">>}},
                 NEW s, Submit(S, running, waiting), Goto(m, s)
          PROVE  Goal
      <4>1. running \cup waiting \cup S \subseteq running' \cup waiting'
        BY <3>3 DEF Submit
      <4>2. CASE n = m
        BY <3>3, <4>1, <4>2 DEF Deliveries, WorkerTasks
      <4>3. CASE n # m
        <5>1. stage'[n] = stage[n]
          BY <3>3, <4>3 DEF Goto, TypeOK
        <5> QED BY <2>0, <4>1, <5>1
      <4> QED BY <4>2, <4>3
    <3> QED BY <3>1, <3>2, <3>3
  <2>8. CASE Stop \/ TasksFinished \/ BrokerDisconnected
    BY <2>0, <2>8 DEF Stop, TasksFinished, BrokerDisconnected, pool
  <2>9. CASE Exit \/ Abort
    BY <2>9 DEF Exit, Abort, EndProcess, Active, HandlerStages
  <2>10. CASE UNCHANGED vars
    BY <2>0, <2>10 DEF vars, pool
  <2> QED BY <2>1, <2>3, <2>4, <2>5, <2>6, <2>7, <2>8, <2>9, <2>10 DEF Next, Ended, TaskEnds
<1> QED BY <1>1, <1>2, TypeCorrect, PTL DEF Spec
=============================================================================
