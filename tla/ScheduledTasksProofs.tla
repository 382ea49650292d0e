------------------------- MODULE ScheduledTasksProofs -------------------------
(***************************************************************************)
(* Proofs about ScheduledTasks, for any number of servers and tasks.       *)
(***************************************************************************)
EXTENDS ScheduledTasks, TLAPS

\* Only the server whose key is in Redis carries its value, and not before the
\* answer has come.
TokensMatch ==
    \A s \in Servers :
        /\ token[s] # {} => key = s
        /\ stage[s] = "granted" => token[s] = {}

\* A server that thinks it has the lock, or is about to be told, has the key unless
\* it has expired.
OwnersKnown ==
    \A s \in Servers \ late :
        (s \in has /\ Up(s)) \/ stage[s] = "granted" => key = s

\* Tasks run, and ticks wait, on servers that have the lock or have been stopped; once
\* its connection is closed a server waits for all tasks that run.
TasksCovered ==
    \A s \in Servers :
        /\ running[s] # {} => s \in has \/ ~Up(s)
        /\ s \in ticking => (s \in has /\ Up(s)) \/ (s \in caught /\ ~Up(s))
        /\ stop[s] = "closed" /\ s \notin caught => running[s] \subseteq awaited[s]
        /\ stop[s] = "stopped" /\ s \notin caught => running[s] = {}

Inv == TypeOK /\ TokensMatch /\ OwnersKnown /\ TasksCovered

\* What the steps of the lock leave alone.
LEMMA LockTypes ==
    ASSUME RedlockConstants, TypeOK, NEW s \in Servers, LockStep(s) \/ GotLock(s) \/ StopLock(s) \/ Close(s) \/ Die(s)
    PROVE  RedlockType'
<1> USE RedlockConstants DEF TypeOK, RedlockType, At, StopAt, Then, Up, LockStages, StopStages, Carriers
<1>1. CASE TryLock(s) \/ Grant(s) \/ Refuse(s) \/ LoseReply(s)
  BY <1>1 DEF TryLock, Grant, Refuse, LoseReply
<1>2. CASE ExtendStart(s) \/ Extended(s) \/ ExtendFails(s)
  BY <1>2 DEF ExtendStart, Extended, ExtendFails
<1>3. CASE Unlock(s) \/ GotLock(s) \/ StopLock(s)
  BY <1>3 DEF Unlock, GotLock, StopLock
<1>4. CASE Close(s) \/ Die(s)
  BY <1>4 DEF Close, Die
<1> QED BY <1>1, <1>2, <1>3, <1>4 DEF LockStep

\* Every variable keeps its type.
THEOREM TypeCorrect == Spec => []TypeOK
<1> USE RedlockConstants
<1>1. Init => TypeOK
  BY DEF Init, RedlockInit, TypeOK, RedlockType, LockStages, StopStages, Carriers, ScheduleStages
<1>2. TypeOK /\ [Next]_vars => TypeOK'
  <2> SUFFICES ASSUME TypeOK, [Next]_vars PROVE TypeOK'
    OBVIOUS
  <2>1. CASE KeyExpires
    BY <2>1 DEF KeyExpires, Expire, TypeOK, RedlockType, scheduleVars, Carriers
  <2>2. ASSUME NEW s \in Servers, Lock(s) PROVE TypeOK'
    BY <2>2, LockTypes DEF Lock, scheduleVars, TypeOK
  <2>3. ASSUME NEW s \in Servers, Locked(s) \/ StopSchedule(s) PROVE TypeOK'
    BY <2>3, LockTypes DEF Locked, StopSchedule, TypeOK
  <2>4. ASSUME NEW s \in Servers, Unlocked(s) \/ Killed(s) PROVE TypeOK'
    BY <2>4, LockTypes DEF Unlocked, Killed, ToAwait, TypeOK, ScheduleStages
  <2>5. ASSUME NEW s \in Servers, Tick(s) \/ TickWaits(s) \/ TaskEnds(s) PROVE TypeOK'
    BY <2>5 DEF Tick, TickWaits, TaskEnds, Run, TypeOK, RedlockType, redlockVars
  <2>6. ASSUME NEW s \in Servers, TaskFails(s) PROVE TypeOK'
    BY <2>6 DEF TaskFails, StopAt, StopStages, TypeOK, RedlockType
  <2>7. ASSUME NEW s \in Servers, Reload(s) \/ Loaded(s) \/ LoadFails(s) PROVE TypeOK'
    BY <2>7 DEF Reload, Loaded, LoadFails, Run, TypeOK, RedlockType, redlockVars, ScheduleStages
  <2>8. ASSUME NEW s \in Servers, TasksFinished(s) PROVE TypeOK'
    BY <2>8 DEF TasksFinished, StopAt, StopStages, TypeOK, RedlockType, scheduleVars
  <2>9. CASE UNCHANGED vars
    BY <2>9 DEF vars, redlockVars, scheduleVars, TypeOK, RedlockType
  <2> QED BY <2>1, <2>2, <2>3, <2>4, <2>5, <2>6, <2>7, <2>8, <2>9 DEF Next
<1> QED BY <1>1, <1>2, PTL DEF Spec

-----------------------------------------------------------------------------
(* The lock *)

\* The part of the invariant that is about the lock; it does not depend on tasks.
LockInv == TokensMatch /\ OwnersKnown

\* Commands of the lock keep it.
LEMMA LockStepKeeps ==
    ASSUME RedlockConstants, TypeOK, LockInv, NEW s \in Servers, LockStep(s), UNCHANGED has
    PROVE  LockInv'
<1> USE RedlockConstants DEF LockInv, TypeOK, RedlockType
<1>1. CASE TryLock(s) \/ Refuse(s) \/ LoseReply(s) \/ ExtendStart(s) \/ Extended(s) \/ ExtendFails(s)
  <2>1. /\ UNCHANGED <<key, token, stop, late>>
        /\ \A r \in Servers : stage'[r] = "granted" => stage[r] = "granted"
    BY <1>1 DEF TryLock, Refuse, LoseReply, ExtendStart, Extended, ExtendFails, At, Then, Up
  <2> QED BY <2>1 DEF TokensMatch, OwnersKnown, Up
<1>2. CASE Grant(s)
  <2>1. TokensMatch'
    BY <1>2 DEF Grant, KeyFree, At, TokensMatch
  <2>2. OwnersKnown'
    BY <1>2 DEF Grant, KeyFree, At, OwnersKnown, Up
  <2> QED BY <2>1, <2>2
<1>3. CASE Unlock(s)
  <2>1. UNCHANGED <<stage, late>> /\ stop' = [stop EXCEPT ![s] = "quitting"] /\ ~Up(s)
    BY <1>3 DEF Unlock, StopAt, Up
  <2>2. CASE "unlock" \in token[s]
    <3>1. key' = NoServer /\ token' = [token EXCEPT ![s] = {}] /\ key = s
      BY <1>3, <2>2 DEF Unlock, TokensMatch
    <3>2. TokensMatch'
      BY <2>1, <3>1 DEF TokensMatch
    <3>3. stage[s] # "granted"
      BY <2>2 DEF TokensMatch
    <3>4. OwnersKnown'
      BY <2>1, <3>1, <3>3 DEF OwnersKnown, Up
    <3> QED BY <3>2, <3>4
  <2>3. CASE "unlock" \notin token[s]
    <3>1. UNCHANGED <<key, token>>
      BY <1>3, <2>3 DEF Unlock
    <3> QED BY <2>1, <3>1 DEF TokensMatch, OwnersKnown, Up
  <2> QED BY <2>2, <2>3
<1> QED BY <1>1, <1>2, <1>3 DEF LockStep

\* So do the expiry of the key and what calls back.
LEMMA CallbacksKeep ==
    ASSUME RedlockConstants, TypeOK, LockInv, NEW s \in Servers,
           \/ KeyExpires \/ Locked(s) \/ StopSchedule(s) \/ Unlocked(s) \/ Killed(s)
    PROVE  LockInv'
<1> USE RedlockConstants DEF LockInv, TypeOK, RedlockType
<1>1. CASE KeyExpires
  BY <1>1 DEF KeyExpires, Expire, scheduleVars, TokensMatch, OwnersKnown, Up
<1>2. CASE Locked(s)
  <2>1. UNCHANGED <<key, stop, late>> /\ has' = has \cup {s} /\ stage[s] = "granted"
        /\ stage' = [stage EXCEPT ![s] = IF Up(s) THEN "holding" ELSE "off"]
    BY <1>2 DEF Locked, GotLock, Then, At
  <2>2. TokensMatch'
    BY <1>2, <2>1 DEF Locked, GotLock, TokensMatch
  <2>3. OwnersKnown'
    BY <2>1 DEF OwnersKnown, Up
  <2> QED BY <2>2, <2>3
<1>3. CASE StopSchedule(s)
  BY <1>3 DEF StopSchedule, StopLock, At, StopAt, TokensMatch, OwnersKnown, Up
<1>4. CASE Unlocked(s)
  BY <1>4 DEF Unlocked, Close, At, StopAt, TokensMatch, OwnersKnown, Up
<1>5. CASE Killed(s)
  BY <1>5 DEF Killed, Die, At, StopAt, TokensMatch, OwnersKnown, Up
<1> QED BY <1>1, <1>2, <1>3, <1>4, <1>5

-----------------------------------------------------------------------------
(* The tasks *)

\* Steps of the lock alone leave the tasks covered.
LEMMA LockKeepsTasks ==
    ASSUME RedlockConstants, TypeOK, TasksCovered, NEW s \in Servers, Lock(s) \/ KeyExpires
    PROVE  TasksCovered'
<1>1. UNCHANGED scheduleVars
  BY DEF Lock, KeyExpires
<1>2. \A r \in Servers : stop'[r] = stop[r] \/ (stop[r] = "unlocking" /\ stop'[r] = "quitting")
  BY DEF Lock, LockStep, KeyExpires, Expire, TryLock, Grant, Refuse, LoseReply, ExtendStart, Extended,
     ExtendFails, Unlock, StopAt, TypeOK, RedlockType
<1> QED BY <1>1, <1>2 DEF TasksCovered, Up, scheduleVars

\* Steps of tasks, ticks and the schedule leave them covered.
LEMMA TasksKeep ==
    ASSUME RedlockConstants, TypeOK, TasksCovered, NEW s \in Servers,
           \/ Tick(s) \/ TickWaits(s) \/ TaskEnds(s) \/ TaskFails(s)
           \/ Reload(s) \/ Loaded(s) \/ LoadFails(s)
    PROVE  TasksCovered'
<1> USE RedlockConstants DEF TypeOK, RedlockType
<1>1. CASE Tick(s)
  BY <1>1 DEF Tick, MayTick, Run, TasksCovered, Up, redlockVars
<1>2. CASE TickWaits(s)
  BY <1>2 DEF TickWaits, MayTick, TasksCovered, Up, redlockVars
<1>3. CASE TaskEnds(s)
  BY <1>3 DEF TaskEnds, TasksCovered, Up, redlockVars
<1>4. CASE TaskFails(s)
  <2>1. PICK t \in running[s] :
            /\ running' = [running EXCEPT ![s] = @ \ {t}]
            /\ awaited' = [awaited EXCEPT ![s] = @ \ {t}]
            /\ stop' = stop \/ (stop[s] = "closed" /\ stop' = [stop EXCEPT ![s] = "aborted"])
    BY <1>4 DEF TaskFails, StopAt
  <2>2. UNCHANGED <<has, ticking, caught>>
    BY <1>4 DEF TaskFails
  <2> QED BY <2>1, <2>2 DEF TasksCovered, Up
<1>5. CASE Reload(s) \/ LoadFails(s)
  BY <1>5 DEF Reload, LoadFails, TasksCovered, Up, redlockVars
<1>6. CASE Loaded(s)
  <2>1. CASE s \in ticking
    <3>1. UNCHANGED <<has, stop, awaited, caught>> /\ ticking' = ticking \ {s}
      BY <1>6 DEF Loaded, redlockVars
    <3>2. \A r \in Servers \ {s} : running'[r] = running[r]
      BY <1>6, <2>1 DEF Loaded, Run
    <3>3. (s \in has /\ Up(s)) \/ (s \in caught /\ ~Up(s))
      BY <2>1 DEF TasksCovered
    <3>4. \A r \in ticking' : (r \in has' /\ Up(r)') \/ (r \in caught' /\ ~Up(r)')
      BY <3>1 DEF TasksCovered, Up
    <3>5. \A r \in Servers \ {s} :
             /\ running'[r] # {} => r \in has' \/ ~Up(r)'
             /\ stop'[r] = "closed" /\ r \notin caught' => running'[r] \subseteq awaited'[r]
             /\ stop'[r] = "stopped" /\ r \notin caught' => running'[r] = {}
      BY <3>1, <3>2 DEF TasksCovered, Up
    <3>6. s \notin caught => s \in has /\ stop[s] = "up"
      BY <3>3 DEF Up
    <3>7. s \in has' \/ ~Up(s)'
      BY <3>1, <3>3 DEF Up
    <3> QED BY <3>1, <3>4, <3>5, <3>6, <3>7 DEF TasksCovered
  <2>2. CASE s \notin ticking
    BY <1>6, <2>2 DEF Loaded, TasksCovered, Up, redlockVars
  <2> QED BY <2>1, <2>2
<1> QED BY <1>1, <1>2, <1>3, <1>4, <1>5, <1>6

\* Starting and stopping leave them covered.
LEMMA StopKeeps ==
    ASSUME RedlockConstants, TypeOK, TasksCovered, NEW s \in Servers,
           Locked(s) \/ StopSchedule(s) \/ Unlocked(s) \/ TasksFinished(s) \/ Killed(s)
    PROVE  TasksCovered'
<1> USE RedlockConstants DEF TypeOK, RedlockType
<1>1. CASE Locked(s)
  BY <1>1 DEF Locked, GotLock, TasksCovered, Up
<1>2. CASE StopSchedule(s)
  <2>1. /\ UNCHANGED <<has, running, awaited, ticking>>
        /\ stop' = [stop EXCEPT ![s] = "unlocking"]
        /\ caught \subseteq caught' /\ (s \in ticking => s \in caught')
    BY <1>2 DEF StopSchedule, StopLock, StopAt
  <2> QED BY <2>1 DEF TasksCovered, Up
<1>3. CASE Unlocked(s)
  BY <1>3 DEF Unlocked, Close, ToAwait, StopAt, TasksCovered, Up
<1>4. CASE TasksFinished(s)
  BY <1>4 DEF TasksFinished, StopAt, TasksCovered, Up, scheduleVars
<1>5. CASE Killed(s)
  BY <1>5 DEF Killed, Die, StopAt, TasksCovered, Up
<1> QED BY <1>1, <1>2, <1>3, <1>4, <1>5

-----------------------------------------------------------------------------
\* The inductive invariant.
THEOREM Invariance == Spec => []Inv
<1> USE RedlockConstants
<1>1. Init => LockInv /\ TasksCovered
  BY DEF Init, RedlockInit, LockInv, TokensMatch, OwnersKnown, TasksCovered, Up
<1>2. TypeOK /\ LockInv /\ TasksCovered /\ [Next]_vars => LockInv' /\ TasksCovered'
  <2> SUFFICES ASSUME TypeOK, LockInv, TasksCovered, [Next]_vars PROVE LockInv' /\ TasksCovered'
    OBVIOUS
  <2>1. CASE KeyExpires
    <3>1. CASE Servers = {}
      BY <2>1, <3>1 DEF KeyExpires, Expire, TypeOK, RedlockType
    <3>2. CASE Servers # {}
      <4>1. PICK s \in Servers : TRUE
        BY <3>2
      <4> QED BY <2>1, <4>1, CallbacksKeep, LockKeepsTasks
    <3> QED BY <3>1, <3>2
  <2>2. ASSUME NEW s \in Servers, Lock(s) PROVE LockInv' /\ TasksCovered'
    <3>1. LockStep(s) /\ UNCHANGED has
      BY <2>2 DEF Lock, scheduleVars
    <3> QED BY <2>2, <3>1, LockStepKeeps, LockKeepsTasks
  <2>3. ASSUME NEW s \in Servers, Locked(s) \/ StopSchedule(s) \/ Unlocked(s) \/ Killed(s)
        PROVE  LockInv' /\ TasksCovered'
    BY <2>3, CallbacksKeep, StopKeeps
  <2>4. ASSUME NEW s \in Servers,
               \/ Tick(s) \/ TickWaits(s) \/ TaskEnds(s) \/ TaskFails(s)
               \/ Reload(s) \/ Loaded(s) \/ LoadFails(s)
        PROVE  LockInv' /\ TasksCovered'
    <3>1. /\ UNCHANGED <<key, token, stage, late, has>>
          /\ \A r \in Servers : stop'[r] = "up" => stop[r] = "up"
      BY <2>4 DEF Tick, TickWaits, TaskEnds, TaskFails, Reload, Loaded, LoadFails, redlockVars, StopAt,
         TypeOK, RedlockType
    <3>2. LockInv'
      BY <3>1 DEF LockInv, TokensMatch, OwnersKnown, Up
    <3> QED BY <2>4, <3>2, TasksKeep
  <2>5. ASSUME NEW s \in Servers, TasksFinished(s) PROVE LockInv' /\ TasksCovered'
    <3>1. LockInv'
      BY <2>5 DEF TasksFinished, StopAt, scheduleVars, LockInv, TokensMatch, OwnersKnown, Up, TypeOK,
         RedlockType
    <3> QED BY <2>5, <3>1, StopKeeps
  <2>6. CASE UNCHANGED vars
    BY <2>6 DEF vars, redlockVars, scheduleVars, LockInv, TokensMatch, OwnersKnown, TasksCovered, Up
  <2> QED BY <2>1, <2>2, <2>3, <2>4, <2>5, <2>6 DEF Next
<1> QED BY <1>1, <1>2, TypeCorrect, PTL DEF Spec, Inv, LockInv

\* Servers overlap only when a lock has expired or is being given back.
THEOREM MutualExclusion == Spec => []OneServerUnlessLost
<1>1. RedlockConstants /\ Inv => OneServerUnlessLost
  BY DEF Inv, OwnersKnown, TasksCovered, OneServerUnlessLost
<1> QED BY <1>1, RedlockConstants, Invariance, PTL

\* A stopped schedule is quiet.
THEOREM QuietAfterStop == Spec => []StoppedIsQuiet
<1>1. Inv => StoppedIsQuiet
  BY DEF Inv, TasksCovered, StoppedIsQuiet
<1> QED BY <1>1, Invariance, PTL
=============================================================================
