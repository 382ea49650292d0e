--------------------------- MODULE JobQueuesProofs ---------------------------
(***************************************************************************)
(* Proofs about JobQueues for any number of servers and jobs, any pauses,  *)
(* and any servers whose calls may fail: type correctness, that one turn   *)
(* of an S3Queue polls, that a GraphileQueue at rest has its runner, and   *)
(* that S3 keeps a job until it has run.                                   *)
(***************************************************************************)
EXTENDS JobQueues, FiniteSetTheorems, TLAPS

USE JobQueueConstants DEF JobQueueConstants

-----------------------------------------------------------------------------
(* Turns and keys *)

\* The turns are numbers from 1, so none of them is None.
LEMMA TurnNumbers ==
    /\ None \notin Turns /\ 1 \in Turns
    /\ TypeOK => \A s \in Servers : NewTurn(s) \in Turns
  BY DEF None, Turns, TypeOK, NewTurn

\* A set of numbers has a least one.
LEMMA MinMember ==
    ASSUME NEW S \in SUBSET Nat, S # {}
    PROVE  Min(S) \in S
<1>1. \E m \in S : \A k \in S : ~(<<k, m>> \in OpToRel(<, Nat))
  BY NatLessThanWellFounded, WFMin
<1>2. \A k, m \in Nat : ~(<<k, m>> \in OpToRel(<, Nat)) => m <= k
  BY DEF OpToRel
<1>3. \E m \in S : \A k \in S : m <= k
  BY <1>1, <1>2
<1> QED BY <1>3 DEF Min

\* The object that a turn is at is one of those it has listed.
LEMMA FirstListed ==
    ASSUME TypeOK, NEW s \in Servers, NEW n \in Turns, todo[s][n] # {}
    PROVE  First(s, n) \in todo[s][n] /\ First(s, n) \in Jobs
<1>1. todo[s][n] \in SUBSET Jobs
  BY DEF TypeOK
<1>2. todo[s][n] \in SUBSET Nat
  BY <1>1
<1> QED BY <1>1, <1>2, MinMember DEF First

-----------------------------------------------------------------------------
(* Type correctness *)

\* The stages of an S3Queue's turns, with what they have listed: only a queue that is
\* configured has turns, and a turn that handles an object has one.
Fits(stages, listed) ==
    \A n \in Turns :
        /\ stages[n] # "none" => "s3" \in queues
        /\ stages[n] \in {"get", "run", "delete"} => listed[n] # {}

\* Both queues of every server.
Configured ==
    \A s \in Servers :
        /\ \A n \in Turns : stage[s][n] # "none" => "graphile" \in queues
        /\ Fits(loop[s], todo[s])

\* What a turn that goes on, one that is cleared and one that begins have in common.
LEMMA ClearedFits ==
    ASSUME NEW s \in Servers, NEW turns \in [Turns -> LoopStages],
           Fits(turns, todo[s])
    PROVE  /\ Cleared(s, turns) \in [Turns -> LoopStages]
           /\ Fits(Cleared(s, turns), todo[s])
  BY DEF Cleared, LoopStages, Fits

\* The variables syncState writes keep their types, and the queues what is configured.
LEMMA SyncType ==
    ASSUME TypeOK, Configured, NEW s \in Servers, NEW on, NEW turns \in [Turns -> LoopStages],
           Fits(turns, todo[s]), Sync(s, on, turns), queues' = queues, todo' = todo
    PROVE  /\ runner' \in [Servers -> Turns \cup {None}]
           /\ consumerPool' = consumerPool /\ open' = open
           /\ stage' \in [Servers -> [Turns -> RunnerStages]]
           /\ loop' \in [Servers -> [Turns -> LoopStages]]
           /\ overlapped' \in SUBSET Servers /\ rejoined' \in SUBSET Servers
           /\ Configured'
<1>1. NewTurn(s) \in Turns
  BY TurnNumbers
<1>2. /\ stage \in [Servers -> [Turns -> RunnerStages]]
      /\ runner \in [Servers -> Turns \cup {None}]
      /\ overlapped \in SUBSET Servers
  BY DEF TypeOK
<1>3. /\ loop \in [Servers -> [Turns -> LoopStages]] /\ rejoined \in SUBSET Servers
  BY DEF TypeOK
<1>4. /\ runner' \in [Servers -> Turns \cup {None}]
      /\ stage' \in [Servers -> [Turns -> RunnerStages]]
      /\ consumerPool' = consumerPool /\ open' = open
      /\ overlapped' \in SUBSET Servers
  <2> DEFINE t == NewTurn(s)
  <2>1. t \in Turns /\ (runner[s] # None => runner[s] \in Turns)
    BY <1>1, <1>2
  <2>2. \/ stage' = stage
        \/ stage' = [stage EXCEPT ![s][t] = "pool"]
        \/ runner[s] # None /\ stage' = [stage EXCEPT ![s][runner[s]] = "halting"]
    BY DEF Sync, SyncGraphile
  <2> HIDE DEF t
  <2>3. stage' \in [Servers -> [Turns -> RunnerStages]]
    BY <1>2, <2>1, <2>2 DEF RunnerStages
  <2>4. runner' = runner \/ runner' = [runner EXCEPT ![s] = None]
    BY DEF Sync, SyncGraphile
  <2>5. runner' \in [Servers -> Turns \cup {None}]
    BY <1>2, <2>4
  <2> QED BY <1>2, <2>3, <2>5 DEF Sync, SyncGraphile
<1>5. \A r \in Servers, n \in Turns : stage'[r][n] # "none" => "graphile" \in queues
  BY <1>1, <1>2 DEF Sync, SyncGraphile, Configured
<1> DEFINE cleared == Cleared(s, turns)
<1>6. cleared \in [Turns -> LoopStages] /\ Fits(cleared, todo[s])
  BY ClearedFits
<1>7. PICK new \in [Turns -> LoopStages] :
          loop' = [loop EXCEPT ![s] = new] /\ Fits(new, todo[s])
  <2> HIDE DEF cleared
  <2>1. CASE on /\ "s3" \in queues
    <3>1. loop' = [loop EXCEPT ![s] = [cleared EXCEPT ![NewTurn(s)] = "list"]]
      BY <2>1 DEF Sync, SyncS3, cleared
    <3>2. [cleared EXCEPT ![NewTurn(s)] = "list"] \in [Turns -> LoopStages]
      BY <1>1, <1>6 DEF LoopStages
    <3>3. Fits([cleared EXCEPT ![NewTurn(s)] = "list"], todo[s])
      BY <1>1, <1>6, <2>1 DEF Fits
    <3> QED BY <3>1, <3>2, <3>3
  <2>2. CASE ~(on /\ "s3" \in queues)
    BY <1>6, <2>2 DEF Sync, SyncS3, cleared
  <2> QED BY <2>1, <2>2
<1>8. loop' \in [Servers -> [Turns -> LoopStages]]
  BY <1>3, <1>7
<1>9. \A r \in Servers : Fits(loop[r], todo[r])'
  BY <1>3, <1>7 DEF Fits, Configured
<1>10. rejoined' \in SUBSET Servers
  BY <1>3 DEF Sync, SyncS3
<1> QED BY <1>4, <1>5, <1>8, <1>9, <1>10 DEF Configured

\* So does onJob.
LEMMA OnJobType ==
    ASSUME TypeOK, Configured, NEW s \in Servers, NEW turns \in [Turns -> LoopStages],
           Fits(turns, todo[s]), OnJob(s, turns), queues' = queues, todo' = todo
    PROVE  /\ paused' \in SUBSET Servers /\ pauses' \in [Servers -> 0 .. MaxPauses]
           /\ runner' \in [Servers -> Turns \cup {None}]
           /\ consumerPool' = consumerPool /\ open' = open
           /\ stage' \in [Servers -> [Turns -> RunnerStages]]
           /\ loop' \in [Servers -> [Turns -> LoopStages]]
           /\ overlapped' \in SUBSET Servers /\ rejoined' \in SUBSET Servers
           /\ Configured'
<1>1. CASE /\ s \in MayPause /\ pauses[s] < MaxPauses
           /\ paused' = paused \cup {s}
           /\ pauses' = [pauses EXCEPT ![s] = @ + 1]
           /\ Sync(s, FALSE, turns)
  <2>1. paused' \in SUBSET Servers /\ pauses' \in [Servers -> 0 .. MaxPauses]
    BY <1>1 DEF TypeOK
  <2> QED BY <1>1, <2>1, SyncType
<1>2. CASE /\ loop' = [loop EXCEPT ![s] = turns]
           /\ UNCHANGED <<paused, pauses, graphileVars, overlapped, rejoined>>
  <2>1. loop' \in [Servers -> [Turns -> LoopStages]]
    BY <1>2 DEF TypeOK
  <2>2. Configured'
    BY <1>2 DEF Configured, Fits, TypeOK, graphileVars
  <2> QED BY <1>2, <2>1, <2>2 DEF TypeOK, graphileVars
<1> QED BY <1>1, <1>2 DEF OnJob

\* The calls of the consumer.
LEMMA CallsType ==
    ASSUME TypeOK, Configured, NEW s \in Servers,
           StartConsumer(s) \/ StopConsumer(s) \/ ResumeConsumer(s)
    PROVE  TypeOK' /\ Configured'
<1>1. loop[s] \in [Turns -> LoopStages] /\ Fits(loop[s], todo[s])
  BY DEF TypeOK, Configured
<1>2. queues' = queues /\ todo' = todo /\ \E on : Sync(s, on, loop[s])
  BY DEF StartConsumer, StopConsumer, ResumeConsumer
<1>3. /\ runner' \in [Servers -> Turns \cup {None}]
      /\ consumerPool' = consumerPool /\ open' = open
      /\ stage' \in [Servers -> [Turns -> RunnerStages]]
      /\ loop' \in [Servers -> [Turns -> LoopStages]]
      /\ overlapped' \in SUBSET Servers /\ rejoined' \in SUBSET Servers
      /\ Configured'
  BY <1>1, <1>2, SyncType
<1>4. started' \in SUBSET Servers /\ paused' \in SUBSET Servers /\ life' \in [Servers -> Lives]
  <2>1. started \in SUBSET Servers /\ paused \in SUBSET Servers /\ life \in [Servers -> Lives]
    BY DEF TypeOK
  <2>2. life' = life \/ life' = [life EXCEPT ![s] = "stopping"]
    BY DEF StartConsumer, StopConsumer, ResumeConsumer, callVars
  <2>3. life' \in [Servers -> Lives]
    BY <2>1, <2>2 DEF Lives
  <2> QED BY <2>1, <2>3 DEF StartConsumer, StopConsumer, ResumeConsumer
<1>5. UNCHANGED <<queues, store, ran, pauses, taken, timeout, todo, cut>>
  BY DEF StartConsumer, StopConsumer, ResumeConsumer
<1> QED BY <1>3, <1>4, <1>5 DEF TypeOK

\* GraphileQueue.
LEMMA GraphileType ==
    ASSUME TypeOK, Configured, NEW s \in Servers, NEW n \in Turns, GraphileStep(s, n)
    PROVE  TypeOK' /\ Configured'
<1>0. /\ stage \in [Servers -> [Turns -> RunnerStages]]
      /\ open \in [Servers -> SUBSET Turns]
      /\ runner \in [Servers -> Turns \cup {None}]
      /\ consumerPool \in [Servers -> Turns \cup {None}]
  BY DEF TypeOK
<1>1. CASE PoolCreated(s, n) \/ RunStarted(s, n) \/ RunFails(s, n) \/ Halted(s, n)
  <2>1. PICK x \in RunnerStages : stage' = [stage EXCEPT ![s][n] = x]
    BY <1>1 DEF PoolCreated, RunStarted, RunFails, Halted, RunnerStages
  <2>2. stage' \in [Servers -> [Turns -> RunnerStages]]
    BY <1>0, <2>1
  <2>3. stage[s][n] # "none"
    BY <1>1 DEF PoolCreated, RunStarted, RunFails, Halted
  <2>4. UNCHANGED <<queues, store, ran, callVars, taken, s3Vars, overlapped, rejoined>>
    BY <1>1 DEF PoolCreated, RunStarted, RunFails, Halted, history
  <2>5. /\ runner' \in [Servers -> Turns \cup {None}]
        /\ consumerPool' \in [Servers -> Turns \cup {None}]
        /\ open' \in [Servers -> SUBSET Turns]
        /\ cut' \in SUBSET Servers
    <3>1. cut \in SUBSET Servers
      BY DEF TypeOK
    <3>2. CASE PoolCreated(s, n)
      BY <1>0, <3>1, <3>2 DEF PoolCreated, history
    <3>3. CASE RunStarted(s, n) \/ RunFails(s, n)
      BY <1>0, <3>1, <3>3 DEF RunStarted, RunFails, history
    <3>4. CASE Halted(s, n)
      BY <1>0, <3>1, <3>4 DEF Halted, history
    <3> QED BY <1>1, <3>2, <3>3, <3>4
  <2>6. Configured'
    BY <1>0, <2>1, <2>3, <2>4 DEF Configured, Fits, s3Vars
  <2> QED BY <2>2, <2>4, <2>5, <2>6 DEF TypeOK, callVars, s3Vars
<1>2. CASE TakeJob(s, n)
  <2>1. PICK j \in store["graphile"] :
            /\ store' = [store EXCEPT !["graphile"] = @ \ {j}]
            /\ taken' = [taken EXCEPT ![s] = @ \cup {j}]
    BY <1>2 DEF TakeJob
  <2>2. "graphile" \in queues
    BY <1>2 DEF TakeJob, Configured
  <2>3. store' \in [queues -> SUBSET Jobs] /\ taken' \in [Servers -> SUBSET Jobs]
    BY <2>1, <2>2 DEF TypeOK
  <2>4. loop[s] \in [Turns -> LoopStages] /\ Fits(loop[s], todo[s])
    BY DEF TypeOK, Configured
  <2>5. /\ OnJob(s, loop[s])
        /\ UNCHANGED <<queues, ran, started, life, timeout, todo, cut>>
    BY <1>2 DEF TakeJob
  <2> QED BY <2>3, <2>4, <2>5, OnJobType DEF TypeOK
<1> QED BY <1>1, <1>2 DEF GraphileStep

\* A step of one turn of the S3Queue to stage x, with what it still has listed.
LEMMA TurnStep ==
    ASSUME TypeOK, Configured, NEW s \in Servers, NEW n \in Turns, loop[s][n] # "none",
           NEW x \in LoopStages, Goes(s, n, x),
           NEW S \in SUBSET Jobs, todo' = [todo EXCEPT ![s][n] = S],
           x \in {"get", "run", "delete"} => S # {},
           UNCHANGED <<queues, stage>>
    PROVE  /\ loop' \in [Servers -> [Turns -> LoopStages]]
           /\ todo' \in [Servers -> [Turns -> SUBSET Jobs]]
           /\ Configured'
<1>1. /\ loop \in [Servers -> [Turns -> LoopStages]]
      /\ todo \in [Servers -> [Turns -> SUBSET Jobs]]
  BY DEF TypeOK
<1>2. loop' = [loop EXCEPT ![s][n] = x]
  BY DEF Goes
<1>3. /\ loop' \in [Servers -> [Turns -> LoopStages]]
      /\ todo' \in [Servers -> [Turns -> SUBSET Jobs]]
  BY <1>1, <1>2
<1>4. ASSUME NEW r \in Servers PROVE Fits(loop[r], todo[r])'
  <2>1. Fits(loop[r], todo[r]) /\ Fits(loop[s], todo[s])
    BY DEF Configured
  <2>2. \A k \in Turns : \/ loop'[r][k] = loop[r][k] /\ todo'[r][k] = todo[r][k]
                         \/ r = s /\ k = n /\ loop'[r][k] = x /\ todo'[r][k] = S
    BY <1>1, <1>2
  <2> QED BY <2>1, <2>2 DEF Fits
<1> QED BY <1>3, <1>4 DEF Configured

\* The S3Queue.
LEMMA S3Type ==
    ASSUME TypeOK, Configured, NEW s \in Servers, NEW n \in Turns, S3Step(s, n)
    PROVE  TypeOK' /\ Configured'
<1>0. /\ loop \in [Servers -> [Turns -> LoopStages]]
      /\ todo \in [Servers -> [Turns -> SUBSET Jobs]]
      /\ timeout \in [Servers -> Turns \cup {None}]
      /\ store \in [queues -> SUBSET Jobs] /\ cut \in SUBSET Servers /\ ran \in SUBSET Jobs
  BY DEF TypeOK
<1>f. Fits(loop[s], todo[s])
  BY DEF Configured
<1>s. loop[s][n] # "none" => "s3" \in queues
  BY <1>f DEF Fits
<1>l. loop[s][n] \in {"get", "run", "delete"} => First(s, n) \in Jobs
  BY <1>f, FirstListed DEF Fits
<1>1. CASE TimerFires(s, n)
  <2>1. loop[s] \in [Turns -> LoopStages]
    BY <1>0
  <2>2. Cleared(s, loop[s]) \in [Turns -> LoopStages] /\ Fits(Cleared(s, loop[s]), todo[s])
    BY <1>f, <2>1, ClearedFits
  <2>3. PICK x \in {"list", "none"} :
            loop' = [loop EXCEPT ![s] = [Cleared(s, loop[s]) EXCEPT ![n] = x]]
    BY <1>1 DEF TimerFires
  <2> DEFINE new == [Cleared(s, loop[s]) EXCEPT ![n] = x]
  <2>4. new \in [Turns -> LoopStages]
    BY <2>2 DEF LoopStages
  <2>5. Fits(new, todo[s])
    BY <1>1, <1>s, <2>2 DEF Fits, TimerFires
  <2>6. loop' = [loop EXCEPT ![s] = new]
    BY <2>3
  <2> HIDE DEF new
  <2>7. loop' \in [Servers -> [Turns -> LoopStages]]
    BY <1>0, <2>4, <2>6
  <2>8. UNCHANGED <<queues, store, ran, callVars, graphileVars, taken, timeout, todo, history>>
    BY <1>1 DEF TimerFires
  <2>9. Configured'
    BY <1>0, <2>5, <2>6, <2>8 DEF Configured, Fits, graphileVars
  <2> QED BY <2>7, <2>8, <2>9 DEF TypeOK, callVars, graphileVars, history
<1>2. CASE ListObjects(s, n)
  <2>1. Listed \in SUBSET Jobs
    BY <1>0, <1>2, <1>s DEF ListObjects, Listed
  <2>2. PICK x \in {"timer", "get"} : Goes(s, n, x) /\ (x = "get" => Listed # {})
    BY <1>2 DEF ListObjects, SetTimer
  <2>3. timeout' \in [Servers -> Turns \cup {None}]
    BY <1>0, <1>2 DEF ListObjects, SetTimer
  <2>4. UNCHANGED <<queues, store, ran, callVars, graphileVars, taken, history>>
    BY <1>2 DEF ListObjects
  <2>5. todo' = [todo EXCEPT ![s][n] = Listed] /\ loop[s][n] # "none"
    BY <1>2 DEF ListObjects
  <2>6. x \in LoopStages /\ UNCHANGED <<queues, stage>>
    BY <2>4 DEF LoopStages, graphileVars
  <2>7. /\ loop' \in [Servers -> [Turns -> LoopStages]]
        /\ todo' \in [Servers -> [Turns -> SUBSET Jobs]]
        /\ Configured'
    BY <2>1, <2>2, <2>5, <2>6, TurnStep
  <2> QED BY <2>3, <2>4, <2>7 DEF TypeOK, callVars, graphileVars, history
<1>3. CASE GetObject(s, n)
  <2> DEFINE turns == [loop[s] EXCEPT ![n] = "run"]
  <2>1. turns \in [Turns -> LoopStages]
    BY <1>0 DEF LoopStages
  <2>2. Fits(turns, todo[s])
    BY <1>0, <1>3, <1>f DEF GetObject, Fits
  <2>3. /\ OnJob(s, turns)
        /\ UNCHANGED <<queues, store, ran, started, life, taken, timeout, todo, cut>>
    BY <1>3 DEF GetObject
  <2> HIDE DEF turns
  <2> QED BY <2>1, <2>2, <2>3, OnJobType DEF TypeOK
<1>4. CASE RunJob(s, n)
  <2>1. ran' \in SUBSET Jobs
    BY <1>0, <1>4, <1>l DEF RunJob
  <2>2. UNCHANGED <<queues, store, callVars, graphileVars, taken, timeout, todo, history>>
    BY <1>4 DEF RunJob
  <2>3. Goes(s, n, "delete") /\ loop[s][n] = "run"
    BY <1>4 DEF RunJob
  <2>4. todo[s][n] \in SUBSET Jobs /\ todo' = [todo EXCEPT ![s][n] = todo[s][n]] /\ todo[s][n] # {}
    BY <1>0, <1>f, <2>2, <2>3 DEF Fits
  <2>5. "delete" \in LoopStages /\ UNCHANGED <<queues, stage>>
    BY <2>2 DEF LoopStages, graphileVars
  <2>6. loop' \in [Servers -> [Turns -> LoopStages]] /\ Configured'
    BY <2>3, <2>4, <2>5, TurnStep
  <2> QED BY <2>1, <2>2, <2>6 DEF TypeOK, callVars, graphileVars, history
<1>5. CASE DeleteObject(s, n)
  <2> DEFINE rest == todo[s][n] \ {First(s, n)}
  <2>1. rest \in SUBSET Jobs
    BY <1>0
  <2>2. store' \in [queues -> SUBSET Jobs]
    BY <1>0, <1>5, <1>s DEF DeleteObject
  <2>3. todo' = [todo EXCEPT ![s][n] = rest]
    BY <1>0, <1>5 DEF DeleteObject
  <2>4. todo'[s][n] = rest
    BY <1>0, <2>3
  <2>5. PICK x \in {"timer", "get"} : Goes(s, n, x) /\ (x = "get" => rest # {})
    BY <1>5, <2>4 DEF DeleteObject, SetTimer
  <2>6. timeout' \in [Servers -> Turns \cup {None}]
    BY <1>0, <1>5 DEF DeleteObject, SetTimer
  <2>7. UNCHANGED <<queues, ran, callVars, graphileVars, taken, history>> /\ loop[s][n] # "none"
    BY <1>5 DEF DeleteObject
  <2>8. x \in LoopStages /\ UNCHANGED <<queues, stage>>
    BY <2>7 DEF LoopStages, graphileVars
  <2> HIDE DEF rest
  <2>9. /\ loop' \in [Servers -> [Turns -> LoopStages]]
        /\ todo' \in [Servers -> [Turns -> SUBSET Jobs]]
        /\ Configured'
    BY <2>1, <2>3, <2>5, <2>7, <2>8, TurnStep
  <2> QED BY <2>2, <2>6, <2>7, <2>9 DEF TypeOK, callVars, graphileVars, history
<1>6. CASE ReadFails(s, n)
  <2>1. Goes(s, n, "none") /\ todo' = [todo EXCEPT ![s][n] = {}] /\ loop[s][n] # "none"
    BY <1>6 DEF ReadFails, Reading
  <2>2. UNCHANGED <<queues, store, ran, callVars, graphileVars, taken, timeout, overlapped, rejoined>>
    BY <1>6 DEF ReadFails
  <2>3. cut' \in SUBSET Servers
    BY <1>0, <1>6 DEF ReadFails
  <2>4. "none" \in LoopStages /\ {} \in SUBSET Jobs /\ UNCHANGED <<queues, stage>>
    BY <2>2 DEF LoopStages, graphileVars
  <2>5. /\ loop' \in [Servers -> [Turns -> LoopStages]]
        /\ todo' \in [Servers -> [Turns -> SUBSET Jobs]]
        /\ Configured'
    BY <2>1, <2>4, TurnStep
  <2> QED BY <2>2, <2>3, <2>5 DEF TypeOK, callVars, graphileVars
<1> QED BY <1>1, <1>2, <1>3, <1>4, <1>5, <1>6 DEF S3Step

\* The end of a server.
LEMMA DieType ==
    ASSUME TypeOK, Configured, NEW s \in Servers, Die(s)
    PROVE  TypeOK' /\ Configured'
<1> DEFINE noStages == [n \in Turns |-> "none"]
           noKeys == [n \in Turns |-> {}]
<1>1. noStages \in [Turns -> LoopStages] /\ noStages \in [Turns -> RunnerStages]
      /\ noKeys \in [Turns -> SUBSET Jobs] /\ Fits(noStages, noKeys)
      /\ \A n \in Turns : noStages[n] = "none"
  BY DEF LoopStages, RunnerStages, Fits
<1>2. /\ stage' = [stage EXCEPT ![s] = noStages] /\ loop' = [loop EXCEPT ![s] = noStages]
      /\ todo' = [todo EXCEPT ![s] = noKeys]
  BY DEF Die
<1> HIDE DEF noStages, noKeys
<1>3. /\ stage' \in [Servers -> [Turns -> RunnerStages]]
      /\ loop' \in [Servers -> [Turns -> LoopStages]]
      /\ todo' \in [Servers -> [Turns -> SUBSET Jobs]]
  BY <1>1, <1>2 DEF TypeOK
<1>4. queues' = queues
  BY DEF Die
<1>5. ASSUME NEW r \in Servers
      PROVE  /\ \A n \in Turns : stage'[r][n] # "none" => "graphile" \in queues
             /\ Fits(loop[r], todo[r])'
  <2>1. CASE r = s
    <3>1. stage'[r] = noStages /\ loop'[r] = noStages /\ todo'[r] = noKeys
      BY <1>2, <2>1 DEF TypeOK
    <3> QED BY <1>1, <1>4, <3>1 DEF Fits
  <2>2. CASE r # s
    <3>1. stage'[r] = stage[r] /\ loop'[r] = loop[r] /\ todo'[r] = todo[r]
      BY <1>2, <2>2 DEF TypeOK
    <3> QED BY <1>4, <3>1 DEF Configured, Fits
  <2> QED BY <2>1, <2>2
<1>6. /\ life' \in [Servers -> Lives] /\ started' \in SUBSET Servers /\ paused' \in SUBSET Servers
      /\ runner' \in [Servers -> Turns \cup {None}]
      /\ consumerPool' \in [Servers -> Turns \cup {None}]
      /\ open' \in [Servers -> SUBSET Turns]
      /\ timeout' \in [Servers -> Turns \cup {None}]
  BY DEF Die, TypeOK, Lives
<1> QED BY <1>3, <1>4, <1>5, <1>6 DEF Die, TypeOK, Configured, history

\* Jobs that are enqueued, and jobs of graphile-worker that run.
LEMMA JobsType ==
    ASSUME TypeOK, Configured,
           (\E j \in Jobs : Enqueue(j)) \/ (\E s \in Servers : TakenRuns(s))
    PROVE  TypeOK' /\ Configured'
<1>1. CASE \E j \in Jobs : Enqueue(j)
  <2>1. store' \in [queues -> SUBSET Jobs]
    BY <1>1 DEF Enqueue, TypeOK
  <2>2. UNCHANGED <<queues, ran, callVars, graphileVars, taken, s3Vars, history>>
    BY <1>1 DEF Enqueue
  <2> QED BY <2>1, <2>2 DEF TypeOK, Configured, Fits, callVars, graphileVars, s3Vars, history
<1>2. CASE \E s \in Servers : TakenRuns(s)
  <2>0. PICK s \in Servers : TakenRuns(s)
    BY <1>2
  <2>1. PICK j \in taken[s] :
            /\ taken' = [taken EXCEPT ![s] = @ \ {j}] /\ ran' = ran \cup {j}
            /\ UNCHANGED <<queues, store, callVars, graphileVars, s3Vars, history>>
    BY <2>0 DEF TakenRuns
  <2>2. taken \in [Servers -> SUBSET Jobs] /\ j \in Jobs /\ ran \in SUBSET Jobs
    BY DEF TypeOK
  <2>3. taken' \in [Servers -> SUBSET Jobs] /\ ran' \in SUBSET Jobs
    BY <2>1, <2>2
  <2> QED BY <2>1, <2>3 DEF TypeOK, Configured, Fits, callVars, graphileVars, s3Vars, history
<1> QED BY <1>1, <1>2

\* Types, and what is configured, are kept by every step.
LEMMA TypeStep == TypeOK /\ Configured /\ [Next]_vars => TypeOK' /\ Configured'
<1> SUFFICES ASSUME TypeOK, Configured, [Next]_vars PROVE TypeOK' /\ Configured'
  OBVIOUS
<1>1. CASE UNCHANGED vars
  BY <1>1 DEF vars, callVars, graphileVars, s3Vars, history, TypeOK, Configured, Fits
<1> QED BY <1>1, CallsType, GraphileType, S3Type, DieType, JobsType DEF Next

LEMMA TypeInit == Init => TypeOK /\ Configured
<1> SUFFICES ASSUME Init PROVE TypeOK /\ Configured
  OBVIOUS
<1>1. life \in [Servers -> Lives] /\ queues \in {d.queues : d \in Deployments}
  BY DEF Init, Lives
<1>2. pauses \in [Servers -> 0 .. MaxPauses]
  BY DEF Init
<1> QED BY <1>1, <1>2 DEF Init, TypeOK, Configured, Fits, RunnerStages, LoopStages

\* Every variable keeps its type; an object that is handled is one that was listed.
THEOREM TypeCorrect == Spec => []TypeOK
BY TypeInit, TypeStep, PTL DEF Spec

-----------------------------------------------------------------------------
(* One turn polls the S3Queue *)

\* Two turns of a server never poll at the same time, the timer of a turn is the one
\* this.timeout is, and a server that consumes has a turn that polls.
TurnPolls(s) ==
    /\ \A m, n \in Turns : loop[s][m] # "none" /\ loop[s][n] # "none" => m = n
    /\ \A n \in Turns : loop[s][n] = "timer" => timeout[s] = n
    /\ "s3" \in queues /\ Consumes(s) => \E n \in Turns : loop[s][n] # "none"

TurnsPoll == \A s \in Servers \ (rejoined \cup cut) : TurnPolls(s)

\* A server whose turns do not change, and that does not begin to consume.
LEMMA SamePolls ==
    ASSUME NEW s \in Servers, TurnPolls(s), loop'[s] = loop[s], timeout'[s] = timeout[s],
           queues' = queues, Consumes(s)' => Consumes(s)
    PROVE  TurnPolls(s)'
  BY DEF TurnPolls

\* syncState, when no turn is reading or the consumer does not consume: the timer is
\* cleared, so the turn that begins is the only one.
LEMMA SyncPolls ==
    ASSUME TypeOK, NEW s \in Servers, NEW on, NEW turns \in [Turns -> LoopStages],
           Sync(s, on, turns), timeout' = timeout, queues' = queues, s \notin rejoined',
           Consumes(s)' => on,
           \A m, n \in Turns : turns[m] # "none" /\ turns[n] # "none" => m = n,
           \A n \in Turns : turns[n] = "timer" => timeout[s] = n,
           \A n \in Turns : turns[n] = loop[s][n] \/ loop[s][n] \in {"list", "get", "run", "delete"}
    PROVE  TurnPolls(s)'
<1>1. NewTurn(s) \in Turns /\ loop \in [Servers -> [Turns -> LoopStages]]
  BY TurnNumbers DEF TypeOK
<1> DEFINE cleared == Cleared(s, turns)
<1>2. /\ cleared \in [Turns -> LoopStages]
      /\ \A n \in Turns : cleared[n] = IF turns[n] = "timer" THEN "none" ELSE turns[n]
  BY DEF Cleared, LoopStages
<1> HIDE DEF cleared
<1>3. CASE on /\ "s3" \in queues
  <2>1. loop' = [loop EXCEPT ![s] = [cleared EXCEPT ![NewTurn(s)] = "list"]] /\ Reading(s) = {}
    BY <1>3 DEF Sync, SyncS3, cleared
  <2>2. \A n \in Turns : turns[n] \in {"none", "timer"}
    BY <1>1, <2>1 DEF Reading, LoopStages
  <2>3. \A n \in Turns : cleared[n] = "none"
    BY <1>2, <2>2
  <2>4. \A n \in Turns : loop'[s][n] = IF n = NewTurn(s) THEN "list" ELSE "none"
    BY <1>1, <1>2, <2>1, <2>3
  <2> QED BY <1>1, <2>4 DEF TurnPolls
<1>4. CASE ~(on /\ "s3" \in queues)
  <2>1. loop' = [loop EXCEPT ![s] = cleared]
    BY <1>4 DEF Sync, SyncS3, cleared
  <2>2. loop'[s] = cleared
    BY <1>1, <2>1
  <2> QED BY <1>2, <1>4, <2>2 DEF TurnPolls
<1> QED BY <1>3, <1>4

\* Only the turns of one server change.
LEMMA OtherTurns ==
    ASSUME TypeOK, NEW s \in Servers, NEW on, NEW turns, Sync(s, on, turns)
    PROVE  \A r \in Servers \ {s} : /\ loop'[r] = loop[r]
                                    /\ stage'[r] = stage[r] /\ runner'[r] = runner[r]
  BY DEF Sync, SyncS3, SyncGraphile, TypeOK

\* The calls of the consumer.
LEMMA CallsPoll ==
    ASSUME TypeOK, TurnsPoll, NEW s \in Servers,
           StartConsumer(s) \/ StopConsumer(s) \/ ResumeConsumer(s)
    PROVE  TurnsPoll'
<1>1. PICK on : Sync(s, on, loop[s]) /\ (Consumes(s)' => on)
  BY DEF StartConsumer, StopConsumer, ResumeConsumer, Consumes
<1>2. timeout' = timeout /\ queues' = queues /\ cut' = cut /\ rejoined \subseteq rejoined'
  BY <1>1 DEF StartConsumer, StopConsumer, ResumeConsumer, Sync, SyncS3
<1>3. \A r \in Servers \ {s} : Consumes(r)' => Consumes(r)
  BY DEF StartConsumer, StopConsumer, ResumeConsumer, Consumes
<1>4. ASSUME NEW r \in Servers, r \notin rejoined', r \notin cut' PROVE TurnPolls(r)'
  <2>1. TurnPolls(r)
    BY <1>2, <1>4 DEF TurnsPoll
  <2>2. CASE r = s
    <3>1. loop[s] \in [Turns -> LoopStages]
      BY DEF TypeOK
    <3> QED BY <1>1, <1>2, <1>4, <2>1, <2>2, <3>1, SyncPolls DEF TurnPolls
  <2>3. CASE r # s
    BY <1>1, <1>2, <1>3, <2>1, <2>3, OtherTurns, SamePolls
  <2> QED BY <2>2, <2>3
<1> QED BY <1>4 DEF TurnsPoll

\* onJob, with the turns as they are or with one that goes on reading.
LEMMA OnJobPolls ==
    ASSUME TypeOK, TurnsPoll, NEW s \in Servers, NEW turns \in [Turns -> LoopStages],
           OnJob(s, turns), UNCHANGED <<queues, timeout, started, cut>>,
           turns = loop[s] \/ \E n \in Turns : /\ turns = [loop[s] EXCEPT ![n] = "run"]
                                               /\ loop[s][n] = "get"
    PROVE  TurnsPoll'
<1>1. rejoined \subseteq rejoined'
  BY DEF OnJob, Sync, SyncS3
<1>2. loop[s] \in [Turns -> LoopStages]
  BY DEF TypeOK
<1>3. \A n \in Turns : turns[n] = loop[s][n] \/ (loop[s][n] = "get" /\ turns[n] = "run")
  BY <1>2
<1>4. ASSUME NEW r \in Servers, r \notin rejoined', r \notin cut' PROVE TurnPolls(r)'
  <2>1. TurnPolls(r)
    BY <1>1, <1>4 DEF TurnsPoll
  <2>2. CASE paused' = paused \cup {s} /\ Sync(s, FALSE, turns)
    <3>1. CASE r = s
      <4>1. Consumes(s)' => FALSE
        BY <2>2 DEF Consumes
      <4>2. \A m, n \in Turns : turns[m] # "none" /\ turns[n] # "none" => m = n
        BY <1>3, <2>1, <3>1 DEF TurnPolls
      <4>3. \A n \in Turns : turns[n] = "timer" => timeout[s] = n
        BY <1>3, <2>1, <3>1 DEF TurnPolls
      <4>4. \A n \in Turns : turns[n] = loop[s][n] \/ loop[s][n] \in {"list", "get", "run", "delete"}
        BY <1>3
      <4> QED BY <1>4, <2>2, <3>1, <4>1, <4>2, <4>3, <4>4, SyncPolls
    <3>2. CASE r # s
      <4>1. Consumes(r)' => Consumes(r)
        BY <2>2, <3>2 DEF Consumes
      <4> QED BY <2>1, <2>2, <3>2, <4>1, OtherTurns, SamePolls
    <3> QED BY <3>1, <3>2
  <2>3. CASE loop' = [loop EXCEPT ![s] = turns] /\ paused' = paused
    <3>1. Consumes(r)' => Consumes(r)
      BY <2>3 DEF Consumes
    <3>2. CASE r = s
      <4>1. loop'[r] = turns
        BY <2>3, <3>2 DEF TypeOK
      <4> QED BY <1>3, <2>1, <3>1, <3>2, <4>1 DEF TurnPolls
    <3>3. CASE r # s
      <4>1. loop'[r] = loop[r]
        BY <2>3, <3>3 DEF TypeOK
      <4> QED BY <2>1, <3>1, <4>1, SamePolls
    <3> QED BY <3>2, <3>3
  <2> QED BY <2>2, <2>3 DEF OnJob
<1> QED BY <1>4 DEF TurnsPoll

\* The turn that polls goes on, or to a timer that this.timeout is.
LEMMA GoesPolls ==
    ASSUME TypeOK, TurnsPoll, NEW s \in Servers, NEW n \in Turns, loop[s][n] # "none",
           NEW x \in LoopStages, x # "none", Goes(s, n, x),
           UNCHANGED <<queues, started, paused, rejoined, cut>>,
           \/ x # "timer" /\ timeout' = timeout
           \/ timeout' = [timeout EXCEPT ![s] = n]
    PROVE  TurnsPoll'
<1>1. loop' = [loop EXCEPT ![s][n] = x] /\ loop \in [Servers -> [Turns -> LoopStages]]
  BY DEF Goes, TypeOK
<1>2. \A r \in Servers \ {s} : loop'[r] = loop[r] /\ timeout'[r] = timeout[r]
  BY <1>1 DEF TypeOK
<1>3. \A k \in Turns : loop'[s][k] = IF k = n THEN x ELSE loop[s][k]
  BY <1>1
<1>4. ASSUME NEW r \in Servers, r \notin rejoined', r \notin cut' PROVE TurnPolls(r)'
  <2>1. TurnPolls(r) /\ (Consumes(r)' => Consumes(r))
    BY <1>4 DEF TurnsPoll, Consumes
  <2>2. CASE r = s
    <3>1. \A k \in Turns : k # n => loop[s][k] = "none"
      BY <2>1, <2>2 DEF TurnPolls
    <3>2. x = "timer" => timeout'[s] = n
      BY DEF TypeOK
    <3>3. \A k \in Turns : loop'[s][k] # "none" <=> k = n
      BY <1>3, <3>1
    <3>4. \A k \in Turns : loop'[s][k] = "timer" => timeout'[s] = k
      BY <1>3, <3>1, <3>2
    <3> QED BY <2>2, <3>3, <3>4 DEF TurnPolls
  <2>3. CASE r # s
    BY <1>2, <2>1, <2>3, SamePolls
  <2> QED BY <2>2, <2>3
<1> QED BY <1>4 DEF TurnsPoll

\* The S3Queue.
LEMMA S3Polls ==
    ASSUME TypeOK, TurnsPoll, NEW s \in Servers, NEW n \in Turns, S3Step(s, n)
    PROVE  TurnsPoll'
<1>0. loop \in [Servers -> [Turns -> LoopStages]] /\ loop[s] \in [Turns -> LoopStages]
  BY DEF TypeOK
<1>1. CASE TimerFires(s, n)
  <2> DEFINE x == IF s \in started \ paused THEN "list" ELSE "none"
             new == [Cleared(s, loop[s]) EXCEPT ![n] = x]
  <2>1. loop' = [loop EXCEPT ![s] = new] /\ loop[s][n] = "timer"
    BY <1>1 DEF TimerFires
  <2>2. UNCHANGED <<queues, started, paused, timeout, rejoined, cut>>
    BY <1>1 DEF TimerFires, callVars, history
  <2>3. ASSUME NEW r \in Servers, r \notin rejoined', r \notin cut' PROVE TurnPolls(r)'
    <3>1. TurnPolls(r) /\ (Consumes(r)' => Consumes(r))
      BY <2>2, <2>3 DEF TurnsPoll, Consumes
    <3>2. CASE r = s
      <4>1. \A k \in Turns : k # n => loop[s][k] = "none"
        BY <2>1, <3>1, <3>2 DEF TurnPolls
      <4>2. \A k \in Turns : new[k] = IF k = n THEN x ELSE "none"
        BY <4>1 DEF Cleared
      <4>3. loop'[s] = new
        BY <1>0, <2>1
      <4>4. Consumes(s)' => x = "list"
        BY <2>2 DEF Consumes
      <4>5. x # "timer"
        OBVIOUS
      <4> HIDE DEF new, x
      <4> QED BY <3>2, <4>2, <4>3, <4>4, <4>5 DEF TurnPolls
    <3>3. CASE r # s
      <4>1. loop'[r] = loop[r]
        BY <1>0, <2>1, <3>3
      <4> QED BY <2>2, <3>1, <4>1, SamePolls
    <3> QED BY <3>2, <3>3
  <2> QED BY <2>3 DEF TurnsPoll
<1>2. CASE GetObject(s, n)
  <2>1. [loop[s] EXCEPT ![n] = "run"] \in [Turns -> LoopStages]
    BY <1>0 DEF LoopStages
  <2>2. /\ OnJob(s, [loop[s] EXCEPT ![n] = "run"]) /\ loop[s][n] = "get"
        /\ UNCHANGED <<queues, timeout, started, cut>>
    BY <1>2 DEF GetObject
  <2> QED BY <2>1, <2>2, OnJobPolls
<1>3. CASE RunJob(s, n)
  <2>1. /\ Goes(s, n, "delete") /\ loop[s][n] # "none" /\ timeout' = timeout
        /\ UNCHANGED <<queues, started, paused, rejoined, cut>>
    BY <1>3 DEF RunJob, callVars, history
  <2>2. "delete" \in LoopStages /\ "delete" # "none" /\ "delete" # "timer"
    BY DEF LoopStages
  <2> QED BY <2>1, <2>2, GoesPolls
<1>4. CASE ListObjects(s, n) \/ DeleteObject(s, n)
  <2>1. /\ UNCHANGED <<queues, started, paused, rejoined, cut>> /\ loop[s][n] # "none"
        /\ SetTimer(s, n) \/ (Goes(s, n, "get") /\ timeout' = timeout)
    BY <1>4 DEF ListObjects, DeleteObject, callVars, history
  <2>2. "get" \in LoopStages /\ "get" # "none" /\ "get" # "timer"
        /\ "timer" \in LoopStages /\ "timer" # "none"
    BY DEF LoopStages
  <2>3. CASE SetTimer(s, n)
    <3>1. Goes(s, n, "timer") /\ timeout' = [timeout EXCEPT ![s] = n]
      BY <2>3 DEF SetTimer
    <3> QED BY <2>1, <2>2, <3>1, GoesPolls
  <2>4. CASE Goes(s, n, "get") /\ timeout' = timeout
    BY <2>1, <2>2, <2>4, GoesPolls
  <2> QED BY <2>1, <2>3, <2>4
<1>5. CASE ReadFails(s, n)
  <2>1. /\ cut' = cut \cup {s} /\ UNCHANGED <<queues, started, paused, timeout, rejoined>>
        /\ \A r \in Servers \ {s} : loop'[r] = loop[r]
    BY <1>0, <1>5 DEF ReadFails, Goes, callVars
  <2>2. ASSUME NEW r \in Servers, r \notin rejoined', r \notin cut' PROVE TurnPolls(r)'
    <3>1. TurnPolls(r) /\ (Consumes(r)' => Consumes(r)) /\ r # s
      BY <2>1, <2>2 DEF TurnsPoll, Consumes
    <3> QED BY <2>1, <3>1, SamePolls
  <2> QED BY <2>2 DEF TurnsPoll
<1> QED BY <1>1, <1>2, <1>3, <1>4, <1>5 DEF S3Step

\* Steps that do not concern the S3Queue.
LEMMA RestPolls ==
    ASSUME TypeOK, TurnsPoll,
           UNCHANGED <<queues, started, paused, timeout, loop, rejoined>>, cut \subseteq cut'
    PROVE  TurnsPoll'
<1>1. ASSUME NEW r \in Servers, r \notin rejoined', r \notin cut' PROVE TurnPolls(r)'
  <2>1. TurnPolls(r)
    BY <1>1 DEF TurnsPoll
  <2> QED BY <2>1 DEF TurnPolls, Consumes
<1> QED BY <1>1 DEF TurnsPoll

LEMMA DiePolls ==
    ASSUME TypeOK, TurnsPoll, NEW s \in Servers, Die(s)
    PROVE  TurnsPoll'
<1>1. /\ loop'[s] = [n \in Turns |-> "none"]
      /\ \A r \in Servers \ {s} : loop'[r] = loop[r] /\ timeout'[r] = timeout[r]
  BY DEF Die, TypeOK
<1>2. /\ UNCHANGED <<queues, rejoined, cut>>
      /\ started' = started \ {s} /\ paused' = paused \ {s}
  BY DEF Die, history
<1>3. ASSUME NEW r \in Servers, r \notin rejoined', r \notin cut' PROVE TurnPolls(r)'
  <2>1. TurnPolls(r)
    BY <1>2, <1>3 DEF TurnsPoll
  <2>2. CASE r = s
    BY <1>1, <1>2, <2>2 DEF TurnPolls, Consumes
  <2>3. CASE r # s
    <3>1. Consumes(r)' => Consumes(r)
      BY <1>2, <2>3 DEF Consumes
    <3> QED BY <1>1, <1>2, <2>1, <2>3, <3>1, SamePolls
  <2> QED BY <2>2, <2>3
<1> QED BY <1>3 DEF TurnsPoll

\* The invariant is inductive, given the types.
LEMMA PollsStep == TypeOK /\ TurnsPoll /\ [Next]_vars => TurnsPoll'
<1> SUFFICES ASSUME TypeOK, TurnsPoll, [Next]_vars PROVE TurnsPoll'
  OBVIOUS
<1>1. CASE UNCHANGED vars \/ (\E j \in Jobs : Enqueue(j)) \/ (\E s \in Servers : TakenRuns(s))
  BY <1>1, RestPolls DEF vars, callVars, s3Vars, history, Enqueue, TakenRuns
<1>2. ASSUME NEW s \in Servers, NEW n \in Turns, GraphileStep(s, n) PROVE TurnsPoll'
  <2>1. CASE TakeJob(s, n)
    <3>1. /\ OnJob(s, loop[s]) /\ UNCHANGED <<queues, timeout, started, cut>>
          /\ loop[s] \in [Turns -> LoopStages]
      BY <2>1 DEF TakeJob, TypeOK
    <3> QED BY <3>1, OnJobPolls
  <2>2. CASE PoolCreated(s, n) \/ RunStarted(s, n) \/ RunFails(s, n) \/ Halted(s, n)
    BY <2>2, RestPolls DEF PoolCreated, RunStarted, RunFails, Halted, callVars, s3Vars, history
  <2> QED BY <1>2, <2>1, <2>2 DEF GraphileStep
<1> QED BY <1>1, <1>2, CallsPoll, S3Polls, DiePolls DEF Next

\* A server polls its S3Queue with one turn exactly when it consumes, or with a turn
\* that ends at its next timer.
THEOREM OneTurn == Spec => []OneTurnPolls
<1>1. Init => TurnsPoll
  BY DEF Init, TurnsPoll, TurnPolls, Consumes
<1>2. TurnsPoll => OneTurnPolls
  <2> SUFFICES ASSUME TurnsPoll, NEW s \in Servers \ (rejoined \cup cut), "s3" \in queues
               PROVE  LET polling == {n \in Turns : loop[s][n] # "none"} IN
                      Cardinality(polling) <= 1 /\ (Consumes(s) => polling # {})
    BY DEF OneTurnPolls
  <2> DEFINE polling == {n \in Turns : loop[s][n] # "none"}
  <2>1. TurnPolls(s)
    BY DEF TurnsPoll
  <2>2. Consumes(s) => polling # {}
    BY <2>1 DEF TurnPolls
  <2>3. polling = {} \/ \E n \in Turns : polling = {n}
    BY <2>1 DEF TurnPolls
  <2> HIDE DEF polling
  <2>4. Cardinality(polling) <= 1
    <3>1. CASE polling = {}
      BY <3>1, FS_EmptySet
    <3>2. CASE \E n \in Turns : polling = {n}
      <4>1. Cardinality(polling) = 1
        BY <3>2, FS_Singleton
      <4> QED BY <4>1
    <3> QED BY <2>3, <3>1, <3>2
  <2> QED BY <2>2, <2>4 DEF polling
<1> QED BY <1>1, <1>2, TypeInit, TypeStep, PollsStep, PTL DEF Spec

-----------------------------------------------------------------------------
(* One runner of GraphileQueue *)

\* No call is under way: a runner on an open pool, or nothing.
AtRest(s) ==
    /\ Consumes(s) <=> runner[s] # None
    /\ \A n \in Turns : stage[s][n] = IF n = runner[s] THEN "live" ELSE "none"
    /\ open[s] = {runner[s]} \ {None}
    /\ runner[s] # None => consumerPool[s] = runner[s]

\* A call has got as far as turn n's stage says, and the pool is the one it is about.
InTurn(s, n) ==
    /\ runner[s] = None
    /\ \A m \in Turns \ {n} : stage[s][m] = "none"
    /\ \/ stage[s][n] = "pool" /\ Consumes(s) /\ open[s] = {}
       \/ stage[s][n] = "starting" /\ Consumes(s) /\ open[s] = {n} /\ consumerPool[s] = n
       \/ stage[s][n] = "halting" /\ ~Consumes(s) /\ open[s] = {n} /\ consumerPool[s] = n

RunnerKept(s) ==
    "graphile" \in queues /\ Alive(s) => AtRest(s) \/ \E n \in Turns : InTurn(s, n)

RunnersKept == \A s \in Servers \ (overlapped \cup cut) : RunnerKept(s)

\* A server of which nothing changes but what the S3Queue is about.
LEMMA SameRunner ==
    ASSUME NEW s \in Servers, RunnerKept(s), stage'[s] = stage[s], runner'[s] = runner[s],
           open'[s] = open[s], consumerPool'[s] = consumerPool[s],
           queues' = queues, Consumes(s)' <=> Consumes(s), Alive(s)' => Alive(s)
    PROVE  RunnerKept(s)'
<1> SUFFICES ASSUME "graphile" \in queues', Alive(s)'
             PROVE  (AtRest(s) \/ \E n \in Turns : InTurn(s, n))'
  BY DEF RunnerKept
<1>1. CASE AtRest(s)
  BY <1>1 DEF AtRest
<1>2. CASE \E n \in Turns : InTurn(s, n)
  <2>1. PICK n \in Turns : InTurn(s, n)
    BY <1>2
  <2>2. InTurn(s, n)'
    BY <2>1 DEF InTurn
  <2> QED BY <2>2
<1> QED BY <1>1, <1>2 DEF RunnerKept

\* syncState of a server at rest: it starts, it stops, or it has nothing to do.
LEMMA SyncRunner ==
    ASSUME TypeOK, NEW s \in Servers, NEW on \in BOOLEAN, NEW turns, Sync(s, on, turns),
           RunnerKept(s), queues' = queues, s \notin overlapped', Alive(s),
           Consumes(s)' <=> on
    PROVE  RunnerKept(s)'
<1> SUFFICES ASSUME "graphile" \in queues
             PROVE  (AtRest(s) \/ \E n \in Turns : InTurn(s, n))'
  BY DEF RunnerKept
<1>1. NewTurn(s) \in Turns /\ None \notin Turns
  BY TurnNumbers
<1>2. /\ stage \in [Servers -> [Turns -> RunnerStages]]
      /\ runner \in [Servers -> Turns \cup {None}]
  BY DEF TypeOK
<1>3. ~InCall(s)
  BY DEF Sync, SyncGraphile
<1>4. AtRest(s)
  <2>1. \A n \in Turns : ~InTurn(s, n)
    BY <1>3 DEF InTurn, InCall
  <2> QED BY <2>1 DEF RunnerKept
<1>5. consumerPool' = consumerPool /\ open' = open
  BY DEF Sync, SyncGraphile
<1>6. CASE on /\ runner[s] = None
  <2>0. PICK t \in Turns : t = NewTurn(s)
    BY <1>1
  <2>1. stage' = [stage EXCEPT ![s][t] = "pool"] /\ runner' = runner
    BY <1>6, <2>0 DEF Sync, SyncGraphile
  <2>2. \A n \in Turns : stage[s][n] = "none"
    BY <1>1, <1>4, <1>6 DEF AtRest
  <2>3. \A n \in Turns : stage'[s][n] = IF n = t THEN "pool" ELSE "none"
    BY <1>2, <2>1, <2>2
  <2>4. open'[s] = {} /\ runner'[s] = None
    BY <1>4, <1>5, <1>6, <2>1 DEF AtRest
  <2>5. Consumes(s)'
    BY <1>6
  <2>6. InTurn(s, t)'
    BY <2>3, <2>4, <2>5 DEF InTurn
  <2> QED BY <2>6
<1>7. CASE ~on /\ runner[s] # None
  <2>0. PICK t \in Turns : t = runner[s]
    BY <1>2, <1>7
  <2>1. stage' = [stage EXCEPT ![s][t] = "halting"] /\ runner' = [runner EXCEPT ![s] = None]
    BY <1>7, <2>0 DEF Sync, SyncGraphile
  <2>2. \A n \in Turns : stage'[s][n] = IF n = t THEN "halting" ELSE "none"
    BY <1>2, <1>4, <2>0, <2>1 DEF AtRest
  <2>3. open'[s] = {t} /\ runner'[s] = None /\ consumerPool'[s] = t
    BY <1>1, <1>2, <1>4, <1>5, <1>7, <2>0, <2>1 DEF AtRest
  <2>4. ~Consumes(s)'
    BY <1>7
  <2>5. InTurn(s, t)'
    BY <2>2, <2>3, <2>4 DEF InTurn
  <2> QED BY <2>5
<1>8. CASE on <=> runner[s] # None
  <2>1. stage' = stage /\ runner' = runner
    BY <1>8 DEF Sync, SyncGraphile
  <2> QED BY <1>4, <1>5, <1>8, <2>1 DEF AtRest
<1> QED BY <1>6, <1>7, <1>8

\* The calls of the consumer.
LEMMA CallsKeepRunner ==
    ASSUME TypeOK, RunnersKept, NEW s \in Servers,
           StartConsumer(s) \/ StopConsumer(s) \/ ResumeConsumer(s)
    PROVE  RunnersKept'
<1>1. PICK on \in BOOLEAN : Sync(s, on, loop[s]) /\ (Consumes(s)' <=> on)
  <2>1. CASE StartConsumer(s)
    <3>1. Sync(s, s \notin paused, loop[s]) /\ (Consumes(s)' <=> s \notin paused)
      BY <2>1 DEF StartConsumer, Consumes
    <3> QED BY <3>1
  <2>2. CASE StopConsumer(s)
    <3>1. Sync(s, FALSE, loop[s]) /\ (Consumes(s)' <=> FALSE)
      BY <2>2 DEF StopConsumer, Consumes
    <3> QED BY <3>1
  <2>3. CASE ResumeConsumer(s)
    <3>1. Sync(s, s \in started, loop[s]) /\ (Consumes(s)' <=> s \in started)
      BY <2>3 DEF ResumeConsumer, Consumes
    <3> WITNESS (s \in started) \in BOOLEAN
    <3> QED BY <3>1
  <2> QED BY <2>1, <2>2, <2>3
<1>2. queues' = queues /\ cut' = cut /\ Alive(s)
  BY DEF StartConsumer, StopConsumer, ResumeConsumer, Alive
<1>3. open' = open /\ consumerPool' = consumerPool /\ overlapped \subseteq overlapped'
  BY <1>1 DEF Sync, SyncGraphile
<1>4. \A r \in Servers \ {s} : (Consumes(r)' <=> Consumes(r)) /\ (Alive(r)' => Alive(r))
  <2>1. \A r \in Servers \ {s} : life'[r] = life[r]
    BY DEF StartConsumer, StopConsumer, ResumeConsumer, TypeOK
  <2> QED BY <2>1 DEF StartConsumer, StopConsumer, ResumeConsumer, Consumes, Alive
<1>5. ASSUME NEW r \in Servers, r \notin overlapped', r \notin cut' PROVE RunnerKept(r)'
  <2>1. RunnerKept(r)
    BY <1>2, <1>3, <1>5 DEF RunnersKept
  <2>2. CASE r = s
    BY <1>1, <1>2, <1>5, <2>1, <2>2, SyncRunner
  <2>3. CASE r # s
    BY <1>1, <1>2, <1>3, <1>4, <2>1, <2>3, OtherTurns, SameRunner
  <2> QED BY <2>2, <2>3
<1> QED BY <1>5 DEF RunnersKept

\* onJob.
LEMMA OnJobKeepsRunner ==
    ASSUME TypeOK, RunnersKept, NEW s \in Servers, NEW turns, OnJob(s, turns),
           UNCHANGED <<queues, started, life, cut>>
    PROVE  RunnersKept'
<1>1. CASE paused' = paused \cup {s} /\ Sync(s, FALSE, turns)
  <2>1. open' = open /\ consumerPool' = consumerPool /\ overlapped \subseteq overlapped'
    BY <1>1 DEF Sync, SyncGraphile
  <2>2. ASSUME NEW r \in Servers, r \notin overlapped', r \notin cut' PROVE RunnerKept(r)'
    <3>1. RunnerKept(r)
      BY <2>1, <2>2 DEF RunnersKept
    <3>2. CASE r = s
      <4>1. Consumes(s)' <=> FALSE
        BY <1>1 DEF Consumes
      <4>2. CASE Alive(s)
        BY <1>1, <2>2, <3>1, <3>2, <4>1, <4>2, SyncRunner
      <4>3. CASE ~Alive(s)
        BY <3>2, <4>3 DEF RunnerKept, Alive
      <4> QED BY <4>2, <4>3
    <3>3. CASE r # s
      <4>1. (Consumes(r)' <=> Consumes(r)) /\ (Alive(r)' => Alive(r))
        BY <1>1, <3>3 DEF Consumes, Alive
      <4> QED BY <1>1, <2>1, <3>1, <3>3, <4>1, OtherTurns, SameRunner
    <3> QED BY <3>2, <3>3
  <2> QED BY <2>2 DEF RunnersKept
<1>2. CASE UNCHANGED <<paused, graphileVars, overlapped>>
  <2>1. ASSUME NEW r \in Servers, r \notin overlapped', r \notin cut' PROVE RunnerKept(r)'
    <3>1. RunnerKept(r)
      BY <1>2, <2>1 DEF RunnersKept
    <3>2. (Consumes(r)' <=> Consumes(r)) /\ (Alive(r)' => Alive(r))
      BY <1>2 DEF Consumes, Alive
    <3> QED BY <1>2, <3>1, <3>2, SameRunner DEF graphileVars
  <2> QED BY <2>1 DEF RunnersKept
<1> QED BY <1>1, <1>2 DEF OnJob

\* Steps that do not concern the runners.
LEMMA RestKeepsRunner ==
    ASSUME TypeOK, RunnersKept,
           UNCHANGED <<queues, started, paused, life, graphileVars, overlapped>>, cut \subseteq cut'
    PROVE  RunnersKept'
<1>1. ASSUME NEW r \in Servers, r \notin overlapped', r \notin cut' PROVE RunnerKept(r)'
  <2>1. RunnerKept(r)
    BY <1>1 DEF RunnersKept
  <2>2. (Consumes(r)' <=> Consumes(r)) /\ (Alive(r)' => Alive(r))
    BY DEF Consumes, Alive
  <2> QED BY <2>1, <2>2, SameRunner DEF graphileVars
<1> QED BY <1>1 DEF RunnersKept

\* The turn of a call that is under way.
LEMMA TurnOfCall ==
    ASSUME NEW s \in Servers, RunnerKept(s), "graphile" \in queues, Alive(s),
           NEW n \in Turns, stage[s][n] \in {"pool", "starting", "halting"}
    PROVE  InTurn(s, n)
<1>1. ~AtRest(s)
  BY DEF AtRest
<1>2. PICK k \in Turns : InTurn(s, k)
  BY <1>1 DEF RunnerKept
<1>3. k = n
  BY <1>2 DEF InTurn
<1> QED BY <1>2, <1>3

\* GraphileQueue.
LEMMA GraphileKeepsRunner ==
    ASSUME TypeOK, RunnersKept, NEW s \in Servers, NEW n \in Turns, GraphileStep(s, n)
    PROVE  RunnersKept'
<1>1. CASE TakeJob(s, n)
  BY <1>1, OnJobKeepsRunner DEF TakeJob
<1>2. CASE PoolCreated(s, n) \/ RunStarted(s, n) \/ RunFails(s, n) \/ Halted(s, n)
  <2>0. /\ stage \in [Servers -> [Turns -> RunnerStages]]
        /\ open \in [Servers -> SUBSET Turns]
        /\ runner \in [Servers -> Turns \cup {None}]
        /\ consumerPool \in [Servers -> Turns \cup {None}]
    BY DEF TypeOK
  <2>1. /\ UNCHANGED <<queues, started, paused, life, overlapped>>
        /\ cut' = cut \/ (cut' = cut \cup {s} /\ RunFails(s, n))
    BY <1>2 DEF PoolCreated, RunStarted, RunFails, Halted, callVars, history
  <2>2. \A r \in Servers \ {s} : /\ stage'[r] = stage[r] /\ runner'[r] = runner[r]
                                 /\ open'[r] = open[r] /\ consumerPool'[r] = consumerPool[r]
    <3>1. CASE PoolCreated(s, n)
      BY <2>0, <3>1 DEF PoolCreated
    <3>2. CASE RunStarted(s, n) \/ RunFails(s, n)
      BY <2>0, <3>2 DEF RunStarted, RunFails
    <3>3. CASE Halted(s, n)
      BY <2>0, <3>3 DEF Halted
    <3> QED BY <1>2, <3>1, <3>2, <3>3
  <2>3. ASSUME NEW r \in Servers, r \notin overlapped', r \notin cut' PROVE RunnerKept(r)'
    <3>1. RunnerKept(r)
      BY <2>1, <2>3 DEF RunnersKept
    <3>2. (Consumes(r)' <=> Consumes(r)) /\ (Alive(r)' => Alive(r))
      BY <2>1 DEF Consumes, Alive
    <3>3. CASE r # s
      BY <2>1, <2>2, <3>1, <3>2, <3>3, SameRunner
    <3>4. CASE r = s
      <4> SUFFICES ASSUME "graphile" \in queues, Alive(s)
                   PROVE  AtRest(s)' \/ InTurn(s, n)'
        BY <2>1, <3>2, <3>4 DEF RunnerKept
      <4>1. stage[s][n] \in {"pool", "starting", "halting"} /\ s \notin cut'
        BY <1>2, <2>3, <3>4 DEF PoolCreated, RunStarted, RunFails, Halted
      <4>2. InTurn(s, n)
        BY <3>1, <3>4, <4>1, TurnOfCall
      <4>3. n # None /\ \A m \in Turns : m # n => stage[s][m] = "none"
        BY <4>2, TurnNumbers DEF InTurn
      <4>4. ~RunFails(s, n)
        BY <4>1 DEF RunFails
      <4>5. CASE PoolCreated(s, n)
        <5>1. stage[s][n] = "pool" /\ stage' = [stage EXCEPT ![s][n] = "starting"]
          BY <4>5 DEF PoolCreated
        <5>2. \A m \in Turns : stage'[s][m] = IF m = n THEN "starting" ELSE "none"
          BY <2>0, <4>3, <5>1
        <5>3. Consumes(s) /\ open[s] = {} /\ runner[s] = None
          BY <4>2, <5>1 DEF InTurn
        <5>4. open'[s] = {n} /\ consumerPool'[s] = n /\ runner'[s] = None
          BY <2>0, <4>5, <5>3 DEF PoolCreated
        <5>5. Consumes(s)'
          BY <3>2, <3>4, <5>3
        <5> QED BY <5>2, <5>4, <5>5 DEF InTurn
      <4>6. CASE RunStarted(s, n)
        <5>1. stage[s][n] = "starting" /\ stage' = [stage EXCEPT ![s][n] = "live"]
          BY <4>6 DEF RunStarted
        <5>2. \A m \in Turns : stage'[s][m] = IF m = n THEN "live" ELSE "none"
          BY <2>0, <4>3, <5>1
        <5>3. Consumes(s) /\ open[s] = {n} /\ consumerPool[s] = n
          BY <4>2, <5>1 DEF InTurn
        <5>4. open'[s] = {n} /\ consumerPool'[s] = n /\ runner'[s] = n
          BY <2>0, <4>6, <5>3 DEF RunStarted
        <5>5. Consumes(s)'
          BY <3>2, <3>4, <5>3
        <5> QED BY <4>3, <5>2, <5>4, <5>5 DEF AtRest
      <4>7. CASE Halted(s, n)
        <5>1. stage[s][n] = "halting" /\ stage' = [stage EXCEPT ![s][n] = "none"]
          BY <4>7 DEF Halted
        <5>2. \A m \in Turns : stage'[s][m] = "none"
          BY <2>0, <4>3, <5>1
        <5>3. ~Consumes(s) /\ open[s] = {n} /\ consumerPool[s] = n /\ runner[s] = None
          BY <4>2, <5>1 DEF InTurn
        <5>4. open'[s] = {} /\ runner'[s] = None
          BY <2>0, <4>7, <5>3 DEF Halted
        <5>5. ~Consumes(s)'
          BY <3>2, <3>4, <5>3
        <5>6. None \notin Turns
          BY TurnNumbers
        <5> QED BY <5>2, <5>4, <5>5, <5>6 DEF AtRest
      <4> QED BY <1>2, <4>4, <4>5, <4>6, <4>7
    <3> QED BY <3>3, <3>4
  <2> QED BY <2>3 DEF RunnersKept
<1> QED BY <1>1, <1>2 DEF GraphileStep

LEMMA DieKeepsRunner ==
    ASSUME TypeOK, RunnersKept, NEW s \in Servers, Die(s)
    PROVE  RunnersKept'
<1>1. /\ life'[s] = "dead"
      /\ \A r \in Servers \ {s} :
            /\ stage'[r] = stage[r] /\ runner'[r] = runner[r] /\ life'[r] = life[r]
            /\ open'[r] = open[r] /\ consumerPool'[r] = consumerPool[r]
  BY DEF Die, TypeOK
<1>2. /\ UNCHANGED <<queues, overlapped, cut>>
      /\ started' = started \ {s} /\ paused' = paused \ {s}
  BY DEF Die, history
<1>3. ASSUME NEW r \in Servers, r \notin overlapped', r \notin cut' PROVE RunnerKept(r)'
  <2>1. RunnerKept(r)
    BY <1>2, <1>3 DEF RunnersKept
  <2>2. CASE r = s
    BY <1>1, <2>2 DEF RunnerKept, Alive
  <2>3. CASE r # s
    <3>1. (Consumes(r)' <=> Consumes(r)) /\ (Alive(r)' => Alive(r))
      BY <1>1, <1>2, <2>3 DEF Consumes, Alive
    <3> QED BY <1>1, <1>2, <2>1, <2>3, <3>1, SameRunner
  <2> QED BY <2>2, <2>3
<1> QED BY <1>3 DEF RunnersKept

\* The S3Queue does not concern the runners, but for the calls of onJob.
LEMMA S3KeepsRunner ==
    ASSUME TypeOK, RunnersKept, NEW s \in Servers, NEW n \in Turns, S3Step(s, n)
    PROVE  RunnersKept'
<1>1. CASE GetObject(s, n)
  <2>1. /\ OnJob(s, [loop[s] EXCEPT ![n] = "run"])
        /\ UNCHANGED <<queues, started, life, cut>>
    BY <1>1 DEF GetObject
  <2> QED BY <2>1, OnJobKeepsRunner
<1>2. CASE \/ TimerFires(s, n) \/ ListObjects(s, n) \/ RunJob(s, n) \/ DeleteObject(s, n)
           \/ ReadFails(s, n)
  <2>1. /\ UNCHANGED <<queues, started, paused, life, graphileVars, overlapped>>
        /\ cut \subseteq cut'
    BY <1>2 DEF TimerFires, ListObjects, RunJob, DeleteObject, ReadFails, callVars, history
  <2> QED BY <2>1, RestKeepsRunner
<1> QED BY <1>1, <1>2 DEF S3Step

\* The invariant is inductive, given the types.
LEMMA RunnersStep == TypeOK /\ RunnersKept /\ [Next]_vars => RunnersKept'
<1> SUFFICES ASSUME TypeOK, RunnersKept, [Next]_vars PROVE RunnersKept'
  OBVIOUS
<1>1. CASE UNCHANGED vars \/ (\E j \in Jobs : Enqueue(j)) \/ (\E s \in Servers : TakenRuns(s))
  <2>1. /\ UNCHANGED <<queues, started, paused, life, graphileVars, overlapped>>
        /\ cut \subseteq cut'
    BY <1>1 DEF vars, callVars, history, Enqueue, TakenRuns
  <2> QED BY <2>1, RestKeepsRunner
<1> QED BY <1>1, CallsKeepRunner, GraphileKeepsRunner, S3KeepsRunner, DieKeepsRunner DEF Next

\* A GraphileQueue at rest has one runner, on the one open pool, exactly when its server
\* consumes.
THEOREM OneRunner == Spec => []RunnerAtRest
<1>1. Init => RunnersKept
  <2> SUFFICES ASSUME Init, NEW s \in Servers PROVE RunnerKept(s)
    BY DEF RunnersKept
  <2>1. AtRest(s)
    BY TurnNumbers DEF Init, AtRest, Consumes
  <2> QED BY <2>1 DEF RunnerKept
<1>2. TypeOK /\ RunnersKept => RunnerAtRest
  <2> SUFFICES ASSUME TypeOK, RunnersKept, NEW s \in Servers \ (overlapped \cup cut),
                      "graphile" \in queues, Alive(s), ~InCall(s)
               PROVE  /\ Consumes(s) <=> runner[s] # None
                      /\ {n \in Turns : stage[s][n] = "live"} = {runner[s]} \ {None}
                      /\ open[s] = {runner[s]} \ {None}
    BY DEF RunnerAtRest
  <2>1. \A n \in Turns : ~InTurn(s, n)
    BY DEF InTurn, InCall
  <2>2. AtRest(s)
    BY <2>1 DEF RunnersKept, RunnerKept
  <2>3. runner[s] \in Turns \cup {None} /\ None \notin Turns
    BY TurnNumbers DEF TypeOK
  <2>4. {n \in Turns : stage[s][n] = "live"} = {runner[s]} \ {None}
    BY <2>2, <2>3 DEF AtRest
  <2> QED BY <2>2, <2>4 DEF AtRest
<1> QED BY <1>1, <1>2, TypeInit, TypeStep, RunnersStep, PTL DEF Spec
-----------------------------------------------------------------------------
(* Jobs of S3 run before they are deleted *)

\* The object that a turn is about to delete holds a job that has run.
ObjectsHandled ==
    \A s \in Servers, n \in Turns : loop[s][n] = "delete" => First(s, n) \in ran

\* What syncState makes of the turns.
Resynced(s, turns) ==
    \E cleared \in {Cleared(s, turns)} :
        loop' \in {[loop EXCEPT ![s] = cleared],
                  [loop EXCEPT ![s] = [cleared EXCEPT ![NewTurn(s)] = "list"]]}

\* syncState and onJob set no turn to deleting.
LEMMA SyncDeletes ==
    ASSUME TypeOK, NEW s \in Servers, NEW turns, Resynced(s, turns),
           NEW r \in Servers, NEW k \in Turns, loop'[r][k] = "delete"
    PROVE  IF r = s THEN turns[k] = "delete" ELSE loop[r][k] = "delete"
<1>1. loop \in [Servers -> [Turns -> LoopStages]]
  BY DEF TypeOK
<1>2. PICK cleared \in {Cleared(s, turns)} :
          loop' \in {[loop EXCEPT ![s] = cleared],
                    [loop EXCEPT ![s] = [cleared EXCEPT ![NewTurn(s)] = "list"]]}
  BY DEF Resynced
<1>3. DOMAIN cleared = Turns /\ (cleared[k] = "delete" => turns[k] = "delete")
  BY <1>2 DEF Cleared
<1> QED BY <1>1, <1>2, <1>3

LEMMA OnJobDeletes ==
    ASSUME TypeOK, NEW s \in Servers, NEW turns, OnJob(s, turns),
           \A n \in Turns : turns[n] = "delete" => loop[s][n] = "delete",
           NEW r \in Servers, NEW k \in Turns, loop'[r][k] = "delete"
    PROVE  loop[r][k] = "delete"
<1>1. CASE SyncS3(s, FALSE, turns)
  <2>0. Resynced(s, turns)
    BY <1>1 DEF SyncS3, Resynced
  <2>1. IF r = s THEN turns[k] = "delete" ELSE loop[r][k] = "delete"
    BY <2>0, SyncDeletes
  <2> QED BY <2>1
<1>2. CASE loop' = [loop EXCEPT ![s] = turns]
  <2>1. IF r = s THEN turns[k] = "delete" ELSE loop[r][k] = "delete"
    BY <1>2 DEF TypeOK
  <2> QED BY <2>1
<1> QED BY <1>1, <1>2 DEF OnJob, Sync

\* What has been run and listed stays so while a turn deletes.
LEMMA SameHandled ==
    ASSUME ObjectsHandled, ran \subseteq ran',
           \A r \in Servers, k \in Turns :
               loop'[r][k] = "delete" => loop[r][k] = "delete" /\ todo'[r][k] = todo[r][k]
    PROVE  ObjectsHandled'
  BY DEF ObjectsHandled, First

\* A turn of the S3Queue begins to delete when its job has run.
LEMMA S3Handles ==
    ASSUME TypeOK, ObjectsHandled, NEW s \in Servers, NEW n \in Turns, S3Step(s, n)
    PROVE  ObjectsHandled'
<1>1. loop \in [Servers -> [Turns -> LoopStages]] /\ todo \in [Servers -> [Turns -> SUBSET Jobs]]
  BY DEF TypeOK
<1>2. CASE RunJob(s, n)
  <2>1. /\ todo' = todo /\ ran' = ran \cup {First(s, n)}
        /\ loop' = [loop EXCEPT ![s][n] = "delete"]
    BY <1>2 DEF RunJob, Goes
  <2>2. \A r \in Servers, k \in Turns :
            loop'[r][k] = "delete" => (r = s /\ k = n) \/ loop[r][k] = "delete"
    BY <1>1, <2>1
  <2>3. \A r \in Servers, k \in Turns : First(r, k)' = First(r, k)
    BY <2>1 DEF First
  <2> QED BY <2>1, <2>2, <2>3 DEF ObjectsHandled
<1>3. CASE GetObject(s, n)
  <2> DEFINE turns == [loop[s] EXCEPT ![n] = "run"]
  <2>1. \A k \in Turns : turns[k] = "delete" => loop[s][k] = "delete"
    BY <1>1
  <2>2. OnJob(s, turns) /\ UNCHANGED <<ran, todo>>
    BY <1>3 DEF GetObject
  <2> HIDE DEF turns
  <2> QED BY <2>1, <2>2, OnJobDeletes, SameHandled
<1>4. CASE TimerFires(s, n)
  <2> DEFINE cleared == Cleared(s, loop[s])
  <2>1. DOMAIN cleared = Turns /\ \A k \in Turns : cleared[k] = "delete" => loop[s][k] = "delete"
    BY DEF Cleared
  <2>2. /\ \E x \in {"list", "none"} : loop' = [loop EXCEPT ![s] = [cleared EXCEPT ![n] = x]]
        /\ UNCHANGED <<ran, todo>>
    BY <1>4 DEF TimerFires
  <2> HIDE DEF cleared
  <2>3. \A r \in Servers, k \in Turns : loop'[r][k] = "delete" => loop[r][k] = "delete"
    BY <1>1, <2>1, <2>2
  <2> QED BY <2>2, <2>3, SameHandled
<1>5. CASE ListObjects(s, n) \/ DeleteObject(s, n) \/ ReadFails(s, n)
  <2>1. PICK x \in {"timer", "get", "none"} : loop' = [loop EXCEPT ![s][n] = x]
    BY <1>5 DEF ListObjects, DeleteObject, ReadFails, SetTimer, Goes
  <2>2. ran' = ran /\ \E S : todo' = [todo EXCEPT ![s][n] = S]
    BY <1>5 DEF ListObjects, DeleteObject, ReadFails
  <2>3. \A r \in Servers, k \in Turns :
            loop'[r][k] = "delete" => loop[r][k] = "delete" /\ todo'[r][k] = todo[r][k]
    BY <1>1, <2>1, <2>2
  <2> QED BY <2>2, <2>3, SameHandled
<1> QED BY <1>2, <1>3, <1>4, <1>5 DEF S3Step

LEMMA HandledStep == TypeOK /\ ObjectsHandled /\ [Next]_vars => ObjectsHandled'
<1> SUFFICES ASSUME TypeOK, ObjectsHandled, [Next]_vars PROVE ObjectsHandled'
  OBVIOUS
<1>1. CASE UNCHANGED vars \/ (\E j \in Jobs : Enqueue(j)) \/ (\E s \in Servers : TakenRuns(s))
  <2>1. loop' = loop /\ todo' = todo /\ ran \subseteq ran'
    BY <1>1 DEF vars, s3Vars, Enqueue, TakenRuns
  <2> QED BY <2>1, SameHandled
<1>2. ASSUME NEW s \in Servers, StartConsumer(s) \/ StopConsumer(s) \/ ResumeConsumer(s)
      PROVE  ObjectsHandled'
  <2>1. ran' = ran /\ todo' = todo
    BY <1>2 DEF StartConsumer, StopConsumer, ResumeConsumer
  <2>2. Resynced(s, loop[s])
    BY <1>2 DEF StartConsumer, StopConsumer, ResumeConsumer, Sync, SyncS3, Resynced
  <2> QED BY <2>1, <2>2, SyncDeletes, SameHandled
<1>3. ASSUME NEW s \in Servers, NEW n \in Turns, GraphileStep(s, n) PROVE ObjectsHandled'
  <2>1. CASE TakeJob(s, n)
    <3>1. OnJob(s, loop[s]) /\ UNCHANGED <<ran, todo>>
      BY <2>1 DEF TakeJob
    <3> QED BY <3>1, OnJobDeletes, SameHandled
  <2>2. CASE PoolCreated(s, n) \/ RunStarted(s, n) \/ RunFails(s, n) \/ Halted(s, n)
    BY <2>2, SameHandled DEF PoolCreated, RunStarted, RunFails, Halted, s3Vars
  <2> QED BY <1>3, <2>1, <2>2 DEF GraphileStep
<1>4. ASSUME NEW s \in Servers, Die(s) PROVE ObjectsHandled'
  <2>1. /\ loop' = [loop EXCEPT ![s] = [n \in Turns |-> "none"]]
        /\ todo' = [todo EXCEPT ![s] = [n \in Turns |-> {}]]
        /\ ran' = ran
    BY <1>4 DEF Die
  <2>2. \A r \in Servers, k \in Turns :
            loop'[r][k] = "delete" => loop[r][k] = "delete" /\ todo'[r][k] = todo[r][k]
    BY <2>1 DEF TypeOK
  <2> QED BY <2>1, <2>2, SameHandled
<1> QED BY <1>1, <1>2, <1>3, <1>4, S3Handles DEF Next

\* A job leaves S3 only when it has run, whichever turn of whichever server deletes it.
THEOREM AtLeastOnce == Spec => RanBeforeDeleted
<1>1. Init => ObjectsHandled
  BY DEF Init, ObjectsHandled
<1>2. TypeOK /\ ObjectsHandled /\ [Next]_vars
      => ["s3" \in queues => store["s3"] \ store'["s3"] \subseteq ran]_vars
  <2> SUFFICES ASSUME TypeOK, ObjectsHandled, Next, "s3" \in queues,
                      NEW j \in store["s3"], j \notin store'["s3"]
               PROVE  j \in ran
    OBVIOUS
  <2>0. store \in [queues -> SUBSET Jobs]
    BY DEF TypeOK
  <2>1. store' # store
    OBVIOUS
  <2>2. ~\E i \in Jobs : Enqueue(i)
    BY <2>0 DEF Enqueue
  <2>3. ~\E s \in Servers : \/ StartConsumer(s) \/ StopConsumer(s) \/ ResumeConsumer(s)
                            \/ TakenRuns(s) \/ Die(s)
    BY <2>1 DEF StartConsumer, StopConsumer, ResumeConsumer, TakenRuns, Die
  <2>4. PICK s \in Servers, n \in Turns : GraphileStep(s, n) \/ S3Step(s, n)
    BY <2>2, <2>3 DEF Next
  <2>5. ~GraphileStep(s, n)
    <3>1. ~TakeJob(s, n)
      BY <2>0 DEF TakeJob
    <3> QED BY <2>1, <3>1 DEF GraphileStep, PoolCreated, RunStarted, RunFails, Halted
  <2>6. DeleteObject(s, n)
    BY <2>1, <2>4, <2>5 DEF S3Step, TimerFires, ListObjects, GetObject, RunJob, ReadFails
  <2>7. j = First(s, n)
    BY <2>0, <2>6 DEF DeleteObject
  <2> QED BY <2>6, <2>7 DEF DeleteObject, ObjectsHandled
<1> QED BY <1>1, <1>2, TypeInit, TypeStep, HandledStep, PTL DEF Spec, RanBeforeDeleted
=============================================================================
