------------------------ MODULE AsyncMigrationsProofs ------------------------
(***************************************************************************)
(* Async migrations, for any chain of migrations, any number of workers    *)
(* and requests, killed at any time: type correctness, operations reached  *)
(* in order, the implementation of MigrationChain, and what the status of  *)
(* a migration tells of its effects.                                       *)
(***************************************************************************)
EXTENDS MigrationEffects, FiniteSetTheorems, TLAPS

USE MigrationConstants DEF MigrationConstants

-----------------------------------------------------------------------------
(* The constants *)

\* Migrations are numbers from 1, the tasks' ids are not the empty one.
LEMMA Constants ==
    /\ Len(Operations) \in Nat \ {0}
    /\ Migrations = 1 .. Len(Operations)
    /\ 1 \in Migrations
    /\ \A m \in Migrations : Length[m] \in Nat /\ Operations[m] \in Seq(Rollbacks)
    /\ DOMAIN Length = Migrations
    /\ NewRow \in Rows
<1>1. Len(Operations) \in Nat \ {0}
  OBVIOUS
<1>2. \A m \in Migrations : Operations[m] \in Seq(Rollbacks)
  BY <1>1 DEF Migrations
<1> QED BY <1>1, <1>2 DEF Migrations, Length, NewRow, Rows, Statuses

-----------------------------------------------------------------------------
(* Type correctness *)

\* The end of a process leaves its locals well typed.
LEMMA FinishType ==
    ASSUME TypeOK, NEW p \in Procs, Finish(p)
    PROVE  /\ pc' \in [Procs -> Stages] /\ mig' \in [Procs -> Migrations]
           /\ copy' \in [Procs -> Rows] /\ job' \in [Procs -> Tasks \cup {NoTask}]
  BY Constants DEF Finish, Goto, Forget, Ended, TypeOK, Stages

\* So does going on.
LEMMA ContinueType ==
    ASSUME TypeOK, NEW p \in Procs, NEW s \in Stages, Continue(p, s)
    PROVE  /\ pc' \in [Procs -> Stages] /\ mig' \in [Procs -> Migrations]
           /\ copy' \in [Procs -> Rows] /\ job' \in [Procs -> Tasks \cup {NoTask}]
  BY DEF Continue, locals, Goto, TypeOK

\* A remembered instance and a written row are rows.
LEMMA RowType ==
    ASSUME TypeOK, NEW m \in Migrations, NEW r \in Rows
    PROVE  /\ UpdateRow(m, r) => row' \in [Migrations -> Rows]
           /\ \A p \in Procs : Remember(p, r) => copy' \in [Procs -> Rows]
  BY DEF UpdateRow, Remember, TypeOK

\* A row stays a row when one field is replaced.
LEMMA FieldType ==
    ASSUME NEW r \in Rows
    PROVE  /\ \A s \in Statuses : [r EXCEPT !.status = s] \in Rows
           /\ \A i \in Nat : [r EXCEPT !.index = i] \in Rows
           /\ \A t \in Tasks \cup {NoTask} : [r EXCEPT !.task = t] \in Rows
  BY DEF Rows

\* The start of a server keeps the types: what it writes is a row it has read.
LEMMA SetupType ==
    ASSUME TypeOK, NEW p \in Requests, StartServer(p) \/ SetupStep(p), UNCHANGED request
    PROVE  TypeOK'
<1> USE Constants
<1> p \in Procs /\ mig[p] \in Migrations /\ row[mig[p]] \in Rows /\ copy[p] \in Rows
  BY DEF Procs, TypeOK
<1>1. CASE StartServer(p)
  <2>1. known' \in [Requests -> SUBSET Migrations]
    BY <1>1 DEF StartServer, TypeOK
  <2> QED BY <1>1, <2>1, ContinueType DEF StartServer, TypeOK, tables, celery, history, Stages
<1>2. CASE SetupFetch(p)
  BY <1>2, RowType DEF SetupFetch, Goto, TypeOK, tables, celery, history, Stages
<1>3. CASE SetupSave(p)
  <2>1. row' \in [Migrations -> Rows]
    BY <1>3, RowType DEF SetupSave
  <2>2. known' \in [Requests -> SUBSET Migrations]
    BY <1>3 DEF SetupSave, TypeOK
  <2>3. /\ pc' \in [Procs -> Stages] /\ mig' \in [Procs -> Migrations]
        /\ copy' \in [Procs -> Rows] /\ job' \in [Procs -> Tasks \cup {NoTask}]
    <3>1. CASE Finish(p)
      BY <3>1, FinishType
    <3>2. CASE /\ \E m \in Migrations : mig' = [mig EXCEPT ![p] = m]
               /\ Goto(p, "setup") \/ Goto(p, "lookup")
               /\ UNCHANGED <<copy, job>>
      BY <3>2 DEF Goto, TypeOK, Stages
    <3> QED BY <1>3, <3>1, <3>2 DEF SetupSave, EndSetup
  <2> QED BY <1>3, <2>1, <2>2, <2>3 DEF SetupSave, TypeOK, celery, history
<1> QED BY <1>1, <1>2, <1>3 DEF SetupStep

\* Every variable keeps its type.
THEOREM TypeCorrect == Spec => []TypeOK
<1>1. Init => TypeOK
  BY Constants DEF Init, TypeOK, Stages
<1>2. TypeOK /\ [Next]_vars => TypeOK'
  <2> SUFFICES ASSUME TypeOK, [Next]_vars PROVE TypeOK'
    OBVIOUS
  <2> USE Constants
  <2>1. ASSUME NEW p \in Requests, Begin(p), UNCHANGED <<request, known>> PROVE TypeOK'
    <3>1. PICK m \in Migrations :
              /\ mig' = [mig EXCEPT ![p] = m]
              /\ Trigger(p, m) \/ Stop(p, m) \/ ForceRollback(p, m)
      BY <2>1 DEF Begin
    <3>2. row[m].task \in Tasks \cup {NoTask} /\ NewRow \in Rows
      BY DEF TypeOK, Rows
    <3>3. [NewRow EXCEPT !.task = row[m].task] \in Rows
      BY <3>2, FieldType
    <3>4. copy' \in [Procs -> Rows] /\ pc' \in [Procs -> Stages]
      BY <3>1, <3>3, RowType DEF Trigger, Stop, ForceRollback, Goto, TypeOK,
         Stages, Procs
    <3> QED BY <2>1, <3>1, <3>4 DEF Begin, TypeOK, tables, celery, history, Procs
  <2>2. ASSUME NEW p \in Requests, RequestStep(p), UNCHANGED <<request, known>> PROVE TypeOK'
    <3> p \in Procs /\ mig[p] \in Migrations /\ row[mig[p]] \in Rows /\ copy[p] \in Rows
      BY DEF Procs, TypeOK
    <3>1. CASE Fetch(p)
      BY <2>2, <3>1, RowType DEF Fetch, Goto, TypeOK, tables, celery, history, Stages
    <3>2. CASE SaveStarting(p)
      <4>1. [copy[p] EXCEPT !.status = "Starting"] \in Rows
        BY FieldType DEF Statuses
      <4>2. row' \in [Migrations -> Rows]
        BY <3>2, <4>1, RowType DEF SaveStarting
      <4> QED BY <2>2, <3>2, <4>2, ContinueType DEF SaveStarting, TypeOK, celery, history, Stages
    <3>3. CASE Revoke(p)
      <4>1. revoked' \in SUBSET Tasks /\ queue' \in SUBSET (Tasks \X Migrations)
        BY <3>3 DEF Revoke, TypeOK, Rows
      <4> QED BY <2>2, <3>3, <4>1, ContinueType DEF Revoke, TypeOK, tables, history, Stages
    <3>4. CASE ForcedFails(p)
      <4>1. [row[mig[p]] EXCEPT !.status = "Errored"] \in Rows
        BY FieldType DEF Statuses
      <4>2. row' \in [Migrations -> Rows]
        BY <3>4, <4>1, RowType DEF ForcedFails
      <4> QED BY <2>2, <3>4, <4>2, FinishType DEF ForcedFails, TypeOK, celery, history
    <3> QED BY <2>2, <3>1, <3>2, <3>3, <3>4 DEF RequestStep
  <2>3. ASSUME NEW p \in Procs, SharedStep(p), UNCHANGED <<request, known>> PROVE TypeOK'
    <3> mig[p] \in Migrations /\ row[mig[p]] \in Rows /\ copy[p] \in Rows
      BY DEF TypeOK
    <3>1. CASE Lookup(p)
      <4>1. [NewRow EXCEPT !.status = row[mig[p]].status] \in Rows
        BY FieldType DEF Rows
      <4> QED BY <2>3, <3>1, <4>1, RowType DEF Lookup, Goto, TypeOK, tables, celery, history,
              Stages
    <3>2. CASE Delay(p)
      <4>1. queued' \in Tasks /\ queued' \in 0 .. MaxTasks /\ queue' \in SUBSET (Tasks \X Migrations)
        BY <3>2 DEF Delay, TypeOK, Tasks
      <4>2. [NewRow EXCEPT !.task = queued'] \in Rows
        BY <4>1, FieldType
      <4>3. copy' \in [Procs -> Rows]
        BY <3>2, <4>2, RowType DEF Delay
      <4> QED BY <2>3, <3>2, <4>1, <4>3 DEF Delay, Goto, TypeOK, tables, history, Stages, Tasks
    <3>3. CASE NoTrigger(p)
      BY <2>3, <3>3, FinishType DEF NoTrigger, TypeOK, tables, celery, history
    <3>4. CASE RecordTask(p)
      <4>1. copy[p].task \in Tasks \cup {NoTask}
        BY DEF Rows
      <4>2. [row[mig[p]] EXCEPT !.task = copy[p].task] \in Rows
        BY <4>1, FieldType
      <4>3. row' \in [Migrations -> Rows]
        BY <3>4, <4>2, RowType DEF RecordTask
      <4> QED BY <2>3, <3>4, <4>3, FinishType DEF RecordTask, TypeOK, celery, history
    <3>5. CASE ProcessError(p)
      <4>1. [row[mig[p]] EXCEPT !.status = "Errored"] \in Rows
        BY FieldType DEF Statuses
      <4>2. row' \in [Migrations -> Rows]
        BY <3>5, <4>1, RowType DEF ProcessError
      <4> QED BY <2>3, <3>5, <4>2, ContinueType DEF ProcessError, TypeOK, celery, history, Stages
    <3>6. CASE BeginRollback(p)
      <4>1. OpsToUndo(mig[p]) \in Nat
        BY DEF Rows, OpsToUndo
      <4>2. copy' \in [Procs -> Rows]
        <5>1. [NewRow EXCEPT !.index = OpsToUndo(mig[p])] \in Rows
          BY <4>1, FieldType
        <5> QED BY <3>6, <5>1, RowType DEF BeginRollback, RememberIndex
      <4> QED BY <2>3, <3>6, <4>2 DEF BeginRollback, Goto, TypeOK, tables, celery, history, Stages
    <3>7. CASE Undo(p)
      <4> DEFINE m == mig[p]
                 k == copy[p].index
                 undone == IF Operations[m][k] = "sql"
                           THEN [applied EXCEPT ![m] = @ \ {k - 1}] ELSE applied
      <4>1. k \in Nat /\ k > 0
        BY <3>7 DEF Undo, Rows
      <4>0. undone \in [Migrations -> SUBSET Nat] /\ applied \in [Migrations -> SUBSET Nat]
        BY DEF TypeOK
      <4>2. CASE /\ applied' = undone
                 /\ RememberIndex(p, k - 1)
                 /\ UNCHANGED <<pc, mig, job>>
        <5> k - 1 \in Nat
          BY <4>1
        <5>1. [NewRow EXCEPT !.index = k - 1] \in Rows
          BY FieldType
        <5>2. copy' \in [Procs -> Rows]
          BY <4>2, <5>1, RowType DEF RememberIndex
        <5>3. applied' \in [Migrations -> SUBSET Nat]
          BY <4>0, <4>2
        <5> QED BY <2>3, <3>7, <4>2, <5>2, <5>3 DEF Undo, TypeOK, celery, history
      <4>3. CASE Continue(p, "failed") /\ applied' \in {applied, undone}
        <5>1. applied' \in [Migrations -> SUBSET Nat]
          BY <4>0, <4>3
        <5> QED BY <2>3, <3>7, <4>3, <5>1, ContinueType DEF Undo, TypeOK, celery, history, Stages
      <4>4. CASE Finish(p) /\ applied' \in {applied, undone}
        <5>1. applied' \in [Migrations -> SUBSET Nat]
          BY <4>0, <4>4
        <5> QED BY <2>3, <3>7, <4>4, <5>1, FinishType DEF Undo, TypeOK, celery, history
      <4> QED BY <3>7, <4>2, <4>3, <4>4 DEF Undo
    <3>8. CASE RolledBack(p)
      <4>1. [row[mig[p]] EXCEPT !.status = "RolledBack"] \in Rows
        BY FieldType DEF Statuses
      <4>2. row' \in [Migrations -> Rows]
        BY <3>8, <4>1, RowType DEF RolledBack
      <4> QED BY <2>3, <3>8, <4>2, FinishType DEF RolledBack, TypeOK, celery, history
    <3> QED BY <2>3, <3>1, <3>2, <3>3, <3>4, <3>5, <3>6, <3>7, <3>8 DEF SharedStep
  <2>4. ASSUME NEW w \in Workers, WorkerStep(w), UNCHANGED <<request, known>> PROVE TypeOK'
    <3> w \in Procs /\ mig[w] \in Migrations /\ row[mig[w]] \in Rows /\ copy[w] \in Rows
      BY DEF Procs, TypeOK
    <3>1. CASE Take(w)
      <4>1. PICK t \in queue :
                /\ queue' = queue \ {t}
                /\ mig' = [mig EXCEPT ![w] = t[2]]
                /\ job' = [job EXCEPT ![w] = t[1]]
                /\ Remember(w, [NewRow EXCEPT !.status = row[t[2]].status])
        BY <3>1 DEF Take
      <4>2. t[1] \in Tasks /\ t[2] \in Migrations
        BY DEF TypeOK
      <4>3. row[t[2]].status \in Statuses
        BY <4>2 DEF TypeOK, Rows
      <4>4. [NewRow EXCEPT !.status = row[t[2]].status] \in Rows
        BY <4>3, FieldType
      <4>5. copy' \in [Procs -> Rows]
        BY <4>1, <4>4, RowType
      <4> QED BY <2>4, <3>1, <4>1, <4>2, <4>5 DEF Take, Goto, TypeOK, tables, history, Stages
    <3>2. CASE CheckStart(w)
      BY <2>4, <3>2, FinishType, ContinueType DEF CheckStart, MayStart, TypeOK, tables, celery, history, Stages
    <3>3. CASE CheckDependency(w)
      BY <2>4, <3>3, ContinueType DEF CheckDependency, TypeOK, tables, celery, history, Stages
    <3>4. CASE MarkRunning(w)
      <4>1. [status |-> "Running", index |-> 0, task |-> NoTask] \in Rows
        BY DEF Rows, Statuses
      <4>2. row' \in [Migrations -> Rows]
        BY <3>4, <4>1, RowType DEF MarkRunning
      <4> QED BY <2>4, <3>4, <4>2, ContinueType DEF MarkRunning, TypeOK, celery, history, Stages
    <3>5. CASE NextOp(w)
      <4>1. [NewRow EXCEPT !.index = row[mig[w]].index] \in Rows
        BY FieldType DEF Rows
      <4>2. copy' \in [Procs -> Rows]
        BY <3>5, <4>1, RowType DEF NextOp, RememberIndex
      <4> QED BY <2>4, <3>5, <4>2 DEF NextOp, Goto, TypeOK, tables, celery, history, Stages
    <3>6. CASE Execute(w)
      <4>1. copy[w].index \in Nat
        BY DEF Rows
      <4>2. applied' = applied \/ applied' = [applied EXCEPT ![mig[w]] = @ \cup {copy[w].index}]
        BY <3>6 DEF Execute
      <4>3. ran' = ran \/ ran' = [ran EXCEPT ![mig[w]] = @ \cup {copy[w].index}]
        BY <3>6 DEF Execute
      <4>4. applied' \in [Migrations -> SUBSET Nat]
        <5>1. applied \in [Migrations -> SUBSET Nat]
          BY DEF TypeOK
        <5>2. applied[mig[w]] \cup {copy[w].index} \in SUBSET Nat
          BY <4>1, <5>1
        <5> QED BY <4>2, <5>1, <5>2
      <4>5. ran' \in [Migrations -> SUBSET Nat]
        <5>1. ran \in [Migrations -> SUBSET Nat]
          BY DEF TypeOK
        <5>2. ran[mig[w]] \cup {copy[w].index} \in SUBSET Nat
          BY <4>1, <5>1
        <5> QED BY <4>3, <5>1, <5>2
      <4> QED BY <2>4, <3>6, <4>4, <4>5, ContinueType DEF Execute, TypeOK, celery, Stages
    <3>7. CASE Bump(w)
      <4>1. copy[w].index + 1 \in Nat
        BY DEF Rows
      <4>2. [row[mig[w]] EXCEPT !.index = copy[w].index + 1] \in Rows
        BY <4>1, FieldType
      <4>3. row' \in [Migrations -> Rows]
        BY <3>7, <4>2, RowType DEF Bump
      <4> QED BY <2>4, <3>7, <4>3, ContinueType DEF Bump, TypeOK, celery, history, Stages
    <3>8. CASE CompleteMigration(w)
      <4>1. [row[mig[w]] EXCEPT !.status = "CompletedSuccessfully"] \in Rows
        BY FieldType DEF Statuses
      <4>2. row' \in [Migrations -> Rows]
        BY <3>8, <4>1, RowType DEF CompleteMigration
      <4>3. /\ pc' \in [Procs -> Stages] /\ mig' \in [Procs -> Migrations]
            /\ copy' \in [Procs -> Rows] /\ job' \in [Procs -> Tasks \cup {NoTask}]
        BY <3>8, FinishType DEF CompleteMigration, Goto, TypeOK, Stages
      <4> QED BY <2>4, <3>8, <4>2, <4>3 DEF CompleteMigration, TypeOK, celery
    <3> QED BY <2>4, <3>1, <3>2, <3>3, <3>4, <3>5, <3>6, <3>7, <3>8 DEF WorkerStep
  <2>5. ASSUME NEW w \in Workers, Terminate(w), UNCHANGED <<request, known>> PROVE TypeOK'
    BY <2>5, FinishType DEF Terminate, TypeOK, tables, celery, history, Procs
  <2>6. ASSUME NEW p \in Requests, Crash(p), UNCHANGED <<request, known>> PROVE TypeOK'
    <3>1. PICK q \in Procs : /\ pc' = [pc EXCEPT ![p] = "done", ![q] = Ended(q)]
                             /\ Forget(q)
      BY <2>6 DEF Crash
    <3>2. pc' \in [Procs -> Stages]
      BY <3>1 DEF TypeOK, Stages, Ended
    <3> QED BY <2>6, <3>1, <3>2 DEF Crash, Forget, TypeOK, tables, celery, history
  <2>7. ASSUME NEW p \in Requests, StartServer(p) \/ SetupStep(p), UNCHANGED request
        PROVE  TypeOK'
    BY <2>7, SetupType
  <2>8. CASE UNCHANGED vars
    BY <2>8 DEF vars, tables, celery, locals, history, TypeOK
  <2> QED BY <2>1, <2>2, <2>3, <2>4, <2>5, <2>6, <2>7, <2>8 DEF Next, Procs
<1> QED BY <1>1, <1>2, PTL DEF Spec

-----------------------------------------------------------------------------
(* Operations are reached in order *)

\* What has been executed of a migration is a prefix of its operations.
RanPrefix == \A m \in Migrations : \E k \in 0 .. Length[m] : ran[m] = 0 .. k - 1

\* A completed row has been completed once; a migration all of whose required
\* operations have not run is never completed, nor one begun before the one before.
CompletedRows ==
    /\ \A m \in Migrations : row[m].status = "CompletedSuccessfully" => m \in completed
    /\ \A m \in completed \cap Required : OpsOf(m) \subseteq ran[m]

\* What a process knows of its migration, and why the migration before is completed.
ProcReached(p) ==
    /\ pc[p] \in {"save", "resave", "exec", "bump"} =>
          /\ copy[p].index <= Length[mig[p]]
          /\ 0 .. copy[p].index - 1 \subseteq ran[mig[p]]
    /\ pc[p] = "resave" /\ copy[p].status = "CompletedSuccessfully" => mig[p] \in completed
    /\ pc[p] \in {"exec", "bump"} => copy[p].index < Length[mig[p]]
    /\ pc[p] = "bump" => copy[p].index \in ran[mig[p]]
    /\ pc[p] = "complete" /\ mig[p] \in Required => OpsOf(mig[p]) \subseteq ran[mig[p]]
    /\ pc[p] \in {"mark", "next", "exec", "bump"} => mig[p] = 1 \/ mig[p] - 1 \in completed

Reached ==
    /\ OperationsInOrder
    /\ RanPrefix
    /\ CompletedRows
    /\ \A p \in Procs : ProcReached(p)

\* ran and completed only grow, so what a process knew stays true.
LEMMA KnowledgeKept ==
    ASSUME TypeOK, NEW q \in Procs, ProcReached(q),
           pc'[q] = pc[q], mig'[q] = mig[q], copy'[q] = copy[q],
           \A m \in Migrations : ran[m] \subseteq ran'[m], completed \subseteq completed'
    PROVE  ProcReached(q)'
<1>1. mig[q] \in Migrations
  BY DEF TypeOK
<1>2. ran[mig[q]] \subseteq ran'[mig[q]]
  BY <1>1
<1> QED BY <1>1, <1>2 DEF ProcReached

\* A process that has ended, or is at a stage of which nothing is required.
LEMMA NothingKnown ==
    ASSUME NEW q \in Procs,
           pc'[q] \notin {"save", "resave", "exec", "bump", "complete", "mark", "next"}
    PROVE  ProcReached(q)'
  BY DEF ProcReached

\* Steps of process p that leave the rows and the history alone.
LEMMA LocalStep ==
    ASSUME TypeOK, Reached, NEW p \in Procs,
           UNCHANGED <<row, ran, completed>>,
           \A q \in Procs \ {p} : pc'[q] = pc[q] /\ mig'[q] = mig[q] /\ copy'[q] = copy[q],
           ProcReached(p)'
    PROVE  Reached'
<1>1. ASSUME NEW q \in Procs PROVE ProcReached(q)'
  <2>1. CASE q = p
    BY <2>1
  <2>2. CASE q # p
    BY <2>2, KnowledgeKept DEF Reached
  <2> QED BY <2>1, <2>2
<1> QED BY <1>1 DEF Reached, OperationsInOrder, RanPrefix, CompletedRows

\* Steps of process p that write a row whose index has been reached.
LEMMA RowStep ==
    ASSUME TypeOK, Reached, NEW p \in Procs, NEW m \in Migrations, NEW r \in Rows,
           UpdateRow(m, r), UNCHANGED ran,
           r.index <= Length[m], 0 .. r.index - 1 \subseteq ran[m],
           r.status = "CompletedSuccessfully" => m \in completed',
           completed \subseteq completed', completed' \subseteq completed \cup {m},
           m \in completed' \cap Required => OpsOf(m) \subseteq ran[m],
           \A q \in Procs \ {p} : pc'[q] = pc[q] /\ mig'[q] = mig[q] /\ copy'[q] = copy[q],
           ProcReached(p)'
    PROVE  Reached'
<1>1. ASSUME NEW q \in Procs PROVE ProcReached(q)'
  <2>1. CASE q = p
    BY <2>1
  <2>2. CASE q # p
    BY <2>2, KnowledgeKept DEF Reached
  <2> QED BY <2>1, <2>2
<1>2. row'[m] = r /\ \A n \in Migrations \ {m} : row'[n] = row[n]
  BY DEF UpdateRow, TypeOK
<1>3. OperationsInOrder'
  BY <1>2 DEF OperationsInOrder, Reached
<1>4. CompletedRows'
  BY <1>2 DEF CompletedRows, Reached
<1> QED BY <1>1, <1>3, <1>4 DEF Reached, RanPrefix

\* The process that steps is the only one whose locals change.
LEMMA OthersKeep ==
    ASSUME TypeOK, NEW p \in Procs
    PROVE  /\ Finish(p) => /\ \A q \in Procs \ {p} : /\ pc'[q] = pc[q] /\ mig'[q] = mig[q]
                                                     /\ copy'[q] = copy[q]
                           /\ pc'[p] \in {"idle", "done"}
           /\ \A s \in Stages : Continue(p, s) =>
                 /\ \A q \in Procs \ {p} : /\ pc'[q] = pc[q] /\ mig'[q] = mig[q]
                                           /\ copy'[q] = copy[q]
                 /\ pc'[p] = s /\ mig'[p] = mig[p] /\ copy'[p] = copy[p]
           /\ \A s \in Stages : Goto(p, s) =>
                 /\ \A q \in Procs \ {p} : pc'[q] = pc[q]
                 /\ pc'[p] = s
           /\ \A r \in Rows : Remember(p, r) =>
                 /\ \A q \in Procs \ {p} : copy'[q] = copy[q]
                 /\ copy'[p] = r
  BY DEF Finish, Forget, Ended, Continue, locals, Goto, Remember, TypeOK

\* So it is when a server start has saved a row.
LEMMA SetupMoves ==
    ASSUME TypeOK, NEW p \in Procs, SetupSave(p)
    PROVE  /\ \A q \in Procs \ {p} : pc'[q] = pc[q] /\ mig'[q] = mig[q] /\ copy'[q] = copy[q]
           /\ pc'[p] \in {"setup", "lookup", "idle", "done"}
<1>1. CASE Finish(p)
  BY <1>1, OthersKeep
<1>2. CASE /\ \E m \in Migrations : mig' = [mig EXCEPT ![p] = m]
           /\ Goto(p, "setup") \/ Goto(p, "lookup")
           /\ UNCHANGED <<copy, job>>
  BY <1>2 DEF Goto, TypeOK
<1> QED BY <1>1, <1>2 DEF SetupSave, EndSetup

\* Requests keep the invariant.
LEMMA RequestsKeep ==
    ASSUME TypeOK, Reached, NEW p \in Requests, Begin(p) \/ RequestStep(p)
    PROVE  Reached'
<1> USE Constants
<1> p \in Procs /\ mig[p] \in Migrations /\ row[mig[p]] \in Rows /\ copy[p] \in Rows
  BY DEF Procs, TypeOK
<1>0. row[mig[p]].index <= Length[mig[p]] /\ 0 .. row[mig[p]].index - 1 \subseteq ran[mig[p]]
  BY DEF Reached, OperationsInOrder
<1>1. CASE Begin(p)
  <2>1. PICK m \in Migrations :
            /\ mig' = [mig EXCEPT ![p] = m]
            /\ Trigger(p, m) \/ Stop(p, m) \/ ForceRollback(p, m)
    BY <1>1 DEF Begin
  <2>2. /\ \A q \in Procs \ {p} : pc'[q] = pc[q] /\ mig'[q] = mig[q] /\ copy'[q] = copy[q]
        /\ pc'[p] \in {"fetch", "revoke", "refresh", "lookup"}
    BY <2>1 DEF Trigger, Stop, ForceRollback, Goto, Remember, TypeOK
  <2>3. ProcReached(p)'
    BY <2>2, NothingKnown
  <2> QED BY <1>1, <2>2, <2>3, LocalStep DEF Begin, tables, history
<1>2. CASE Fetch(p)
  <2>1. /\ \A q \in Procs \ {p} : pc'[q] = pc[q] /\ mig'[q] = mig[q] /\ copy'[q] = copy[q]
        /\ pc'[p] = "save" /\ mig'[p] = mig[p] /\ copy'[p] = row[mig[p]]
    BY <1>2, OthersKeep DEF Fetch, Stages
  <2>2. ProcReached(p)'
    BY <1>0, <1>2, <2>1 DEF ProcReached, Fetch, history
  <2> QED BY <1>2, <2>1, <2>2, LocalStep DEF Fetch, tables, history
<1>3. CASE SaveStarting(p)
  <2> DEFINE r == [copy[p] EXCEPT !.status = "Starting"]
  <2>1. r \in Rows /\ r.index = copy[p].index /\ r.status = "Starting"
    BY DEF Rows, Statuses
  <2>2. copy[p].index <= Length[mig[p]] /\ 0 .. copy[p].index - 1 \subseteq ran[mig[p]]
    BY <1>3 DEF SaveStarting, Reached, ProcReached
  <2>3. /\ \A q \in Procs \ {p} : pc'[q] = pc[q] /\ mig'[q] = mig[q] /\ copy'[q] = copy[q]
        /\ pc'[p] = "delay"
    BY <1>3, OthersKeep DEF SaveStarting, Stages
  <2>4. ProcReached(p)'
    BY <2>3, NothingKnown
  <2>5. UpdateRow(mig[p], r) /\ ran' = ran /\ completed' = completed
    BY <1>3 DEF SaveStarting, history
  <2>6. mig[p] \in completed' \cap Required => OpsOf(mig[p]) \subseteq ran[mig[p]]
    BY <2>5 DEF Reached, CompletedRows
  <2> HIDE DEF r
  <2> QED BY <2>1, <2>2, <2>3, <2>4, <2>5, <2>6, RowStep
<1>4. CASE Revoke(p)
  <2>1. /\ \A q \in Procs \ {p} : pc'[q] = pc[q] /\ mig'[q] = mig[q] /\ copy'[q] = copy[q]
        /\ pc'[p] = "error"
    BY <1>4, OthersKeep DEF Revoke, Stages
  <2>2. ProcReached(p)'
    BY <2>1, NothingKnown
  <2> QED BY <1>4, <2>1, <2>2, LocalStep DEF Revoke, tables, history
<1>5. CASE ForcedFails(p)
  <2> DEFINE r == [row[mig[p]] EXCEPT !.status = "Errored"]
  <2>1. r \in Rows /\ r.index = row[mig[p]].index /\ r.status = "Errored"
    BY DEF Rows, Statuses
  <2>2. /\ \A q \in Procs \ {p} : pc'[q] = pc[q] /\ mig'[q] = mig[q] /\ copy'[q] = copy[q]
        /\ pc'[p] \in {"idle", "done"}
    BY <1>5, OthersKeep DEF ForcedFails
  <2>3. ProcReached(p)'
    BY <2>2, NothingKnown
  <2>4. UpdateRow(mig[p], r) /\ ran' = ran /\ completed' = completed
    BY <1>5 DEF ForcedFails, history
  <2>5. mig[p] \in completed' \cap Required => OpsOf(mig[p]) \subseteq ran[mig[p]]
    BY <2>4 DEF Reached, CompletedRows
  <2> HIDE DEF r
  <2> QED BY <1>0, <2>1, <2>2, <2>3, <2>4, <2>5, RowStep
<1> QED BY <1>1, <1>2, <1>3, <1>4, <1>5 DEF RequestStep

\* So does the start of a server: it writes rows that were true once.
LEMMA SetupKeeps ==
    ASSUME TypeOK, Reached, NEW p \in Requests, StartServer(p) \/ SetupStep(p)
    PROVE  Reached'
<1> USE Constants
<1> p \in Procs /\ mig[p] \in Migrations /\ row[mig[p]] \in Rows /\ copy[p] \in Rows
  BY DEF Procs, TypeOK
<1>1. CASE StartServer(p)
  <2>1. /\ \A q \in Procs \ {p} : pc'[q] = pc[q] /\ mig'[q] = mig[q] /\ copy'[q] = copy[q]
        /\ pc'[p] = "setup"
    BY <1>1, OthersKeep DEF StartServer, Stages
  <2>2. ProcReached(p)'
    BY <2>1, NothingKnown
  <2> QED BY <1>1, <2>1, <2>2, LocalStep DEF StartServer, tables, history
<1>2. CASE SetupFetch(p)
  <2>1. /\ \A q \in Procs \ {p} : pc'[q] = pc[q] /\ mig'[q] = mig[q] /\ copy'[q] = copy[q]
        /\ pc'[p] = "resave" /\ mig'[p] = mig[p] /\ copy'[p] = row[mig[p]]
    BY <1>2, OthersKeep DEF SetupFetch, Stages
  <2>2. /\ row[mig[p]].index <= Length[mig[p]] /\ 0 .. row[mig[p]].index - 1 \subseteq ran[mig[p]]
        /\ row[mig[p]].status = "CompletedSuccessfully" => mig[p] \in completed
    BY DEF Reached, OperationsInOrder, CompletedRows
  <2>3. ProcReached(p)'
    BY <1>2, <2>1, <2>2 DEF ProcReached, SetupFetch, history
  <2> QED BY <1>2, <2>1, <2>3, LocalStep DEF SetupFetch, tables, history
<1>3. CASE SetupSave(p)
  <2>1. /\ copy[p].index <= Length[mig[p]] /\ 0 .. copy[p].index - 1 \subseteq ran[mig[p]]
        /\ copy[p].status = "CompletedSuccessfully" => mig[p] \in completed
    BY <1>3 DEF SetupSave, Reached, ProcReached
  <2>2. /\ \A q \in Procs \ {p} : pc'[q] = pc[q] /\ mig'[q] = mig[q] /\ copy'[q] = copy[q]
        /\ pc'[p] \in {"setup", "lookup", "idle", "done"}
    BY <1>3, SetupMoves
  <2>3. ProcReached(p)'
    BY <2>2, NothingKnown
  <2>4. UpdateRow(mig[p], copy[p]) /\ ran' = ran /\ completed' = completed
    BY <1>3 DEF SetupSave, history
  <2>5. mig[p] \in completed' \cap Required => OpsOf(mig[p]) \subseteq ran[mig[p]]
    BY <2>4 DEF Reached, CompletedRows
  <2> QED BY <2>1, <2>2, <2>3, <2>4, <2>5, RowStep
<1> QED BY <1>1, <1>2, <1>3 DEF SetupStep

\* So do the steps that requests and workers share.
LEMMA SharedKeep ==
    ASSUME TypeOK, Reached, NEW p \in Procs, SharedStep(p)
    PROVE  Reached'
<1> USE Constants
<1> mig[p] \in Migrations /\ row[mig[p]] \in Rows /\ copy[p] \in Rows
  BY DEF TypeOK
<1>0. row[mig[p]].index <= Length[mig[p]] /\ 0 .. row[mig[p]].index - 1 \subseteq ran[mig[p]]
  BY DEF Reached, OperationsInOrder
<1>1. CASE Lookup(p) \/ Delay(p) \/ NoTrigger(p) \/ BeginRollback(p) \/ Undo(p)
  <2>1. UNCHANGED <<row, ran, completed>>
    BY <1>1 DEF Lookup, Delay, NoTrigger, BeginRollback, Undo, tables, history
  <2>2. /\ \A q \in Procs \ {p} : pc'[q] = pc[q] /\ mig'[q] = mig[q] /\ copy'[q] = copy[q]
        /\ pc'[p] \in {"delay", "record", "idle", "done", "undo", "failed"}
    <3>1. CASE Lookup(p)
      BY <3>1 DEF Lookup, Goto, Remember, TypeOK
    <3>2. CASE Delay(p)
      BY <3>2 DEF Delay, Goto, Remember, TypeOK
    <3>3. CASE NoTrigger(p)
      BY <3>3, OthersKeep DEF NoTrigger
    <3>4. CASE BeginRollback(p)
      BY <3>4 DEF BeginRollback, Goto, RememberIndex, Remember, TypeOK
    <3>5. CASE Undo(p)
      <4>1. CASE Finish(p) \/ Continue(p, "failed")
        BY <4>1, OthersKeep DEF Stages
      <4>2. CASE RememberIndex(p, copy[p].index - 1) /\ UNCHANGED <<pc, mig, job>>
        <5>1. pc[p] = "undo"
          BY <3>5 DEF Undo
        <5> QED BY <4>2, <5>1 DEF RememberIndex, Remember, TypeOK
      <4> QED BY <3>5, <4>1, <4>2 DEF Undo
    <3> QED BY <1>1, <3>1, <3>2, <3>3, <3>4, <3>5
  <2>3. ProcReached(p)'
    BY <2>2, NothingKnown
  <2> QED BY <2>1, <2>2, <2>3, LocalStep
<1>2. ASSUME NEW r \in Rows, UpdateRow(mig[p], r), r.index = row[mig[p]].index,
             r.status = "CompletedSuccessfully" => row[mig[p]].status = "CompletedSuccessfully",
             UNCHANGED history, Finish(p) \/ Continue(p, "refresh")
      PROVE  Reached'
  <2>1. /\ \A q \in Procs \ {p} : pc'[q] = pc[q] /\ mig'[q] = mig[q] /\ copy'[q] = copy[q]
        /\ pc'[p] \in {"idle", "done", "refresh"}
    BY <1>2, OthersKeep DEF Stages
  <2>2. ProcReached(p)'
    BY <2>1, NothingKnown
  <2>3. ran' = ran /\ completed' = completed
    BY <1>2 DEF history
  <2>4. /\ mig[p] \in completed' \cap Required => OpsOf(mig[p]) \subseteq ran[mig[p]]
        /\ r.status = "CompletedSuccessfully" => mig[p] \in completed'
    BY <1>2, <2>3 DEF Reached, CompletedRows
  <2> QED BY <1>0, <1>2, <2>1, <2>2, <2>3, <2>4, RowStep
<1>3. CASE RecordTask(p)
  <2> DEFINE r == [row[mig[p]] EXCEPT !.task = copy[p].task]
  <2>1. r \in Rows /\ r.index = row[mig[p]].index /\ r.status = row[mig[p]].status
    BY DEF Rows
  <2> HIDE DEF r
  <2>2. UpdateRow(mig[p], r) /\ UNCHANGED history /\ Finish(p)
    BY <1>3 DEF RecordTask, r
  <2> QED BY <1>2, <2>1, <2>2
<1>4. CASE ProcessError(p)
  <2> DEFINE r == [row[mig[p]] EXCEPT !.status = "Errored"]
  <2>1. r \in Rows /\ r.index = row[mig[p]].index /\ r.status = "Errored"
    BY DEF Rows, Statuses
  <2> HIDE DEF r
  <2>2. UpdateRow(mig[p], r) /\ UNCHANGED history /\ Continue(p, "refresh")
    BY <1>4 DEF ProcessError, r
  <2> QED BY <1>2, <2>1, <2>2
<1>5. CASE RolledBack(p)
  <2> DEFINE r == [row[mig[p]] EXCEPT !.status = "RolledBack"]
  <2>1. r \in Rows /\ r.index = row[mig[p]].index /\ r.status = "RolledBack"
    BY DEF Rows, Statuses
  <2> HIDE DEF r
  <2>2. UpdateRow(mig[p], r) /\ UNCHANGED history /\ Finish(p)
    BY <1>5 DEF RolledBack, r
  <2> QED BY <1>2, <2>1, <2>2
<1> QED BY <1>1, <1>3, <1>4, <1>5 DEF SharedStep

\* Operation i of migration m extends the operations executed, or is among them.
Extends(m, i) ==
    /\ i \in Nat /\ i < Length[m] /\ 0 .. i - 1 \subseteq ran[m]
    /\ m = 1 \/ m - 1 \in completed
    /\ \A n \in Migrations \ {m} : ran'[n] = ran[n]
    /\ ran'[m] = ran[m] \/ (ran[m] = 0 .. i - 1 /\ ran'[m] = 0 .. i)

\* An operation that is executed is the next one, or has been executed before.
LEMMA ExecuteExtends ==
    ASSUME TypeOK, Reached, NEW w \in Workers, Execute(w)
    PROVE  Extends(mig[w], copy[w].index)
<1> SUFFICES ASSUME NEW m \in Migrations, m = mig[w], NEW i, i = copy[w].index
             PROVE  Extends(m, i)
  BY DEF Procs, TypeOK
<1> USE Constants
<1>1. w \in Procs /\ i \in Nat
  BY DEF Procs, TypeOK, Rows
<1>2. /\ i < Length[m] /\ 0 .. i - 1 \subseteq ran[m]
      /\ m = 1 \/ m - 1 \in completed
  BY <1>1 DEF Execute, Reached, ProcReached
<1>3. ran' = ran \/ ran' = [ran EXCEPT ![m] = ran[m] \cup {i}]
  BY DEF Execute
<1>4. /\ \A n \in Migrations \ {m} : ran'[n] = ran[n]
      /\ ran'[m] = ran[m] \/ ran'[m] = ran[m] \cup {i}
  BY <1>3 DEF TypeOK
<1>5. PICK k \in 0 .. Length[m] : ran[m] = 0 .. k - 1
  BY DEF Reached, RanPrefix
<1>6. k \in Nat /\ Length[m] \in Nat
  BY <1>5
<1>7. i <= k
  <2>1. CASE i = 0
    BY <1>6, <2>1
  <2>2. CASE i > 0
    <3>1. i - 1 \in 0 .. i - 1
      BY <1>1, <2>2
    <3>2. i - 1 \in 0 .. k - 1
      BY <1>2, <1>5, <3>1
    <3> QED BY <1>1, <1>6, <2>2, <3>2
  <2> QED BY <1>1, <2>1, <2>2
<1>8. CASE i < k
  <2>1. i \in 0 .. k - 1
    BY <1>1, <1>6, <1>8
  <2>2. ran[m] \cup {i} = ran[m]
    BY <1>5, <2>1
  <2>3. ran'[m] = ran[m]
    BY <1>4, <2>2
  <2> QED BY <1>1, <1>2, <1>4, <2>3 DEF Extends
<1>9. CASE i = k
  <2>1. (0 .. i - 1) \cup {i} = 0 .. i
    BY <1>1
  <2>2. ran[m] = 0 .. i - 1
    BY <1>5, <1>9
  <2>3. ran'[m] = ran[m] \/ (ran[m] = 0 .. i - 1 /\ ran'[m] = 0 .. i)
    BY <1>4, <2>1, <2>2
  <2> QED BY <1>1, <1>2, <1>4, <2>3 DEF Extends
<1> QED BY <1>1, <1>6, <1>7, <1>8, <1>9

\* Workers keep the invariant.
LEMMA WorkersKeep ==
    ASSUME TypeOK, Reached, NEW w \in Workers, WorkerStep(w)
    PROVE  Reached'
<1> USE Constants
<1> w \in Procs /\ mig[w] \in Migrations /\ row[mig[w]] \in Rows /\ copy[w] \in Rows
  BY DEF Procs, TypeOK
<1>0. row[mig[w]].index <= Length[mig[w]] /\ 0 .. row[mig[w]].index - 1 \subseteq ran[mig[w]]
  BY DEF Reached, OperationsInOrder
<1>1. CASE Take(w)
  <2>1. /\ \A q \in Procs \ {w} : pc'[q] = pc[q] /\ mig'[q] = mig[q] /\ copy'[q] = copy[q]
        /\ pc'[w] = "check"
    BY <1>1 DEF Take, Remember, Goto, TypeOK
  <2>2. ProcReached(w)'
    BY <2>1, NothingKnown
  <2> QED BY <1>1, <2>1, <2>2, LocalStep DEF Take, tables, history
<1>2. CASE CheckStart(w)
  <2>1. UNCHANGED <<row, ran, completed>>
    BY <1>2 DEF CheckStart, MayStart, tables, history
  <2>2. /\ \A q \in Procs \ {w} : pc'[q] = pc[q] /\ mig'[q] = mig[q] /\ copy'[q] = copy[q]
        /\ \/ pc'[w] \in {"idle", "done", "depend", "error"}
           \/ pc'[w] = "complete" /\ mig'[w] \notin Required
    BY <1>2, OthersKeep DEF CheckStart, MayStart, Stages
  <2>3. ProcReached(w)'
    BY <2>2 DEF ProcReached
  <2> QED BY <2>1, <2>2, <2>3, LocalStep
<1>3. CASE CheckDependency(w)
  <2>1. UNCHANGED <<row, ran, completed>>
    BY <1>3 DEF CheckDependency, tables, history
  <2>2. /\ \A q \in Procs \ {w} : pc'[q] = pc[q] /\ mig'[q] = mig[q] /\ copy'[q] = copy[q]
        /\ mig'[w] = mig[w]
        /\ \/ pc'[w] = "error"
           \/ pc'[w] = "mark" /\ DependencyFulfilled(mig[w])
    BY <1>3, OthersKeep DEF CheckDependency, Stages
  <2>3. DependencyFulfilled(mig[w]) => mig[w] = 1 \/ mig[w] - 1 \in completed
    <3>1. CASE mig[w] > 1
      <4>1. mig[w] - 1 \in Migrations
        BY <3>1 DEF Migrations
      <4> QED BY <3>1, <4>1 DEF DependencyFulfilled, Reached, CompletedRows
    <3>2. CASE mig[w] = 1
      BY <3>2
    <3> QED BY <3>1, <3>2 DEF Migrations
  <2>4. ProcReached(w)'
    BY <2>1, <2>2, <2>3 DEF ProcReached
  <2> QED BY <2>1, <2>2, <2>4, LocalStep
<1>4. CASE MarkRunning(w)
  <2> DEFINE r == [status |-> "Running", index |-> 0, task |-> NoTask]
  <2>1. r \in Rows /\ r.index = 0 /\ r.status = "Running"
    BY DEF Rows, Statuses
  <2>2. /\ \A q \in Procs \ {w} : pc'[q] = pc[q] /\ mig'[q] = mig[q] /\ copy'[q] = copy[q]
        /\ pc'[w] = "next" /\ mig'[w] = mig[w]
    BY <1>4, OthersKeep DEF MarkRunning, Stages
  <2>3. UpdateRow(mig[w], r) /\ ran' = ran /\ completed' = completed
    BY <1>4 DEF MarkRunning, history
  <2>4. ProcReached(w)'
    BY <1>4, <2>2, <2>3 DEF MarkRunning, Reached, ProcReached
  <2>5. mig[w] \in completed' \cap Required => OpsOf(mig[w]) \subseteq ran[mig[w]]
    BY <2>3 DEF Reached, CompletedRows
  <2>6. r.index <= Length[mig[w]] /\ 0 .. r.index - 1 \subseteq ran[mig[w]]
    BY <2>1
  <2> HIDE DEF r
  <2> QED BY <2>1, <2>2, <2>3, <2>4, <2>5, <2>6, RowStep
<1>5. CASE NextOp(w)
  <2> DEFINE i == row[mig[w]].index
  <2>1. UNCHANGED <<row, ran, completed>>
    BY <1>5 DEF NextOp, tables, history
  <2>2. i \in Nat /\ copy'[w].index = i
    BY <1>5 DEF NextOp, RememberIndex, Remember, TypeOK, Rows, NewRow
  <2>3. /\ \A q \in Procs \ {w} : pc'[q] = pc[q] /\ mig'[q] = mig[q] /\ copy'[q] = copy[q]
        /\ mig'[w] = mig[w]
        /\ pc'[w] = IF i > Length[mig[w]] - 1 THEN "complete" ELSE "exec"
    BY <1>5 DEF NextOp, RememberIndex, Remember, Goto, TypeOK
  <2>4. CASE i > Length[mig[w]] - 1
    <3>1. OpsOf(mig[w]) \subseteq ran[mig[w]]
      BY <1>0, <2>2, <2>4 DEF OpsOf
    <3>2. ProcReached(w)'
      BY <2>1, <2>3, <2>4, <3>1 DEF ProcReached, OpsOf
    <3> QED BY <2>1, <2>3, <3>2, LocalStep
  <2>5. CASE i <= Length[mig[w]] - 1
    <3>1. ProcReached(w)'
      BY <1>0, <1>5, <2>1, <2>2, <2>3, <2>5 DEF ProcReached, NextOp, Reached
    <3> QED BY <2>1, <2>3, <3>1, LocalStep
  <2> QED BY <2>2, <2>4, <2>5
<1>6. CASE Execute(w)
  <2>0a. PICK m \in Migrations : m = mig[w]
    OBVIOUS
  <2>0b. PICK i \in Nat : i = copy[w].index
    BY DEF Rows
  <2>1. /\ i \in Nat /\ i < Length[m] /\ 0 .. i - 1 \subseteq ran[m]
        /\ \A n \in Migrations \ {m} : ran'[n] = ran[n]
        /\ ran'[m] = ran[m] \/ (ran[m] = 0 .. i - 1 /\ ran'[m] = 0 .. i)
    <3>1. Extends(m, i)
      BY <1>6, <2>0a, <2>0b, ExecuteExtends
    <3> QED BY <3>1 DEF Extends
  <2>2. ran \in [Migrations -> SUBSET Nat]
    BY DEF TypeOK
  <2>3. \A n \in Migrations : ran[n] \subseteq ran'[n]
    <3>1. i \in Nat => 0 .. i - 1 \subseteq 0 .. i
      OBVIOUS
    <3> QED BY <2>1, <3>1
  <2>4. row' = row /\ completed' = completed
    BY <1>6 DEF Execute
  <2>5. RanPrefix'
    <3>1. i + 1 \in 0 .. Length[m] /\ 0 .. i = 0 .. (i + 1) - 1
      BY <2>1
    <3>2. \A n \in Migrations : ran'[n] = ran[n] \/ (n = m /\ ran'[n] = 0 .. (i + 1) - 1)
      BY <2>1, <3>1
    <3> QED BY <3>1, <3>2 DEF RanPrefix, Reached
  <2>6. /\ \A q \in Procs \ {w} : pc'[q] = pc[q] /\ mig'[q] = mig[q] /\ copy'[q] = copy[q]
        /\ mig'[w] = mig[w] /\ copy'[w] = copy[w]
        /\ pc'[w] = "error" \/ pc'[w] = "bump"
    BY <1>6, OthersKeep DEF Execute, Stages
  <2>7. pc'[w] = "bump" => i \in ran'[m]
    <3>1. CASE pc'[w] = "bump"
      <4>1. ran' = [ran EXCEPT ![m] = @ \cup {i}]
        BY <1>6, <3>1, <2>0a, <2>0b, OthersKeep DEF Execute, Stages
      <4> QED BY <2>2, <4>1
    <3> QED BY <3>1
  <2>8. ProcReached(w)'
    <3>1. m = 1 \/ m - 1 \in completed
      <4>1. Extends(m, i)
        BY <1>6, <2>0a, <2>0b, ExecuteExtends
      <4> QED BY <4>1 DEF Extends
    <3> QED BY <2>0a, <2>0b, <2>1, <2>3, <2>4, <2>6, <2>7, <3>1 DEF ProcReached
  <2>9. \A q \in Procs : ProcReached(q)'
    <3> SUFFICES ASSUME NEW q \in Procs PROVE ProcReached(q)'
      OBVIOUS
    <3>1. CASE q = w
      BY <2>8, <3>1
    <3>2. CASE q # w
      BY <2>3, <2>4, <2>6, <3>2, KnowledgeKept DEF Reached
    <3> QED BY <3>1, <3>2
  <2>10. OperationsInOrder' /\ CompletedRows'
    BY <2>3, <2>4 DEF Reached, OperationsInOrder, CompletedRows
  <2> QED BY <2>5, <2>9, <2>10 DEF Reached
<1>7. CASE Bump(w)
  <2> DEFINE r == [row[mig[w]] EXCEPT !.index = copy[w].index + 1]
             i == copy[w].index
  <2>0. i \in Nat
    BY DEF Rows
  <2>1. r \in Rows /\ r.index = i + 1 /\ r.status = row[mig[w]].status
    <3>1. i + 1 \in Nat
      BY <2>0
    <3> QED BY <3>1 DEF Rows
  <2>2. /\ \A q \in Procs \ {w} : pc'[q] = pc[q] /\ mig'[q] = mig[q] /\ copy'[q] = copy[q]
        /\ pc'[w] = "next" /\ mig'[w] = mig[w]
    BY <1>7, OthersKeep DEF Bump, Stages
  <2>3. UpdateRow(mig[w], r) /\ ran' = ran /\ completed' = completed
    BY <1>7 DEF Bump, history
  <2>4. i < Length[mig[w]] /\ 0 .. i - 1 \subseteq ran[mig[w]] /\ i \in ran[mig[w]]
    BY <1>7 DEF Bump, Reached, ProcReached
  <2>5. r.index <= Length[mig[w]] /\ 0 .. r.index - 1 \subseteq ran[mig[w]]
    BY <2>0, <2>1, <2>4
  <2>6. /\ mig[w] \in completed' \cap Required => OpsOf(mig[w]) \subseteq ran[mig[w]]
        /\ r.status = "CompletedSuccessfully" => mig[w] \in completed'
    BY <2>1, <2>3 DEF Reached, CompletedRows
  <2>7. ProcReached(w)'
    BY <1>7, <2>2, <2>3 DEF Bump, Reached, ProcReached
  <2> HIDE DEF r
  <2> QED BY <2>1, <2>2, <2>3, <2>5, <2>6, <2>7, RowStep
<1>8. CASE CompleteMigration(w)
  <2> DEFINE r == [row[mig[w]] EXCEPT !.status = "CompletedSuccessfully"]
  <2>1. r \in Rows /\ r.index = row[mig[w]].index
    BY DEF Rows, Statuses
  <2>2. /\ \A q \in Procs \ {w} : pc'[q] = pc[q] /\ mig'[q] = mig[q] /\ copy'[q] = copy[q]
        /\ pc'[w] \in {"lookup", "idle", "done"}
    <3>0. w \in Procs
      BY DEF Procs
    <3>1. CASE Finish(w)
      BY <3>0, <3>1, OthersKeep
    <3>2. CASE /\ mig' = [mig EXCEPT ![w] = @ + 1]
               /\ Goto(w, "lookup")
               /\ UNCHANGED <<copy, job>>
      <4>1. (\A q \in Procs \ {w} : pc'[q] = pc[q]) /\ pc'[w] = "lookup"
        BY <3>0, <3>2, OthersKeep DEF Stages
      <4>2. \A q \in Procs \ {w} : mig'[q] = mig[q] /\ copy'[q] = copy[q]
        BY <3>2 DEF TypeOK
      <4> QED BY <4>1, <4>2
    <3> QED BY <1>8, <3>1, <3>2 DEF CompleteMigration
  <2>3. UpdateRow(mig[w], r) /\ ran' = ran /\ completed' = completed \cup {mig[w]}
    BY <1>8 DEF CompleteMigration
  <2>4. ProcReached(w)'
    BY <2>2, NothingKnown
  <2>5. mig[w] \in Required => OpsOf(mig[w]) \subseteq ran[mig[w]]
    BY <1>8 DEF CompleteMigration, Reached, ProcReached
  <2> HIDE DEF r
  <2> QED BY <1>0, <2>1, <2>2, <2>3, <2>4, <2>5, RowStep
<1> QED BY <1>1, <1>2, <1>3, <1>4, <1>5, <1>6, <1>7, <1>8 DEF WorkerStep

\* Killed processes leave the rows and the history.
LEMMA KillsKeep ==
    ASSUME TypeOK, Reached,
           \/ \E w \in Workers : Terminate(w)
           \/ \E p \in Requests : Crash(p)
    PROVE  Reached'
<1>1. CASE \E w \in Workers : Terminate(w)
  <2>1. PICK w \in Workers : Terminate(w)
    BY <1>1
  <2>2. w \in Procs
    BY DEF Procs
  <2>3. /\ \A q \in Procs \ {w} : pc'[q] = pc[q] /\ mig'[q] = mig[q] /\ copy'[q] = copy[q]
        /\ pc'[w] \in {"idle", "done"}
    BY <2>1, <2>2, OthersKeep DEF Terminate
  <2>4. ProcReached(w)'
    BY <2>2, <2>3, NothingKnown
  <2> QED BY <2>1, <2>2, <2>3, <2>4, LocalStep DEF Terminate, tables, history
<1>2. CASE \E p \in Requests : Crash(p)
  <2>1. PICK p \in Requests : Crash(p)
    BY <1>2
  <2>2. PICK q \in Procs : /\ pc' = [pc EXCEPT ![p] = "done", ![q] = Ended(q)]
                           /\ Forget(q)
    BY <2>1 DEF Crash
  <2>3. /\ \A x \in Procs \ {p, q} : pc'[x] = pc[x]
        /\ \A x \in Procs \ {q} : mig'[x] = mig[x] /\ copy'[x] = copy[x]
        /\ pc'[q] \in {"idle", "done"}
        /\ p # q => pc'[p] = "done"
    BY <2>2 DEF TypeOK, Forget, Ended, Procs
  <2>4. UNCHANGED <<row, ran, completed>>
    BY <2>1 DEF Crash, tables, history
  <2>5. ASSUME NEW x \in Procs PROVE ProcReached(x)'
    <3>1. CASE x \in {p, q}
      BY <2>3, <3>1, NothingKnown
    <3>2. CASE x \notin {p, q}
      BY <2>3, <2>4, <3>2, KnowledgeKept DEF Reached
    <3> QED BY <3>1, <3>2
  <2> QED BY <2>4, <2>5 DEF Reached, OperationsInOrder, RanPrefix, CompletedRows
<1> QED BY <1>1, <1>2

\* The invariant is inductive, given the types.
LEMMA Induction == TypeOK /\ Reached /\ [Next]_vars => Reached'
<1> SUFFICES ASSUME TypeOK, Reached, [Next]_vars PROVE Reached'
  OBVIOUS
<1>1. CASE UNCHANGED vars
  <2>1. UNCHANGED <<row, ran, completed, pc, mig, copy>>
    BY <1>1 DEF vars, tables, locals, history
  <2> QED BY <2>1 DEF Reached, OperationsInOrder, RanPrefix, CompletedRows, ProcReached
<1> QED BY <1>1, RequestsKeep, SetupKeeps, SharedKeep, WorkersKeep, KillsKeep DEF Next, Procs

\* Nothing has been reached at first.
LEMMA InitReached == Init => Reached
<1> SUFFICES ASSUME Init PROVE Reached
  OBVIOUS
<1>1. \A m \in Migrations : row[m] = NewRow /\ ran[m] = {} /\ NewRow.index = 0
  BY DEF Init, NewRow
<1>2. \A m \in Migrations : 0 \in 0 .. Length[m] /\ 0 .. 0 - 1 = {}
  BY Constants
<1> QED BY <1>1, <1>2, Constants DEF Init, Reached, OperationsInOrder, RanPrefix, CompletedRows,
        ProcReached, NewRow, Procs

\* Operations are reached in order, whatever requests, workers and crashes do.
THEOREM InOrder == Spec => []OperationsInOrder
<1>1. Reached => OperationsInOrder
  BY DEF Reached
<1> QED BY <1>1, InitReached, TypeCorrect, Induction, PTL DEF Spec

-----------------------------------------------------------------------------
(* The implementation of MigrationChain *)

\* How many operations have been reached.
reachedBar == [m \in Migrations |-> Cardinality(ran[m])]

\* A prefix has as many elements as it is long.
LEMMA PrefixSize == \A k \in Nat : Cardinality(0 .. k - 1) = k
<1> SUFFICES ASSUME NEW k \in Nat PROVE Cardinality(0 .. k - 1) = k
  OBVIOUS
<1>1. Cardinality(0 .. k - 1) = IF 0 > k - 1 THEN 0 ELSE (k - 1) - 0 + 1
  BY FS_Interval
<1> QED BY <1>1

\* Executing an operation reaches it, or changes nothing.
LEMMA ExecuteReaches ==
    ASSUME TypeOK, Reached, NEW w \in Workers, Execute(w)
    PROVE  \/ \E m \in Migrations : Chain!Reach(m)
           \/ UNCHANGED <<reachedBar, completed>>
<1> USE Constants
<1>1. w \in Procs /\ mig[w] \in Migrations /\ copy[w] \in Rows
  BY DEF Procs, TypeOK
<1>2. PICK m \in Migrations : m = mig[w]
  BY <1>1
<1>3. PICK i \in Nat : i = copy[w].index
  BY <1>1 DEF Rows
<1>4. /\ i < Length[m]
      /\ m = 1 \/ m - 1 \in completed
      /\ \A n \in Migrations \ {m} : ran'[n] = ran[n]
      /\ ran'[m] = ran[m] \/ (ran[m] = 0 .. i - 1 /\ ran'[m] = 0 .. i)
  <2>1. Extends(m, i)
    BY <1>2, <1>3, ExecuteExtends
  <2> QED BY <2>1 DEF Extends
<1>5. completed' = completed
  BY DEF Execute
<1>6. CASE ran'[m] = ran[m]
  <2>1. reachedBar' = reachedBar
    BY <1>4, <1>6 DEF reachedBar
  <2> QED BY <1>5, <2>1
<1>7. CASE ran[m] = 0 .. i - 1 /\ ran'[m] = 0 .. i
  <2>1. Cardinality(ran[m]) = i /\ Cardinality(ran'[m]) = i + 1
    <3>1. 0 .. i = 0 .. (i + 1) - 1 /\ i + 1 \in Nat
      OBVIOUS
    <3> QED BY <1>7, <3>1, PrefixSize
  <2>2. reachedBar[m] = i /\ reachedBar'[m] = i + 1
    BY <2>1 DEF reachedBar
  <2>3. \A n \in Migrations \ {m} : reachedBar'[n] = reachedBar[n]
    BY <1>4 DEF reachedBar
  <2>4. reachedBar' = [reachedBar EXCEPT ![m] = @ + 1]
    <3>1. DOMAIN reachedBar = Migrations /\ DOMAIN reachedBar' = Migrations
      BY DEF reachedBar
    <3>2. reachedBar' = [n \in Migrations |-> reachedBar'[n]]
      BY DEF reachedBar
    <3> QED BY <2>2, <2>3, <3>1, <3>2 DEF reachedBar
  <2>5. Chain!Reach(m)
    BY <1>4, <1>5, <2>2, <2>4 DEF Chain!Reach, reachedBar
  <2> QED BY <2>5
<1> QED BY <1>4, <1>6, <1>7

\* Requests, workers and crashes do what MigrationChain allows.
THEOREM ImplementsChainHolds == Spec => ImplementsChain
<1>1. Init => Chain!ChainInit
  <2> SUFFICES ASSUME Init PROVE Chain!ChainInit
    OBVIOUS
  <2>1. \A m \in Migrations : Cardinality(ran[m]) = 0
    BY FS_EmptySet DEF Init
  <2>2. [m \in Migrations |-> Cardinality(ran[m])] = [m \in Migrations |-> 0]
    BY <2>1
  <2> QED BY <2>2 DEF Chain!ChainInit, Chain!Chain, Init, Migrations
<1>2. TypeOK /\ Reached /\ [Next]_vars => [Chain!ChainNext]_<<reachedBar, completed>>
  <2> SUFFICES ASSUME TypeOK, Reached, [Next]_vars
               PROVE  Chain!ChainNext \/ UNCHANGED <<reachedBar, completed>>
    OBVIOUS
  <2>1. ASSUME NEW w \in Workers, WorkerStep(w)
        PROVE  Chain!ChainNext \/ UNCHANGED <<reachedBar, completed>>
    <3>1. CASE Execute(w)
      BY <3>1, ExecuteReaches DEF Chain!ChainNext, Chain!Chain, Migrations
    <3>2. CASE CompleteMigration(w)
      <4>1. w \in Procs /\ mig[w] \in Migrations
        BY DEF Procs, TypeOK
      <4>2. PICK m \in Migrations : m = mig[w]
        BY <4>1
      <4>3. ran' = ran /\ completed' = completed \cup {m}
        BY <3>2, <4>2 DEF CompleteMigration
      <4>4. m \in Required => OpsOf(m) \subseteq ran[m]
        BY <3>2, <4>1, <4>2 DEF CompleteMigration, Reached, ProcReached
      <4>5. PICK k \in 0 .. Length[m] : ran[m] = 0 .. k - 1
        BY DEF Reached, RanPrefix
      <4>6. k \in Nat /\ Length[m] \in Nat
        BY <4>5, Constants
      <4>7. m \in Required => k = Length[m]
        <5>1. CASE Length[m] = 0
          BY <4>5, <5>1
        <5>2. CASE Length[m] > 0 /\ m \in Required
          <6>1. Length[m] - 1 \in 0 .. k - 1
            BY <4>4, <4>5, <4>6, <5>2 DEF OpsOf
          <6> QED BY <4>5, <4>6, <6>1
        <5> QED BY <4>6, <5>1, <5>2
      <4>8. m \in Required => reachedBar[m] = Length[m]
        BY <4>5, <4>6, <4>7, PrefixSize DEF reachedBar
      <4>9. reachedBar' = reachedBar
        BY <4>3 DEF reachedBar
      <4>10. Chain!Complete(m)
        BY <4>3, <4>8, <4>9 DEF Chain!Complete, reachedBar
      <4> QED BY <4>10 DEF Chain!ChainNext, Chain!Chain, Migrations
    <3>3. CASE Take(w) \/ CheckStart(w) \/ CheckDependency(w) \/ MarkRunning(w) \/ NextOp(w)
               \/ Bump(w)
      BY <3>3 DEF Take, CheckStart, CheckDependency, MarkRunning, NextOp, Bump, history, reachedBar
    <3> QED BY <2>1, <3>1, <3>2, <3>3 DEF WorkerStep
  <2>2. ASSUME NEW p \in Procs, SharedStep(p) PROVE UNCHANGED <<reachedBar, completed>>
    BY <2>2 DEF SharedStep, Lookup, Delay, NoTrigger, RecordTask, ProcessError, BeginRollback,
       Undo, RolledBack, history, reachedBar
  <2>3. ASSUME NEW p \in Requests, Begin(p) \/ RequestStep(p) \/ Crash(p)
        PROVE  UNCHANGED <<reachedBar, completed>>
    BY <2>3 DEF Begin, RequestStep, Fetch, SaveStarting, Revoke, ForcedFails, Crash, history,
       reachedBar
  <2>4. ASSUME NEW w \in Workers, Terminate(w) PROVE UNCHANGED <<reachedBar, completed>>
    BY <2>4 DEF Terminate, history, reachedBar
  <2>5. ASSUME NEW p \in Requests, StartServer(p) \/ SetupStep(p)
        PROVE  UNCHANGED <<reachedBar, completed>>
    BY <2>5 DEF StartServer, SetupStep, SetupFetch, SetupSave, history, reachedBar
  <2>6. CASE UNCHANGED vars
    BY <2>6 DEF vars, history, reachedBar
  <2> QED BY <2>1, <2>2, <2>3, <2>4, <2>5, <2>6 DEF Next, Procs
<1> QED BY <1>1, <1>2, InitReached, TypeCorrect, Induction, PTL
        DEF Spec, ImplementsChain, Chain!ChainSpec, reachedBar

-----------------------------------------------------------------------------
(* The status tells the effects *)

\* What the row of a migration tells of its effects: those to be removed are among the
\* operations up to the index, none is left when it is rolled back, all are there
\* when it is completed and no forced rollback is under way.
RowTells(m) ==
    /\ applied[m] \subseteq OpsOf(m)
    /\ \A i \in Effects(m) : i <= row[m].index
    /\ row[m].status = "RolledBack" => Effects(m) = {}
    /\ row[m].status = "CompletedSuccessfully" /\ (\A p \in WorkingOn(m) : pc[p] # "undo")
       => applied[m] = OpsOf(m)

\* What the stage of a process that works on migration m tells of its effects.
ProcTells(p, m) ==
    /\ pc[p] = "save" => \A i \in Effects(m) : i <= copy[p].index
    /\ pc[p] \in {"next", "exec", "bump"} =>
          row[m].status = "Running" /\ 0 .. row[m].index - 1 \subseteq applied[m]
    /\ pc[p] \in {"exec", "bump"} => copy[p].index = row[m].index /\ copy[p].index < Length[m]
    /\ pc[p] = "bump" => copy[p].index \in applied[m]
    /\ pc[p] = "complete" => OpsOf(m) \subseteq applied[m]
    /\ pc[p] = "undo" => \A i \in Effects(m) : i < copy[p].index

Tells(m) == RowTells(m) /\ \A p \in WorkingOn(m) : ProcTells(p, m)

EffectsTold == \A m \in Required \ spoiled : Tells(m)

\* Only process p may begin, change or end its work.
OnlyMoves(p) ==
    \A q \in Procs \ {p} :
        pc[q] \in WorkStages \/ pc'[q] \in WorkStages =>
            pc'[q] = pc[q] /\ mig'[q] = mig[q] /\ copy'[q] = copy[q]

\* Process p leaves migration m as it is, but may begin to work on it.
LeavesAlone(p, m) ==
    /\ applied'[m] = applied[m]
    /\ row'[m].index = row[m].index /\ row'[m].status = row[m].status
    /\ p \in WorkingOn(m)' =>
          /\ pc'[p] \in {"save", "mark", "revoke", "error", "refresh"}
          /\ pc'[p] = "save" => copy'[p].index = row[m].index

\* The types of what these facts are about.
LEMMA EffectTypes ==
    ASSUME TypeOK, NEW m \in Required
    PROVE  /\ m \in Migrations /\ Length[m] \in Nat
           /\ applied[m] \subseteq Nat /\ row[m] \in Rows /\ row[m].index \in Nat
           /\ \A p \in Procs : copy[p] \in Rows /\ copy[p].index \in Nat
           /\ \A i \in OpsOf(m) : Operations[m][i + 1] \in Rollbacks
<1>1. m \in Migrations /\ Length[m] \in Nat /\ Operations[m] \in Seq(Rollbacks)
  BY Constants
<1>2. \A i \in OpsOf(m) : i + 1 \in 1 .. Len(Operations[m])
  BY <1>1 DEF OpsOf, Length
<1>3. \A i \in OpsOf(m) : Operations[m][i + 1] \in Rollbacks
  BY <1>1, <1>2
<1> QED BY <1>1, <1>3 DEF TypeOK, Rows

\* A step of a process that does not work on the migration.
LEMMA ElsewhereTells ==
    ASSUME TypeOK, NEW m \in Required, NEW p \in Procs, p \notin WorkingOn(m),
           Tells(m), OnlyMoves(p), LeavesAlone(p, m)
    PROVE  Tells(m)'
<1>1. Effects(m)' = Effects(m)
  BY DEF LeavesAlone, Effects
<1>2. \A q \in WorkingOn(m) : /\ q \in WorkingOn(m)' /\ pc'[q] = pc[q]
                              /\ copy'[q] = copy[q]
  BY DEF OnlyMoves, WorkingOn
<1>3. \A q \in WorkingOn(m)' : q # p => q \in WorkingOn(m)
  BY DEF OnlyMoves, WorkingOn
<1>4. RowTells(m)'
  BY <1>1, <1>2 DEF Tells, RowTells, LeavesAlone
<1>5. ASSUME NEW q \in WorkingOn(m)' PROVE ProcTells(q, m)'
  <2>1. CASE q = p
    BY <1>1, <2>1 DEF Tells, RowTells, ProcTells, LeavesAlone
  <2>2. CASE q # p
    <3>1. q \in WorkingOn(m) /\ pc'[q] = pc[q] /\ copy'[q] = copy[q] /\ ProcTells(q, m)
      BY <1>2, <1>3, <2>2 DEF Tells
    <3> QED BY <1>1, <3>1 DEF ProcTells, LeavesAlone
  <2> QED BY <2>1, <2>2
<1> QED BY <1>4, <1>5 DEF Tells

\* Nobody else works on the migration.
Alone(p, m) == p \in WorkingOn(m) /\ \A q \in WorkingOn(m) : q = p

\* A step of the only process that works on the migration.
LEMMA AloneTells ==
    ASSUME NEW m \in Required, NEW p \in Procs, Alone(p, m), OnlyMoves(p),
           RowTells(m)', p \in WorkingOn(m)' => ProcTells(p, m)'
    PROVE  Tells(m)'
<1>1. \A q \in WorkingOn(m)' : q = p
  BY DEF Alone, OnlyMoves, WorkingOn
<1> QED BY <1>1 DEF Tells

\* Only the process that steps moves.
LEMMA StepMoves ==
    ASSUME TypeOK, NEW p \in Procs,
           \/ p \in Requests /\ (Begin(p) \/ RequestStep(p))
           \/ p \in Requests /\ (StartServer(p) \/ SetupStep(p))
           \/ p \in Workers /\ WorkerStep(p)
           \/ SharedStep(p)
    PROVE  OnlyMoves(p)
<1> SUFFICES \A q \in Procs \ {p} : pc'[q] = pc[q] /\ mig'[q] = mig[q] /\ copy'[q] = copy[q]
  BY DEF OnlyMoves
<1>1. CASE Begin(p)
  BY <1>1 DEF Begin, Trigger, Stop, ForceRollback, Goto, Remember, TypeOK
<1>2. CASE RequestStep(p)
  <2>1. CASE Fetch(p)
    BY <2>1 DEF Fetch, Goto, Remember, TypeOK
  <2>2. CASE SaveStarting(p) \/ Revoke(p) \/ ForcedFails(p)
    BY <2>2, OthersKeep DEF SaveStarting, Revoke, ForcedFails, Stages
  <2> QED BY <1>2, <2>1, <2>2 DEF RequestStep
<1>3. CASE WorkerStep(p)
  <2>1. CASE Take(p)
    BY <2>1 DEF Take, Goto, Remember, TypeOK
  <2>2. CASE CheckStart(p) \/ CheckDependency(p) \/ MarkRunning(p) \/ Execute(p) \/ Bump(p)
    BY <2>2, OthersKeep DEF CheckStart, CheckDependency, MarkRunning, Execute, Bump, Stages
  <2>3. CASE NextOp(p)
    BY <2>3 DEF NextOp, RememberIndex, Remember, Goto, TypeOK
  <2>4. CASE CompleteMigration(p)
    BY <2>4, OthersKeep DEF CompleteMigration, Goto, TypeOK
  <2> QED BY <1>3, <2>1, <2>2, <2>3, <2>4 DEF WorkerStep
<1>4. CASE SharedStep(p)
  <2>1. CASE Lookup(p) \/ Delay(p) \/ BeginRollback(p)
    BY <2>1 DEF Lookup, Delay, BeginRollback, RememberIndex, Remember, Goto, TypeOK
  <2>2. CASE NoTrigger(p) \/ RecordTask(p) \/ ProcessError(p) \/ RolledBack(p)
    BY <2>2, OthersKeep DEF NoTrigger, RecordTask, ProcessError, RolledBack, Stages
  <2>3. CASE Undo(p)
    <3>1. CASE Finish(p) \/ Continue(p, "failed")
      BY <3>1, OthersKeep DEF Stages
    <3>2. CASE RememberIndex(p, copy[p].index - 1) /\ UNCHANGED <<pc, mig, job>>
      BY <3>2 DEF RememberIndex, Remember, TypeOK
    <3> QED BY <2>3, <3>1, <3>2 DEF Undo
  <2> QED BY <1>4, <2>1, <2>2, <2>3 DEF SharedStep
<1>5. CASE StartServer(p)
  BY <1>5, OthersKeep DEF StartServer, Stages
<1>6. CASE SetupStep(p)
  <2>1. CASE SetupFetch(p)
    BY <2>1 DEF SetupFetch, Goto, Remember, TypeOK
  <2>2. CASE SetupSave(p)
    BY <2>2, SetupMoves
  <2> QED BY <1>6, <2>1, <2>2 DEF SetupStep
<1> QED BY <1>1, <1>2, <1>3, <1>4, <1>5, <1>6

\* The end of a process, and a step to another stage, of process p itself.
LEMMA OwnStep ==
    ASSUME TypeOK, NEW p \in Procs
    PROVE  /\ Finish(p) => pc'[p] = Ended(p) /\ pc'[p] \notin WorkStages
           /\ \A s : Continue(p, s) => pc'[p] = s /\ mig'[p] = mig[p] /\ copy'[p] = copy[p]
           /\ \A s : Goto(p, s) => pc'[p] = s
           /\ \A r : Remember(p, r) => copy'[p] = r
  BY DEF Finish, Forget, Ended, Continue, locals, Goto, Remember, TypeOK, WorkStages

\* A row that is written, and the others.
LEMMA RowWritten ==
    ASSUME TypeOK, NEW p \in Procs, NEW r, UpdateRow(mig[p], r)
    PROVE  row'[mig[p]] = r /\ \A m \in Migrations : m # mig[p] => row'[m] = row[m]
  BY DEF UpdateRow, TypeOK

\* Only the row of one migration is written.
LEMMA RowElsewhere ==
    ASSUME TypeOK, NEW m \in Migrations, NEW p \in Procs, mig[p] # m,
           row' = row \/ \E r : UpdateRow(mig[p], r)
    PROVE  row'[m] = row[m]
  BY RowWritten

\* A process that does not work on a migration leaves it alone.
LEMMA StepLeavesAlone ==
    ASSUME TypeOK, NEW m \in Required, NEW p \in Procs, p \notin WorkingOn(m),
           \/ p \in Requests /\ (Begin(p) \/ RequestStep(p))
           \/ p \in Workers /\ WorkerStep(p)
           \/ SharedStep(p)
    PROVE  LeavesAlone(p, m)
<1> USE Constants
<1>0. /\ m \in Migrations /\ mig[p] \in Migrations /\ mig[p] = m => pc[p] \notin WorkStages
      /\ row[m] \in Rows /\ row[mig[p]] \in Rows
  BY DEF WorkingOn, TypeOK
<1>1. CASE Begin(p)
  <2>1. applied' = applied /\ row' = row
    BY <1>1 DEF Begin, tables
  <2>2. pc'[p] \in {"fetch", "revoke", "refresh", "lookup"}
    BY <1>1, OwnStep DEF Begin, Trigger, Stop, ForceRollback
  <2> QED BY <2>1, <2>2 DEF LeavesAlone, WorkingOn, WorkStages
<1>2. CASE RequestStep(p)
  <2>1. CASE Fetch(p)
    <3>1. applied' = applied /\ row' = row /\ mig' = mig
      BY <2>1 DEF Fetch, tables
    <3>2. pc'[p] = "save" /\ copy'[p] = row[mig[p]]
      BY <2>1, OwnStep DEF Fetch
    <3> QED BY <3>1, <3>2 DEF LeavesAlone, WorkingOn
  <2>2. CASE SaveStarting(p) \/ Revoke(p) \/ ForcedFails(p)
    <3>1. pc[p] \in WorkStages /\ mig[p] # m
      BY <1>0, <2>2 DEF SaveStarting, Revoke, ForcedFails, WorkStages
    <3>2. applied' = applied /\ (row' = row \/ \E r : UpdateRow(mig[p], r))
      BY <2>2 DEF SaveStarting, Revoke, ForcedFails, tables
    <3>3. pc'[p] \notin WorkStages \/ mig'[p] # m
      BY <2>2, <3>1, OwnStep DEF SaveStarting, Revoke, ForcedFails
    <3> QED BY <1>0, <3>1, <3>2, <3>3, RowElsewhere DEF LeavesAlone, WorkingOn
  <2> QED BY <1>2, <2>1, <2>2 DEF RequestStep
<1>3. CASE WorkerStep(p)
  <2>1. CASE Take(p)
    <3>1. pc'[p] = "check" /\ applied' = applied /\ row' = row
      BY <2>1, OwnStep DEF Take, tables
    <3> QED BY <3>1 DEF LeavesAlone, WorkingOn, WorkStages
  <2>2. CASE CheckStart(p) \/ CheckDependency(p)
    <3>1. applied' = applied /\ row' = row
      BY <2>2 DEF CheckStart, CheckDependency, tables
    <3>2. \/ pc'[p] \in {"depend", "error", "mark"} \/ pc'[p] \notin WorkStages
          \/ pc'[p] = "complete" /\ mig'[p] \notin Required
      BY <2>2, OwnStep DEF CheckStart, CheckDependency
    <3> QED BY <3>1, <3>2 DEF LeavesAlone, WorkingOn, WorkStages
  <2>3. CASE MarkRunning(p) \/ NextOp(p) \/ Execute(p) \/ Bump(p)
    <3>1. pc[p] \in WorkStages /\ mig[p] # m
      BY <1>0, <2>3 DEF MarkRunning, NextOp, Execute, Bump, WorkStages
    <3>2. row'[m] = row[m]
      <4>1. row' = row \/ \E r : UpdateRow(mig[p], r)
        BY <2>3 DEF MarkRunning, NextOp, Execute, Bump, tables
      <4> QED BY <1>0, <3>1, <4>1, RowElsewhere
    <3>3. applied'[m] = applied[m]
      <4>1. applied' = applied \/ applied' = [applied EXCEPT ![mig[p]] = @ \cup {copy[p].index}]
        BY <2>3 DEF MarkRunning, NextOp, Execute, Bump, tables
      <4> QED BY <1>0, <3>1, <4>1 DEF TypeOK
    <3>4. mig'[p] # m
      BY <2>3, <3>1, OwnStep DEF MarkRunning, NextOp, Execute, Bump
    <3> QED BY <3>2, <3>3, <3>4 DEF LeavesAlone, WorkingOn
  <2>4. CASE CompleteMigration(p)
    <3>1. pc[p] \in WorkStages /\ mig[p] # m
      BY <1>0, <2>4 DEF CompleteMigration, WorkStages
    <3>2. row'[m] = row[m] /\ applied' = applied
      <4>1. applied' = applied /\ \E r : UpdateRow(mig[p], r)
        BY <2>4 DEF CompleteMigration
      <4> QED BY <1>0, <3>1, <4>1, RowElsewhere
    <3>3. pc'[p] \notin WorkStages
      <4>1. pc'[p] = "lookup" \/ Finish(p)
        BY <2>4, OwnStep DEF CompleteMigration
      <4> QED BY <4>1, OwnStep DEF WorkStages
    <3> QED BY <3>2, <3>3 DEF LeavesAlone, WorkingOn
  <2> QED BY <1>3, <2>1, <2>2, <2>3, <2>4 DEF WorkerStep
<1>4. CASE SharedStep(p)
  <2>1. CASE Lookup(p) \/ Delay(p) \/ NoTrigger(p)
    <3>1. applied' = applied /\ row' = row
      BY <2>1 DEF Lookup, Delay, NoTrigger, tables
    <3>2. pc'[p] \notin WorkStages
      BY <2>1, OwnStep DEF Lookup, Delay, NoTrigger, WorkStages
    <3> QED BY <3>1, <3>2 DEF LeavesAlone, WorkingOn
  <2>2. CASE RecordTask(p)
    <3> DEFINE r == [row[mig[p]] EXCEPT !.task = copy[p].task]
    <3>1. r.index = row[mig[p]].index /\ r.status = row[mig[p]].status
      BY <1>0 DEF Rows
    <3>2. UpdateRow(mig[p], r) /\ applied' = applied /\ pc'[p] \notin WorkStages
      BY <2>2, OwnStep DEF RecordTask
    <3> HIDE DEF r
    <3>3. row'[mig[p]] = r /\ (mig[p] # m => row'[m] = row[m])
      BY <1>0, <3>2, RowWritten
    <3> QED BY <3>1, <3>2, <3>3 DEF LeavesAlone, WorkingOn
  <2>3. CASE ProcessError(p) \/ BeginRollback(p) \/ Undo(p) \/ RolledBack(p)
    <3>1. pc[p] \in WorkStages /\ mig[p] # m
      BY <1>0, <2>3 DEF ProcessError, BeginRollback, Undo, RolledBack, WorkStages
    <3>2. row'[m] = row[m]
      <4>1. row' = row \/ \E r : UpdateRow(mig[p], r)
        BY <2>3 DEF ProcessError, BeginRollback, Undo, RolledBack, tables
      <4> QED BY <1>0, <3>1, <4>1, RowElsewhere
    <3>3. applied'[m] = applied[m]
      <4>1. \/ applied' = applied
            \/ applied' = [applied EXCEPT ![mig[p]] = @ \ {copy[p].index - 1}]
        BY <2>3 DEF ProcessError, BeginRollback, Undo, RolledBack, tables
      <4> QED BY <1>0, <3>1, <4>1 DEF TypeOK
    <3>4. pc'[p] \notin WorkStages \/ mig'[p] # m
      <4>1. CASE ProcessError(p) \/ BeginRollback(p) \/ RolledBack(p)
        BY <3>1, <4>1, OwnStep DEF ProcessError, BeginRollback, RolledBack
      <4>2. CASE Undo(p)
        BY <3>1, <4>2, OwnStep DEF Undo
      <4> QED BY <2>3, <4>1, <4>2
    <3> QED BY <3>2, <3>3, <3>4 DEF LeavesAlone, WorkingOn
  <2> QED BY <1>4, <2>1, <2>2, <2>3 DEF SharedStep
<1> QED BY <1>1, <1>2, <1>3, <1>4

\* The start of a server leaves a migration alone that it does not set back.
LEMMA SetupLeavesAlone ==
    ASSUME TypeOK, NEW m \in Required, NEW p \in Requests, p \in Procs, ~SetsBack(m),
           StartServer(p) \/ SetupStep(p)
    PROVE  p \notin WorkingOn(m) /\ LeavesAlone(p, m)
<1>0. m \in Migrations /\ mig[p] \in Migrations
  BY Constants DEF TypeOK
<1>1. CASE StartServer(p)
  <2>1. pc[p] = "idle" /\ pc'[p] = "setup" /\ applied' = applied /\ row' = row
    BY <1>1, OwnStep DEF StartServer, tables
  <2> QED BY <2>1 DEF LeavesAlone, WorkingOn, WorkStages
<1>2. CASE SetupFetch(p)
  <2>1. pc[p] = "setup" /\ pc'[p] = "resave" /\ applied' = applied /\ row' = row
    BY <1>2, OwnStep DEF SetupFetch, tables
  <2> QED BY <2>1 DEF LeavesAlone, WorkingOn, WorkStages
<1>3. CASE SetupSave(p)
  <2>1. pc[p] = "resave" /\ pc'[p] \notin WorkStages /\ applied' = applied
    BY <1>3, SetupMoves DEF SetupSave, WorkStages
  <2>2. row'[m].status = row[m].status /\ row'[m].index = row[m].index
    <3>1. CASE mig[p] = m
      BY <2>1, <3>1 DEF SetsBack
    <3>2. CASE mig[p] # m
      BY <1>0, <1>3, <3>2, RowElsewhere DEF SetupSave
    <3> QED BY <3>1, <3>2
  <2> QED BY <2>1, <2>2 DEF LeavesAlone, WorkingOn, WorkStages
<1> QED BY <1>1, <1>2, <1>3 DEF SetupStep

\* A step of the only process at work that touches neither row nor effects,
\* and after which the process knows what its stage tells.
LEMMA UntouchedTells ==
    ASSUME TypeOK, NEW m \in Required, NEW p \in Procs, Alone(p, m), Tells(m), OnlyMoves(p),
           applied' = applied, row' = row, ProcTells(p, m)', pc[p] # "undo"
    PROVE  Tells(m)'
<1>1. Effects(m)' = Effects(m)
  BY DEF Effects
<1>2. RowTells(m)'
  <2>1. row'[m].status = "CompletedSuccessfully" /\ (\A q \in WorkingOn(m)' : pc'[q] # "undo")
        => \A q \in WorkingOn(m) : pc[q] # "undo"
    BY DEF Alone
  <2> QED BY <1>1, <2>1 DEF Tells, RowTells
<1> QED BY <1>2, AloneTells

\* The status becomes Errored.
LEMMA ErroredTells ==
    ASSUME TypeOK, NEW m \in Required, NEW p \in Procs, mig[p] = m, RowTells(m),
           UpdateRow(mig[p], [row[mig[p]] EXCEPT !.status = "Errored"]), applied' = applied
    PROVE  RowTells(m)'
<1> DEFINE r == [row[mig[p]] EXCEPT !.status = "Errored"]
<1>1. row[m] \in Rows
  BY EffectTypes
<1>2. r.index = row[m].index /\ r.status = "Errored"
  BY <1>1 DEF Rows
<1> HIDE DEF r
<1>3. row'[m] = r
  BY RowWritten DEF r
<1>4. Effects(m)' = Effects(m)
  BY DEF Effects
<1> QED BY <1>2, <1>3, <1>4 DEF RowTells

\* Steps of a request that works on the migration.
LEMMA RequestTells ==
    ASSUME TypeOK, NEW m \in Required, NEW p \in Procs, Alone(p, m), Tells(m), OnlyMoves(p),
           RequestStep(p)
    PROVE  Tells(m)'
<1>0. /\ mig[p] = m /\ m \in Migrations /\ pc[p] \in WorkStages /\ row[m] \in Rows /\ copy[p] \in Rows
      /\ RowTells(m) /\ ProcTells(p, m)
  BY EffectTypes DEF Alone, WorkingOn, Tells
<1>1. ~Fetch(p)
  BY <1>0 DEF Fetch, WorkStages
<1>2. CASE SaveStarting(p)
  <2> DEFINE r == [copy[p] EXCEPT !.status = "Starting"]
  <2>1. r.index = copy[p].index /\ r.status = "Starting"
    BY <1>0 DEF Rows
  <2>2. UpdateRow(mig[p], r) /\ applied' = applied /\ pc'[p] \notin WorkStages
    BY <1>2, OwnStep DEF SaveStarting, WorkStages
  <2> HIDE DEF r
  <2>3. row'[m] = r
    BY <1>0, <2>2, RowWritten
  <2>4. Effects(m)' = Effects(m)
    BY <2>2 DEF Effects
  <2>5. RowTells(m)'
    BY <1>0, <1>2, <2>1, <2>2, <2>3, <2>4 DEF RowTells, ProcTells, SaveStarting
  <2> QED BY <2>2, <2>5, AloneTells DEF WorkingOn
<1>3. CASE Revoke(p)
  <2>1. applied' = applied /\ row' = row /\ pc'[p] = "error" /\ pc[p] = "revoke"
    BY <1>3, OwnStep DEF Revoke, tables
  <2>2. ProcTells(p, m)'
    BY <2>1 DEF ProcTells
  <2>3. pc[p] # "undo"
    BY <2>1
  <2> QED BY <2>1, <2>2, <2>3, UntouchedTells
<1>4. CASE ForcedFails(p)
  <2>1. RowTells(m)'
    BY <1>0, <1>4, ErroredTells DEF ForcedFails
  <2>2. pc'[p] \notin WorkStages
    BY <1>4, OwnStep DEF ForcedFails
  <2> QED BY <2>1, <2>2, AloneTells DEF WorkingOn
<1> QED BY <1>1, <1>2, <1>3, <1>4 DEF RequestStep

\* Steps of a worker that works on the migration.
LEMMA WorkerTells ==
    ASSUME TypeOK, NEW m \in Required, NEW p \in Procs, Alone(p, m), Tells(m), OnlyMoves(p),
           ~Spoils(m), WorkerStep(p)
    PROVE  Tells(m)'
<1>0. /\ mig[p] = m /\ m \in Migrations /\ pc[p] \in WorkStages /\ row[m] \in Rows /\ copy[p] \in Rows
      /\ RowTells(m) /\ ProcTells(p, m) /\ p \in WorkingOn(m)
      /\ Length[m] \in Nat /\ row[m].index \in Nat /\ copy[p].index \in Nat
      /\ applied \in [Migrations -> SUBSET Nat]
  BY EffectTypes DEF Alone, WorkingOn, Tells, TypeOK
<1>1. ~Take(p) /\ ~CheckStart(p) /\ ~CheckDependency(p)
  BY <1>0 DEF Take, CheckStart, CheckDependency, WorkStages
<1>2. CASE MarkRunning(p)
  <2> DEFINE r == [status |-> "Running", index |-> 0, task |-> NoTask]
  <2>1. r.index = 0 /\ r.status = "Running"
    OBVIOUS
  <2>2. UpdateRow(mig[p], r) /\ applied' = applied /\ pc[p] = "mark" /\ pc'[p] = "next"
    BY <1>2, OwnStep DEF MarkRunning
  <2> HIDE DEF r
  <2>3. row'[m] = r
    BY <1>0, <2>2, RowWritten
  <2>4. Effects(m)' = Effects(m) /\ Effects(m) = {}
    BY <1>0, <2>2 DEF Effects, Spoils
  <2>5. RowTells(m)' /\ ProcTells(p, m)'
    BY <1>0, <2>1, <2>2, <2>3, <2>4 DEF RowTells, ProcTells
  <2> QED BY <2>5, AloneTells
<1>3. CASE NextOp(p)
  <2> DEFINE i == row[m].index
             s == IF i > Length[m] - 1 THEN "complete" ELSE "exec"
  <2>1. applied' = applied /\ row' = row /\ pc[p] = "next" /\ pc'[p] = s
    BY <1>0, <1>3, OwnStep DEF NextOp, tables
  <2>2. copy'[p].index = i
    BY <1>0, <1>3 DEF NextOp, RememberIndex, Remember, TypeOK, Rows, NewRow
  <2>3. 0 .. i - 1 \subseteq applied[m] /\ row[m].status = "Running"
    BY <1>0, <2>1 DEF ProcTells
  <2>4. s = "complete" => OpsOf(m) \subseteq applied[m]
    BY <1>0, <2>3 DEF OpsOf
  <2>5. s = "exec" => i < Length[m]
    BY <1>0
  <2>6. ProcTells(p, m)'
    BY <2>1, <2>2, <2>3, <2>4, <2>5 DEF ProcTells, OpsOf
  <2>7. pc[p] # "undo"
    BY <2>1
  <2> QED BY <2>1, <2>6, <2>7, UntouchedTells
<1>4. CASE Execute(p)
  <2> DEFINE i == copy[p].index
  <2>1. pc[p] = "exec" /\ row' = row /\ i = row[m].index /\ i < Length[m]
        /\ row[m].status = "Running" /\ 0 .. i - 1 \subseteq applied[m]
    BY <1>0, <1>4 DEF Execute, ProcTells
  <2>2. \/ applied' = applied /\ pc'[p] = "error"
        \/ /\ applied' = [applied EXCEPT ![m] = @ \cup {i}]
           /\ pc'[p] \in {"bump", "error"}
    BY <1>0, <1>4, OwnStep DEF Execute
  <2>3. copy'[p] = copy[p]
    BY <1>4, OwnStep DEF Execute
  <2>4. /\ applied[m] \subseteq applied'[m] /\ applied'[m] \subseteq applied[m] \cup {i}
        /\ pc'[p] = "bump" => i \in applied'[m]
    BY <1>0, <2>2
  <2>5. pc'[p] \in {"bump", "error"}
    BY <2>2
  <2>6. \A k \in Effects(m)' : k \in Effects(m) \/ k = i
    BY <2>4 DEF Effects
  <2>7. RowTells(m)'
    <3>1. i \in OpsOf(m)
      BY <1>0, <2>1 DEF OpsOf
    <3> QED BY <1>0, <2>1, <2>4, <2>6, <3>1 DEF RowTells, OpsOf
  <2>8. ProcTells(p, m)'
    BY <1>0, <2>1, <2>3, <2>4, <2>5 DEF ProcTells
  <2> QED BY <2>7, <2>8, AloneTells
<1>5. CASE Bump(p)
  <2> DEFINE i == copy[p].index
             r == [row[m] EXCEPT !.index = i + 1]
  <2>1. pc[p] = "bump" /\ i = row[m].index /\ i \in applied[m]
        /\ row[m].status = "Running" /\ 0 .. i - 1 \subseteq applied[m]
    BY <1>0, <1>5 DEF Bump, ProcTells
  <2>2. r.index = i + 1 /\ r.status = "Running"
    BY <1>0, <2>1 DEF Rows
  <2>3. UpdateRow(mig[p], r) /\ applied' = applied /\ pc'[p] = "next"
    BY <1>0, <1>5, OwnStep DEF Bump
  <2> HIDE DEF r
  <2>4. row'[m] = r
    BY <1>0, <2>3, RowWritten
  <2>5. Effects(m)' = Effects(m)
    BY <2>3 DEF Effects
  <2>6. \A k \in Effects(m) : k \in Nat /\ k <= i
    BY <1>0, <2>1 DEF RowTells, Effects
  <2>7. RowTells(m)'
    BY <1>0, <2>2, <2>3, <2>4, <2>5, <2>6 DEF RowTells
  <2>8. 0 .. (i + 1) - 1 \subseteq applied[m]
    BY <1>0, <2>1
  <2>9. ProcTells(p, m)'
    BY <2>2, <2>3, <2>4, <2>8 DEF ProcTells
  <2> QED BY <2>7, <2>9, AloneTells
<1>6. CASE CompleteMigration(p)
  <2> DEFINE r == [row[m] EXCEPT !.status = "CompletedSuccessfully"]
  <2>1. r.index = row[m].index /\ r.status = "CompletedSuccessfully"
    BY <1>0 DEF Rows
  <2>2. UpdateRow(mig[p], r) /\ applied' = applied /\ pc[p] = "complete"
    BY <1>0, <1>6 DEF CompleteMigration
  <2>3. pc'[p] \notin WorkStages
    <3>1. pc'[p] = "lookup" \/ Finish(p)
      BY <1>6, OwnStep DEF CompleteMigration
    <3> QED BY <3>1, OwnStep DEF WorkStages
  <2> HIDE DEF r
  <2>4. row'[m] = r
    BY <1>0, <2>2, RowWritten
  <2>5. Effects(m)' = Effects(m)
    BY <2>2 DEF Effects
  <2>6. applied[m] = OpsOf(m)
    BY <1>0, <2>2 DEF RowTells, ProcTells
  <2>7. OpsOf(m)' = OpsOf(m)
    BY DEF OpsOf
  <2>8. RowTells(m)'
    BY <1>0, <2>1, <2>2, <2>4, <2>5, <2>6 DEF RowTells, OpsOf
  <2> QED BY <2>3, <2>8, AloneTells DEF WorkingOn
<1> QED BY <1>1, <1>2, <1>3, <1>4, <1>5, <1>6 DEF WorkerStep

\* Steps that requests and workers share, of a process that works on the migration.
LEMMA SharedTells ==
    ASSUME TypeOK, NEW m \in Required, NEW p \in Procs, Alone(p, m), Tells(m), OnlyMoves(p),
           ~Spoils(m), SharedStep(p)
    PROVE  Tells(m)'
<1>0. /\ mig[p] = m /\ m \in Migrations /\ pc[p] \in WorkStages /\ row[m] \in Rows /\ copy[p] \in Rows
      /\ RowTells(m) /\ ProcTells(p, m) /\ p \in WorkingOn(m)
      /\ Length[m] \in Nat /\ row[m].index \in Nat /\ copy[p].index \in Nat
      /\ applied \in [Migrations -> SUBSET Nat]
  BY EffectTypes DEF Alone, WorkingOn, Tells, TypeOK
<1>1. ~Lookup(p) /\ ~Delay(p) /\ ~NoTrigger(p) /\ ~RecordTask(p)
  BY <1>0 DEF Lookup, Delay, NoTrigger, RecordTask, WorkStages
<1>2. CASE ProcessError(p)
  <2>1. RowTells(m)'
    BY <1>0, <1>2, ErroredTells DEF ProcessError
  <2>2. pc'[p] = "refresh"
    BY <1>2, OwnStep DEF ProcessError
  <2>3. ProcTells(p, m)'
    BY <2>2 DEF ProcTells
  <2> QED BY <2>1, <2>3, AloneTells
<1>3. CASE BeginRollback(p)
  <2> DEFINE n == OpsToUndo(m)
  <2>1. applied' = applied /\ row' = row /\ pc[p] = "refresh" /\ pc'[p] = "undo"
    BY <1>3, OwnStep DEF BeginRollback, tables
  <2>2. copy'[p].index = n
    BY <1>0, <1>3 DEF BeginRollback, RememberIndex, Remember, TypeOK, Rows, NewRow
  <2>3. Effects(m)' = Effects(m)
    BY <2>1 DEF Effects
  <2>4. \A i \in Effects(m) : i \in OpsOf(m) /\ i <= row[m].index
    BY <1>0 DEF RowTells, Effects
  <2>5. \A i \in Effects(m) : i < n
    BY <1>0, <2>4 DEF OpsToUndo, OpsOf
  <2> HIDE DEF n
  <2>6. ProcTells(p, m)'
    BY <2>1, <2>2, <2>3, <2>5 DEF ProcTells
  <2>7. pc[p] # "undo"
    BY <2>1
  <2> QED BY <2>1, <2>6, <2>7, UntouchedTells
<1>4. CASE Undo(p)
  <2> DEFINE k == copy[p].index
             undone == IF Operations[m][k] = "sql"
                       THEN [applied EXCEPT ![m] = @ \ {k - 1}] ELSE applied
  <2>1. pc[p] = "undo" /\ k > 0 /\ row' = row /\ \A i \in Effects(m) : i < k
    BY <1>0, <1>4 DEF Undo, ProcTells
  <2>2. applied' \in {applied, undone}
    BY <1>0, <1>4 DEF Undo
  <2>3. applied'[m] \subseteq applied[m]
    BY <1>0, <2>2
  <2>4. Effects(m)' \subseteq Effects(m)
    BY <2>3 DEF Effects
  <2>5. CASE /\ Operations[m][k] # "none" /\ applied' = undone
             /\ RememberIndex(p, k - 1) /\ UNCHANGED <<pc, mig, job>>
    <3>1. copy'[p].index = k - 1
      BY <1>0, <2>5 DEF RememberIndex, Remember, TypeOK, Rows, NewRow
    <3>2. k - 1 \notin Effects(m)'
      <4> SUFFICES ASSUME k - 1 \in Effects(m)' PROVE FALSE
        OBVIOUS
      <4>1. k - 1 \in applied'[m] /\ Operations[m][(k - 1) + 1] # "noop"
        BY DEF Effects
      <4>2. k - 1 \in OpsOf(m) /\ (k - 1) + 1 = k
        BY <1>0, <2>3, <4>1 DEF RowTells
      <4>3. Operations[m][k] \in Rollbacks
        BY <4>2, EffectTypes
      <4>4. Operations[m][k] = "sql"
        BY <2>5, <4>1, <4>2, <4>3 DEF Rollbacks
      <4>5. applied'[m] = applied[m] \ {k - 1}
        BY <1>0, <2>5, <4>4
      <4> QED BY <4>1, <4>5
    <3>3. \A i \in Effects(m)' : i \in Nat /\ i < k /\ i # k - 1
      BY <1>0, <2>1, <2>4, <3>2 DEF Effects
    <3>4. \A i \in Effects(m)' : i < k - 1
      <4>1. \A i \in Nat : i < k /\ i # k - 1 => i < k - 1
        BY <1>0
      <4> QED BY <3>3, <4>1
    <3>5. pc'[p] = "undo" /\ p \in WorkingOn(m)'
      BY <1>0, <2>1, <2>5 DEF WorkingOn
    <3>6. RowTells(m)'
      BY <1>0, <2>1, <2>3, <2>4, <3>5 DEF RowTells, OpsOf
    <3>7. ProcTells(p, m)'
      BY <3>1, <3>4, <3>5 DEF ProcTells
    <3> QED BY <3>6, <3>7, AloneTells
  <2>6. CASE Continue(p, "failed") \/ Finish(p)
    <3>1. pc'[p] = "failed" \/ pc'[p] \notin WorkStages
      BY <2>6, OwnStep
    <3>2. row[m].status = "RolledBack"
      BY <1>0, <2>1, <3>1 DEF Spoils, WorkStages
    <3>3. Effects(m)' = {}
      BY <1>0, <2>4, <3>2 DEF RowTells
    <3>4. RowTells(m)'
      BY <1>0, <2>1, <2>3, <3>2, <3>3 DEF RowTells, OpsOf
    <3>5. p \in WorkingOn(m)' => ProcTells(p, m)'
      BY <3>1 DEF WorkingOn, ProcTells
    <3> QED BY <3>4, <3>5, AloneTells
  <2> QED BY <1>0, <1>4, <2>5, <2>6 DEF Undo
<1>5. CASE RolledBack(p)
  <2> DEFINE r == [row[m] EXCEPT !.status = "RolledBack"]
  <2>1. r.index = row[m].index /\ r.status = "RolledBack"
    BY <1>0 DEF Rows
  <2>2. UpdateRow(mig[p], r) /\ applied' = applied /\ pc[p] = "undo" /\ copy[p].index = 0
        /\ pc'[p] \notin WorkStages
    BY <1>0, <1>5, OwnStep DEF RolledBack
  <2> HIDE DEF r
  <2>3. row'[m] = r
    BY <1>0, <2>2, RowWritten
  <2>4. \A i \in Effects(m) : i \in Nat /\ i < 0
    BY <1>0, <2>2 DEF ProcTells, Effects
  <2>5. Effects(m)' = {}
    BY <2>2, <2>4 DEF Effects
  <2>6. RowTells(m)'
    BY <1>0, <2>1, <2>2, <2>3, <2>5 DEF RowTells, OpsOf
  <2> QED BY <2>2, <2>6, AloneTells DEF WorkingOn
<1> QED BY <1>1, <1>2, <1>3, <1>4, <1>5 DEF SharedStep

\* The process that works on the migration is killed.
LEMMA KillTells ==
    ASSUME TypeOK, NEW m \in Required, NEW p \in Procs, Alone(p, m), Tells(m), OnlyMoves(p),
           ~Spoils(m), pc'[p] = Ended(p), UNCHANGED tables
    PROVE  Tells(m)'
<1>1. pc'[p] \notin WorkStages /\ pc'[p] # "undo"
  BY DEF Ended, WorkStages
<1>2. applied' = applied /\ row' = row
  BY DEF tables
<1>3. Effects(m)' = Effects(m)
  BY <1>2 DEF Effects
<1>4. p \in WorkingOn(m) /\ \A q \in WorkingOn(m) : q = p
  BY DEF Alone
<1>5. pc[p] # "undo" \/ row[m].status = "RolledBack"
  BY <1>1, <1>2, <1>4 DEF Spoils
<1>6. RowTells(m)'
  BY <1>2, <1>3, <1>4, <1>5 DEF Tells, RowTells, OpsOf
<1> QED BY <1>1, <1>6, AloneTells DEF WorkingOn

\* A kill, of a process that works on the migration or on none of its stages.
LEMMA AnyKillTells ==
    ASSUME TypeOK, NEW m \in Required, NEW p \in Procs, Tells(m), OnlyMoves(p),
           ~Spoils(m), pc'[p] = Ended(p), UNCHANGED tables
    PROVE  Tells(m)'
<1>1. CASE p \in WorkingOn(m)
  <2>1. Alone(p, m)
    BY <1>1 DEF Alone, Spoils
  <2> QED BY <2>1, KillTells
<1>2. CASE p \notin WorkingOn(m)
  <2>1. LeavesAlone(p, m)
    BY DEF LeavesAlone, tables, WorkingOn, Ended, WorkStages
  <2> QED BY <1>2, <2>1, ElsewhereTells
<1> QED BY <1>1, <1>2

\* The invariant is inductive, given the types.
LEMMA EffectsInduction ==
    TypeOK /\ EffectsTold /\ [MonitoredNext]_<<vars, spoiled, stranded>> => EffectsTold'
<1> SUFFICES ASSUME TypeOK, EffectsTold, [MonitoredNext]_<<vars, spoiled, stranded>>,
                    NEW m \in Required \ spoiled'
             PROVE  Tells(m)'
  BY DEF EffectsTold
<1>1. CASE UNCHANGED <<vars, spoiled, stranded>>
  <2>1. UNCHANGED <<row, applied, pc, mig, copy>> /\ m \notin spoiled
    BY <1>1 DEF vars, tables, locals
  <2>2. Tells(m)
    BY <2>1 DEF EffectsTold
  <2> QED BY <2>1, <2>2 DEF Tells, RowTells, ProcTells, WorkingOn, Effects, OpsOf
<1>2. CASE MonitoredNext
  <2>1. m \in Required /\ m \in Migrations /\ ~Spoils(m) /\ m \notin spoiled
    BY <1>2 DEF MonitoredNext
  <2>2. Tells(m)
    BY <2>1 DEF EffectsTold
  <2>3. ASSUME NEW p \in Procs,
               \/ p \in Requests /\ (Begin(p) \/ RequestStep(p))
               \/ p \in Workers /\ WorkerStep(p)
               \/ SharedStep(p)
        PROVE  Tells(m)'
    <3>1. OnlyMoves(p)
      BY <2>3, StepMoves
    <3>2. CASE p \notin WorkingOn(m)
      BY <2>1, <2>2, <2>3, <3>1, <3>2, StepLeavesAlone, ElsewhereTells
    <3>3. CASE p \in WorkingOn(m)
      <4>1. Alone(p, m)
        BY <2>1, <3>3 DEF Alone, Spoils
      <4>2. ~Begin(p)
        BY <3>3 DEF Begin, WorkingOn, WorkStages
      <4> QED BY <2>1, <2>2, <2>3, <3>1, <4>1, <4>2, RequestTells, WorkerTells, SharedTells
    <3> QED BY <3>2, <3>3
  <2>4. ASSUME NEW p \in Workers, Terminate(p) PROVE Tells(m)'
    <3>1. p \in Procs
      BY DEF Procs
    <3>2. OnlyMoves(p) /\ pc'[p] = Ended(p) /\ UNCHANGED tables
      BY <2>4, <3>1, OthersKeep, OwnStep DEF OnlyMoves, Terminate
    <3> QED BY <2>1, <2>2, <3>1, <3>2, AnyKillTells
  <2>5. ASSUME NEW p \in Requests, Crash(p) PROVE Tells(m)'
    <3>1. PICK q \in Procs : /\ Active(q)
                             /\ pc' = [pc EXCEPT ![p] = "done", ![q] = Ended(q)]
                             /\ Forget(q)
      BY <2>5 DEF Crash
    <3>2. p \in Procs /\ pc[p] = "idle" /\ p # q /\ UNCHANGED tables
      BY <2>5, <3>1 DEF Crash, Procs, Active
    <3>3. pc'[q] = Ended(q) /\ pc'[p] = "done" /\ \A x \in Procs \ {p, q} : pc'[x] = pc[x]
      BY <3>1, <3>2 DEF TypeOK
    <3>4. \A x \in Procs \ {q} : mig'[x] = mig[x] /\ copy'[x] = copy[x]
      BY <3>1 DEF Forget, TypeOK
    <3>5. OnlyMoves(q)
      BY <3>2, <3>3, <3>4 DEF OnlyMoves, WorkStages
    <3> QED BY <2>1, <2>2, <3>2, <3>3, <3>5, AnyKillTells
  <2>6. ASSUME NEW p \in Requests, StartServer(p) \/ SetupStep(p) PROVE Tells(m)'
    <3>1. p \in Procs /\ ~SetsBack(m)
      BY <2>1 DEF Procs, Spoils
    <3>2. OnlyMoves(p)
      BY <2>6, <3>1, StepMoves
    <3> QED BY <2>1, <2>2, <2>6, <3>1, <3>2, SetupLeavesAlone, ElsewhereTells
  <2> QED BY <1>2, <2>3, <2>4, <2>5, <2>6 DEF MonitoredNext, Next, Procs
<1> QED BY <1>1, <1>2

\* With a single process at work on a migration that was not killed nor begun over its
\* own effects, whose rollback did not fail, and whose row no server start has set back,
\* completed means all its effects, rolled back none.
THEOREM StatusTells == MonitoredSpec => []StatusTellsEffects
<1>1. MonitoredSpec => Spec
  <2>1. MonitoredInit => Init
    BY DEF MonitoredInit
  <2>2. [MonitoredNext]_<<vars, spoiled, stranded>> => [Next]_vars
    BY DEF MonitoredNext
  <2> QED BY <2>1, <2>2, PTL DEF MonitoredSpec, Spec
<1>2. MonitoredInit => EffectsTold
  <2> SUFFICES ASSUME MonitoredInit, NEW m \in Required PROVE Tells(m)
    BY DEF EffectsTold
  <2>1. m \in Migrations /\ row[m] = NewRow /\ applied[m] = {} /\ NewRow.status = "NotStarted"
    BY DEF MonitoredInit, Init, NewRow
  <2>2. WorkingOn(m) = {}
    BY DEF MonitoredInit, Init, WorkingOn, WorkStages
  <2> QED BY <2>1, <2>2 DEF Tells, RowTells, Effects
<1>3. EffectsTold => StatusTellsEffects
  BY DEF EffectsTold, Tells, RowTells, StatusTellsEffects
<1> QED BY <1>1, <1>2, <1>3, TypeCorrect, EffectsInduction, PTL DEF MonitoredSpec
=============================================================================
