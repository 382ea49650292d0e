--------------------------- MODULE PersonIdentity ---------------------------
(***************************************************************************)
(* Concurrent ingestion tasks deciding which person a distinct id belongs  *)
(* to: EventsProcessor.handleIdentifyOrAlias, alias, mergePeople,          *)
(* setIsIdentified and createPersonIfDistinctIdIsNew of the plugin         *)
(* server's process-event.ts, over the Postgres statements of db.ts.       *)
(*                                                                         *)
(* A step of a task is one SQL statement, together with the code that      *)
(* runs until the next await.  Of Postgres the module keeps what the code  *)
(* depends on under READ COMMITTED: a row lock is held until the           *)
(* transaction ends, a statement that meets a locked row waits and then    *)
(* looks at the row again, an INSERT of a distinct id waits for another    *)
(* uncommitted INSERT of it, foreign keys (Django declares them DEFERRABLE *)
(* INITIALLY DEFERRED) are checked at COMMIT, and one transaction of a     *)
(* cycle of waits is aborted.  One team; person properties are left out.   *)
(***************************************************************************)
EXTENDS Naturals, FiniteSets

CONSTANTS
    DistinctIds, GenericIds,   \* all distinct ids; the ones isDistinctIdIllegal refuses
    Persons, NoPerson,         \* values of posthog_person.id
    Tasks, NoTask,             \* ingestEvent tasks, each handling one event
    Workers,                   \* worker threads: a Postgres pool and a PersonManager each
    CrashingWorkers,           \* the workers that may be killed
    PoolSize,                  \* clients in a worker's Postgres pool
    MaxMergeAttempts,          \* MAX_FAILED_PERSON_MERGE_ATTEMPTS
    Assignments,               \* events the tasks may be given, a function on Tasks each
    Seeds                      \* assignments of distinct ids the tables may start with

EventNames == {"$identify", "$create_alias", "other"}

\* prev is properties.$anon_distinct_id of an $identify, properties.alias of a
\* $create_alias.
JobType == [event : EventNames, prev : DistinctIds, id : DistinctIds, worker : Workers]

ASSUME ConstantsOK ==
    /\ GenericIds \subseteq DistinctIds
    /\ NoPerson \notin Persons
    /\ NoTask \notin Tasks
    /\ CrashingWorkers \subseteq Workers
    /\ PoolSize \in Nat
    /\ MaxMergeAttempts \in Nat \ {0}
    /\ Assignments \subseteq [Tasks -> JobType]
    /\ Seeds \subseteq [DistinctIds -> Persons \cup {NoPerson}]

VARIABLES
    persons, identified, personOf,  \* committed rows, as in PersonStore
    personLock, idLock,             \* the transaction holding a row (or a uniqueness claim)
    job, pc,                        \* per task: its event and its next statement
    old, new,                       \* per task: oldPerson and newPerson as fetched
    attempts,                       \* per task: mergePeople calls whose transaction is dead
    retried,                        \* per task: alias was called again after a failure
    seen                            \* per worker: PersonManager.personSeen

store == <<persons, identified, personOf>>
locks == <<personLock, idLock>>
frame == <<old, new, attempts, retried>>
vars == <<persons, identified, personOf, personLock, idLock, job, pc,
          old, new, attempts, retried, seen>>

Store == INSTANCE PersonStore

-----------------------------------------------------------------------------
AliasPc == {"fetchOld", "fetchNew", "addDistinctId", "insertId", "insertPrev",
            "commitPerson", "updateTarget", "moveIds", "deleteSource", "commitMerge",
            "fetchIdentity", "setIdentified", "returned"}
CapturePc == {"isNewPerson", "countIds", "insertNew", "commitNew"}
EndPc == {"done", "lost"}

Nobody == [id |-> NoPerson, identified |-> FALSE]

\* fetchPerson's result: a copy of the row, stale as soon as it is returned.
Snapshots == [id : Persons \cup {NoPerson}, identified : BOOLEAN]

TypeOK ==
    /\ Store!StoreType
    /\ personLock \in [Persons -> Tasks \cup {NoTask}]
    /\ idLock \in [DistinctIds -> Tasks \cup {NoTask}]
    /\ job \in [Tasks -> JobType]
    /\ pc \in [Tasks -> {"start"} \cup AliasPc \cup CapturePc \cup EndPc]
    /\ old \in [Tasks -> Snapshots]
    /\ new \in [Tasks -> Snapshots]
    /\ attempts \in [Tasks -> 0 .. MaxMergeAttempts - 1]
    /\ retried \in [Tasks -> BOOLEAN]
    /\ seen \in [Workers -> SUBSET DistinctIds]

Init ==
    /\ personOf \in Seeds
    /\ persons = {p \in Persons : \E d \in DistinctIds : personOf[d] = p}
    /\ identified \in SUBSET persons
    /\ personLock = [p \in Persons |-> NoTask]
    /\ idLock = [d \in DistinctIds |-> NoTask]
    /\ job \in Assignments
    /\ pc = [t \in Tasks |-> "start"]
    /\ old = [t \in Tasks |-> Nobody]
    /\ new = [t \in Tasks |-> Nobody]
    /\ attempts = [t \in Tasks |-> 0]
    /\ retried = [t \in Tasks |-> FALSE]
    /\ seen = [w \in Workers |-> {}]

-----------------------------------------------------------------------------
(* Postgres *)

\* The statements that run on a client with an open transaction.
InTransaction(t) ==
    pc[t] \in {"insertPrev", "commitPerson", "moveIds", "deleteSource", "commitMerge", "commitNew"}

\* A mergePeople that failed keeps its client while alias runs again inside it.
ClientsHeld(t) == attempts[t] + (IF InTransaction(t) THEN 1 ELSE 0)

ClientsInUse(w) ==
    Cardinality({c \in Tasks \X (1 .. MaxMergeAttempts) :
                    job[c[1]].worker = w /\ c[2] <= ClientsHeld(c[1])})

HasClient(t) == InTransaction(t) \/ ClientsInUse(job[t].worker) < PoolSize

IdBusy(t, d) == idLock[d] \notin {t, NoTask}
PersonBusy(t, p) == personLock[p] \notin {t, NoTask}

\* Another transaction has deleted the row: a foreign key to it has to wait.
BeingDeleted(t, p) == \E u \in Tasks \ {t} : personLock[p] = u /\ old[u].id = p

RowsOf(p) == {d \in DistinctIds : personOf[d] = p}

\* Mutant of Rollback: the claims of its INSERTs and UPDATEs outlive a transaction.
RollbackKeepingIds(t) ==
    /\ personLock' = [p \in Persons |-> IF personLock[p] = t THEN NoTask ELSE personLock[p]]
    /\ UNCHANGED idLock

Rollback(t) ==
    /\ personLock' = [p \in Persons |-> IF personLock[p] = t THEN NoTask ELSE personLock[p]]
    /\ idLock' = [d \in DistinctIds |-> IF idLock[d] = t THEN NoTask ELSE idLock[d]]

\* Mutant of Commit: the client goes back to the pool with its transaction open.
CommitForgotten(t) == UNCHANGED locks

\* COMMIT releases what ROLLBACK releases; the rows it writes are the caller's.
Commit(t) == Rollback(t)

\* The transactions t's statement waits for, when t holds locks of its own.
Blockers(t) ==
    {u \in Tasks \ {t} :
        \/ pc[t] = "insertPrev" /\ idLock[job[t].prev] = u
        \/ pc[t] = "moveIds" /\ \E d \in RowsOf(old[t].id) : idLock[d] = u
        \/ pc[t] = "deleteSource" /\ personLock[old[t].id] = u}

Knot(S) == S # {} /\ \A u \in S : Blockers(u) \cap S # {}

\* t is on a shortest cycle of waits.
Deadlocked(t) ==
    /\ Blockers(t) # {}
    /\ \E S \in SUBSET Tasks : t \in S /\ Knot(S) /\ \A R \in SUBSET S : Knot(R) => R = S

-----------------------------------------------------------------------------
(* Control flow shared by the handlers *)

Goto(t, label) == pc' = [pc EXCEPT ![t] = label]
Keep(t, o, n) == old' = [old EXCEPT ![t] = o] /\ new' = [new EXCEPT ![t] = n]
Forget(t) == Keep(t, Nobody, Nobody)

\* alias sets is_identified last, whatever happened before it.
AfterAlias(t) == IF job[t].event = "$identify" THEN "fetchIdentity" ELSE "returned"

\* An error leaves handleIdentifyOrAlias: each enclosing mergePeople rolls back
\* and processEvent logs the error and goes on to capture.
Throw(t) ==
    /\ Goto(t, "isNewPerson")
    /\ Forget(t)
    /\ attempts' = [attempts EXCEPT ![t] = 0]
    /\ retried' = [retried EXCEPT ![t] = FALSE]
    /\ Rollback(t)

\* The catch blocks of alias: once more if retryIfFailed, else swallow the error.
RetryIfFailed(t) ==
    /\ Forget(t)
    /\ IF attempts[t] = 0 /\ ~retried[t]
       THEN Goto(t, "fetchOld") /\ retried' = [retried EXCEPT ![t] = TRUE]
       ELSE Goto(t, AfterAlias(t)) /\ UNCHANGED retried
    /\ Rollback(t)
    /\ UNCHANGED attempts

Fetched(d) == IF personOf[d] = NoPerson THEN Nobody
              ELSE [id |-> personOf[d], identified |-> personOf[d] \in identified]

-----------------------------------------------------------------------------
(* handleIdentifyOrAlias and alias *)

HandleIdentifyOrAlias(t) ==
    /\ pc[t] = "start"
    /\ LET aliasing == /\ job[t].event \in {"$identify", "$create_alias"}
                       /\ job[t].id \notin GenericIds
                       /\ job[t].prev # job[t].id
       IN Goto(t, IF aliasing THEN "fetchOld" ELSE "isNewPerson")
    /\ UNCHANGED <<store, locks, job, frame, seen>>

FetchOld(t) ==
    /\ pc[t] = "fetchOld"
    /\ HasClient(t)
    /\ old' = [old EXCEPT ![t] = Fetched(job[t].prev)]
    /\ Goto(t, "fetchNew")
    /\ UNCHANGED <<store, locks, job, new, attempts, retried, seen>>

\* The second query, and the branch alias takes on the two results.
FetchNew(t) ==
    /\ pc[t] = "fetchNew"
    /\ HasClient(t)
    /\ LET o == old[t]
           n == Fetched(job[t].id)
           refused == job[t].event = "$identify" /\ o.identified
       IN \/ /\ (o.id = NoPerson) # (n.id = NoPerson)
             /\ Goto(t, "addDistinctId") /\ Keep(t, o, n)
          \/ /\ o.id = NoPerson /\ n.id = NoPerson
             /\ Goto(t, "insertId") /\ Forget(t)
          \/ /\ o.id # NoPerson /\ n.id # NoPerson /\ o.id # n.id /\ ~refused
             /\ Goto(t, "updateTarget") /\ Keep(t, o, n)
          \/ /\ o.id # NoPerson /\ n.id # NoPerson /\ (o.id = n.id \/ refused)
             /\ Goto(t, AfterAlias(t)) /\ Forget(t)
    /\ UNCHANGED <<store, locks, job, attempts, retried, seen>>

\* Mutants of InsertSucceeds: without the unique key (ON CONFLICT DO UPDATE), and
\* without the foreign key.
InsertOverwrites(d, p) == p \in persons
InsertUnchecked(d, p) == personOf[d] = NoPerson

\* The unique key and the foreign key of posthog_persondistinctid.
InsertSucceeds(d, p) == personOf[d] = NoPerson /\ p \in persons

\* addDistinctId, one INSERT in a transaction of its own.
AddDistinctId(t) ==
    /\ pc[t] = "addDistinctId"
    /\ HasClient(t)
    /\ LET p == IF new[t].id = NoPerson THEN old[t].id ELSE new[t].id
           d == IF new[t].id = NoPerson THEN job[t].id ELSE job[t].prev
       IN /\ ~IdBusy(t, d)
          /\ personOf[d] = NoPerson => ~BeingDeleted(t, p)
          /\ \/ /\ InsertSucceeds(d, p)
                /\ personOf' = [personOf EXCEPT ![d] = p]
                /\ Goto(t, AfterAlias(t))
                /\ Forget(t)
                /\ UNCHANGED <<persons, identified, locks, attempts, retried>>
             \/ /\ ~InsertSucceeds(d, p)
                /\ RetryIfFailed(t)
                /\ UNCHANGED store
    /\ UNCHANGED <<job, seen>>

\* setIsIdentified: fetch, and update only a person that is not identified yet.
FetchIdentity(t) ==
    /\ pc[t] = "fetchIdentity"
    /\ HasClient(t)
    /\ LET n == Fetched(job[t].id)
       IN \/ n.id = NoPerson /\ Throw(t)
          \/ /\ n.id # NoPerson
             /\ IF n.identified THEN Goto(t, "returned") /\ Forget(t)
                                ELSE Goto(t, "setIdentified") /\ Keep(t, Nobody, n)
             /\ UNCHANGED <<locks, attempts, retried>>
    /\ UNCHANGED <<store, job, seen>>

SetIdentified(t) ==
    /\ pc[t] = "setIdentified"
    /\ HasClient(t)
    /\ ~PersonBusy(t, new[t].id)
    /\ \/ /\ new[t].id \in persons
          /\ identified' = identified \cup {new[t].id}
          /\ Goto(t, "returned")
          /\ Forget(t)
          /\ UNCHANGED <<locks, attempts, retried>>
       \/ /\ new[t].id \notin persons
          /\ Throw(t)
          /\ UNCHANGED identified
    /\ UNCHANGED <<persons, personOf, job, seen>>

\* alias returns to its caller: to a mergePeople whose COMMIT ends a dead
\* transaction, to the alias that called it again, or to processEvent.
Return(t) ==
    /\ pc[t] = "returned"
    /\ \/ /\ attempts[t] > 0
          /\ attempts' = [attempts EXCEPT ![t] = @ - 1]
          /\ Goto(t, AfterAlias(t))
          /\ UNCHANGED retried
       \/ /\ attempts[t] = 0 /\ retried[t]
          /\ retried' = [retried EXCEPT ![t] = FALSE]
          /\ Goto(t, AfterAlias(t))
          /\ UNCHANGED attempts
       \/ /\ attempts[t] = 0 /\ ~retried[t]
          /\ Goto(t, "isNewPerson")
          /\ UNCHANGED <<attempts, retried>>
    /\ UNCHANGED <<store, locks, job, old, new, seen>>

-----------------------------------------------------------------------------
(* createPerson: INSERT the person, INSERT its distinct ids, COMMIT *)

\* An INSERT of a distinct id claims the id until the transaction ends.
Insert(t, d, next) ==
    /\ personOf[d] = NoPerson
    /\ idLock' = [idLock EXCEPT ![d] = t]
    /\ Goto(t, next)
    /\ UNCHANGED <<personLock, old, new, attempts, retried>>

InsertId(t) ==
    /\ pc[t] = "insertId"
    /\ HasClient(t)
    /\ ~IdBusy(t, job[t].id)
    /\ \/ Insert(t, job[t].id, "insertPrev")
       \/ personOf[job[t].id] # NoPerson /\ RetryIfFailed(t)
    /\ UNCHANGED <<store, job, seen>>

InsertPrev(t) ==
    /\ pc[t] = "insertPrev"
    /\ ~IdBusy(t, job[t].prev)
    /\ \/ Insert(t, job[t].prev, "commitPerson")
       \/ personOf[job[t].prev] # NoPerson /\ RetryIfFailed(t)
    /\ UNCHANGED <<store, job, seen>>

InsertNew(t) ==
    /\ pc[t] = "insertNew"
    /\ HasClient(t)
    /\ ~IdBusy(t, job[t].id)
    /\ \/ Insert(t, job[t].id, "commitNew")
       \/ /\ personOf[job[t].id] # NoPerson
          /\ Goto(t, "done")
          /\ UNCHANGED <<locks, frame>>
    /\ UNCHANGED <<store, job, seen>>

\* The sequence of posthog_person.id never gives an id twice; the model gives one
\* again only when nobody remembers it.
Fresh(p) == p \notin persons /\ \A u \in Tasks : old[u].id # p /\ new[u].id # p
NextId == CHOOSE p \in Persons : Fresh(p)

CommitPerson(t) ==
    /\ pc[t] \in {"commitPerson", "commitNew"}
    /\ \E p \in Persons : Fresh(p)
    /\ LET isIdentified == pc[t] = "commitPerson" /\ job[t].event = "$identify"
       IN /\ persons' = persons \cup {NextId}
          /\ identified' = IF isIdentified THEN identified \cup {NextId} ELSE identified
          /\ personOf' = [d \in DistinctIds |-> IF idLock[d] = t THEN NextId ELSE personOf[d]]
    /\ Commit(t)
    /\ Goto(t, IF pc[t] = "commitNew" THEN "done" ELSE AfterAlias(t))
    /\ UNCHANGED <<job, frame, seen>>

-----------------------------------------------------------------------------
(* mergePeople: newPerson is mergeInto, oldPerson is otherPerson *)

\* updatePerson(mergeInto); the row it writes is applied at COMMIT.
UpdateTarget(t) ==
    /\ pc[t] = "updateTarget"
    /\ HasClient(t)
    /\ ~PersonBusy(t, new[t].id)
    /\ \/ /\ new[t].id \in persons
          /\ personLock' = [personLock EXCEPT ![new[t].id] = t]
          /\ Goto(t, "moveIds")
          /\ UNCHANGED <<idLock, frame>>
       \/ new[t].id \notin persons /\ Throw(t)
    /\ UNCHANGED <<store, job, seen>>

\* moveDistinctIds: no row left to move is a RaceConditionError, which is not
\* a DatabaseError and so is not retried.
MoveIds(t) ==
    /\ pc[t] = "moveIds"
    /\ LET rows == RowsOf(old[t].id)
       IN /\ \A d \in rows : ~IdBusy(t, d)
          /\ \/ /\ rows # {}
                /\ idLock' = [d \in DistinctIds |-> IF d \in rows THEN t ELSE idLock[d]]
                /\ Goto(t, "deleteSource")
                /\ UNCHANGED <<personLock, frame>>
             \/ rows = {} /\ Throw(t)
    /\ UNCHANGED <<store, job, seen>>

DeleteSource(t) ==
    /\ pc[t] = "deleteSource"
    /\ ~PersonBusy(t, old[t].id)
    /\ personLock' = [personLock EXCEPT ![old[t].id] = t]
    /\ Goto(t, "commitMerge")
    /\ UNCHANGED <<store, idLock, job, frame, seen>>

\* The deferred foreign keys of the rows the merge has written.
ForeignKeysHold(t) ==
    /\ new[t].id \in persons
    /\ \A d \in RowsOf(old[t].id) : idLock[d] = t

CommitMerge(t) ==
    /\ pc[t] = "commitMerge"
    /\ \/ /\ ForeignKeysHold(t)
          /\ persons' = persons \ {old[t].id}
          /\ identified' = IF old[t].identified \/ new[t].identified
                           THEN (identified \ {old[t].id}) \cup {new[t].id}
                           ELSE identified \ {old[t].id, new[t].id}
          /\ personOf' = [d \in DistinctIds |->
                            IF idLock[d] = t THEN new[t].id ELSE personOf[d]]
          /\ Commit(t)
          /\ Goto(t, AfterAlias(t))
          /\ Forget(t)
          /\ UNCHANGED <<attempts, retried>>
       \/ /\ ~ForeignKeysHold(t)
          /\ Throw(t)
          /\ UNCHANGED store
    /\ UNCHANGED <<job, seen>>

\* Mutant of GivesUp: the limit is compared before the failure is counted.
GivesUpLate(t) == attempts[t] = MaxMergeAttempts

GivesUp(t) == attempts[t] + 1 = MaxMergeAttempts

\* deadlock_detected, the DatabaseError that mergePeople and alias do retry.
\* mergePeople calls alias again before its own transaction has ended.
DeadlockVictim(t) ==
    /\ pc[t] \in {"insertPrev", "moveIds", "deleteSource"}
    /\ Deadlocked(t)
    /\ \/ pc[t] = "insertPrev" /\ RetryIfFailed(t)
       \/ /\ pc[t] # "insertPrev" /\ GivesUp(t)
          /\ Throw(t)
       \/ /\ pc[t] # "insertPrev" /\ ~GivesUp(t)
          /\ attempts' = [attempts EXCEPT ![t] = @ + 1]
          /\ Rollback(t)
          /\ Forget(t)
          /\ Goto(t, "fetchOld")
          /\ UNCHANGED retried
    /\ UNCHANGED <<store, job, seen>>

-----------------------------------------------------------------------------
(* capture: createPersonIfDistinctIdIsNew *)

\* Mutant of PersonSeen: one cache for all workers, which survives none of them.
SeenByAnyWorker(w) == UNION {seen[v] : v \in Workers}

PersonSeen(w) == seen[w]

\* isNewPerson up to its query: personSeen is set before the count is known.
\* A hit may also have been evicted from the LRU.
IsNewPerson(t) ==
    /\ pc[t] = "isNewPerson"
    /\ LET w == job[t].worker
       IN \/ /\ job[t].id \in PersonSeen(w)
             /\ Goto(t, "done")
             /\ UNCHANGED seen
          \/ /\ seen' = [seen EXCEPT ![w] = @ \cup {job[t].id}]
             /\ Goto(t, "countIds")
    /\ UNCHANGED <<store, locks, job, frame>>

CountIds(t) ==
    /\ pc[t] = "countIds"
    /\ HasClient(t)
    /\ Goto(t, IF personOf[job[t].id] = NoPerson THEN "insertNew" ELSE "done")
    /\ UNCHANGED <<store, locks, job, frame, seen>>

-----------------------------------------------------------------------------
TaskStep(t) ==
    \/ HandleIdentifyOrAlias(t) \/ FetchOld(t) \/ FetchNew(t) \/ AddDistinctId(t)
    \/ FetchIdentity(t) \/ SetIdentified(t) \/ Return(t)
    \/ InsertId(t) \/ InsertPrev(t) \/ InsertNew(t) \/ CommitPerson(t)
    \/ UpdateTarget(t) \/ MoveIds(t) \/ DeleteSource(t) \/ CommitMerge(t)
    \/ DeadlockVictim(t)
    \/ IsNewPerson(t) \/ CountIds(t)

Ended(t) == pc[t] \in EndPc

\* A worker is killed: its tasks are gone, Postgres rolls their transactions back.
Crash(w) ==
    LET hit == {t \in Tasks : job[t].worker = w /\ ~Ended(t)}
    IN /\ w \in CrashingWorkers
       /\ hit # {}
       /\ pc' = [t \in Tasks |-> IF t \in hit THEN "lost" ELSE pc[t]]
       /\ old' = [t \in Tasks |-> IF t \in hit THEN Nobody ELSE old[t]]
       /\ new' = [t \in Tasks |-> IF t \in hit THEN Nobody ELSE new[t]]
       /\ attempts' = [t \in Tasks |-> IF t \in hit THEN 0 ELSE attempts[t]]
       /\ retried' = [t \in Tasks |-> IF t \in hit THEN FALSE ELSE retried[t]]
       /\ personLock' = [p \in Persons |-> IF personLock[p] \in hit THEN NoTask ELSE personLock[p]]
       /\ idLock' = [d \in DistinctIds |-> IF idLock[d] \in hit THEN NoTask ELSE idLock[d]]
       /\ seen' = [seen EXCEPT ![w] = {}]
       /\ UNCHANGED <<store, job>>

Finished == (\A t \in Tasks : Ended(t)) /\ UNCHANGED vars

Next ==
    \/ \E t \in Tasks : TaskStep(t)
    \/ \E w \in Workers : Crash(w)
    \/ Finished

Spec == Init /\ [][Next]_vars

\* The event loop resumes every task whose query has returned, and Postgres
\* detects every deadlock (deadlock_timeout); nobody is obliged to crash.
FairSpec == Spec /\ \A t \in Tasks : WF_vars(TaskStep(t))

-----------------------------------------------------------------------------
(* Properties *)

\* The tables are consistent at every moment, whatever aliases, merges, retries
\* and crashes are under way: a distinct id refers to an existing person, and
\* no person is left without a distinct id (createPerson, mergePeople).
TablesConsistent == Store!References /\ Store!NoOrphans

\* Once two distinct ids belong to the same person no alias, merge or crash
\* separates them again: a merge moves all the distinct ids of the source or none.
NeverSplit == Store!NeverSplit

\* The statements of all tasks together amount to the atomic operations of the
\* person store.
ImplementsStore == Store!Spec

\* Row locks and open transactions match at every statement: locks are held by
\* running transactions only, so every way out (COMMIT, ROLLBACK, retry, crash)
\* releases them; the target of a merge stays alive and locked from updatePerson
\* to COMMIT; the distinct ids a merge has moved are still the source's; and the
\* ids a createPerson claims are still nobody's.
UpdatedPc == {"moveIds", "deleteSource", "commitMerge"}
MovedPc == {"deleteSource", "commitMerge"}
InsertedPc == {"insertPrev", "commitPerson", "commitNew"}

TwoPersons(t) ==
    pc[t] \in UpdatedPc \cup {"updateTarget"} =>
        old[t].id \in Persons /\ new[t].id \in Persons /\ old[t].id # new[t].id
TargetHeld(t) ==
    pc[t] \in UpdatedPc => new[t].id \in persons /\ personLock[new[t].id] = t
IdsHeld(t) ==
    /\ pc[t] \in MovedPc \cup InsertedPc => \E d \in DistinctIds : idLock[d] = t
    /\ pc[t] \in MovedPc => \A d \in DistinctIds : idLock[d] = t => personOf[d] = old[t].id
    /\ pc[t] \in InsertedPc => \A d \in DistinctIds : idLock[d] = t => personOf[d] = NoPerson
SourceHeld(t) == pc[t] = "commitMerge" => personLock[old[t].id] = t
OnlyThese(t) ==
    /\ \A p \in Persons : personLock[p] = t =>
          \/ pc[t] \in UpdatedPc /\ p = new[t].id
          \/ pc[t] = "commitMerge" /\ p = old[t].id
    /\ \A d \in DistinctIds : idLock[d] = t => pc[t] \in MovedPc \cup InsertedPc

LocksMatchTransactions ==
    \A t \in Tasks : TwoPersons(t) /\ TargetHeld(t) /\ IdsHeld(t) /\ SourceHeld(t) /\ OnlyThese(t)

\* Every event gets past its alias and person handling: merges that deadlock or
\* race are retried a bounded number of times, and no wait lasts forever.
EveryTaskEnds == <>(\A t \in Tasks : Ended(t))

\* The distinct id of an event that was handled gets a person in the end, also
\* when isNewPerson relied on another task of the worker to create it, unless
\* that worker is killed first.
WorkerCrashed(w) == \E u \in Tasks : job[u].worker = w /\ pc[u] = "lost"
EveryEventGetsAPerson ==
    \A t \in Tasks :
        pc[t] = "done" ~> personOf[job[t].id] # NoPerson \/ WorkerCrashed(job[t].worker)

\* What the comment in alias says of $identify: "for $identify, we'll not merge a
\* user who's already identified into anyone else".
IdentifySparesIdentified ==
    [][\A t \in Tasks :
          /\ job[t].event = "$identify"
          /\ pc[t] = "commitMerge" /\ pc'[t] = "fetchIdentity"
          => old[t].id \notin identified]_vars
=============================================================================
