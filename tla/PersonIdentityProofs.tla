------------------------ MODULE PersonIdentityProofs ------------------------
(***************************************************************************)
(* Proofs about PersonIdentity for any number of tasks, workers, distinct  *)
(* ids and persons.  The inductive invariant joins the types, the          *)
(* consistency of the tables and the agreement between locks and           *)
(* transactions: a COMMIT keeps the tables consistent only because of what *)
(* its transaction has locked since.  With it, PersonIdentity implements   *)
(* PersonStore.                                                            *)
(***************************************************************************)
EXTENDS PersonIdentity, FiniteSetTheorems, TLAPS

IInv == TypeOK /\ TablesConsistent /\ LocksMatchTransactions

TaskInv(t) == TwoPersons(t) /\ TargetHeld(t) /\ IdsHeld(t) /\ SourceHeld(t) /\ OnlyThese(t)

USE DEF AliasPc, CapturePc, EndPc, UpdatedPc, MovedPc, InsertedPc

\* The invariant, part by part.
LEMMA InvParts ==
    ASSUME IInv
    PROVE  TypeOK /\ TablesConsistent /\ \A t \in Tasks : TaskInv(t)
BY DEF IInv, LocksMatchTransactions, TaskInv

\* An invariant that holds for the task that moved and for the others holds.
LEMMA InvFromParts ==
    ASSUME NEW t \in Tasks, TypeOK', TablesConsistent', TaskInv(t)',
           \A u \in Tasks \ {t} : TaskInv(u)'
    PROVE  IInv'
BY DEF IInv, LocksMatchTransactions, TaskInv

\* The tables stay consistent when nothing is written to them.
LEMMA StoreUnchanged ==
    ASSUME TablesConsistent, UNCHANGED store
    PROVE  TablesConsistent'
BY DEF TablesConsistent, Store!References, Store!NoOrphans, store

\* What a task relies on survives a step of another task that neither touches
\* its locks nor writes a row it has locked.
LEMMA OtherTask ==
    ASSUME NEW u \in Tasks, TaskInv(u),
           pc'[u] = pc[u], old'[u] = old[u], new'[u] = new[u],
           \A p \in Persons : (personLock[p] = u) <=> (personLock'[p] = u),
           \A d \in DistinctIds : (idLock[d] = u) <=> (idLock'[d] = u),
           \A d \in DistinctIds : idLock[d] = u => personOf'[d] = personOf[d],
           \A p \in Persons : personLock[p] = u /\ p \in persons => p \in persons'
    PROVE  TaskInv(u)'
BY DEF TaskInv, TwoPersons, TargetHeld, IdsHeld, SourceHeld, OnlyThese

\* A task outside every transaction holds nothing, and nothing is asked of it.
LEMMA IdleTask ==
    ASSUME NEW t \in Tasks,
           pc'[t] \notin UpdatedPc \cup InsertedPc \cup {"updateTarget"},
           \A p \in Persons : personLock'[p] # t,
           \A d \in DistinctIds : idLock'[d] # t
    PROVE  TaskInv(t)'
BY DEF TaskInv, TwoPersons, TargetHeld, IdsHeld, SourceHeld, OnlyThese

\* Only the statements of a transaction find locks of their task.
LEMMA NoLocks ==
    ASSUME NEW t \in Tasks, TaskInv(t), pc[t] \notin UpdatedPc \cup InsertedPc
    PROVE  /\ \A p \in Persons : personLock[p] # t
           /\ \A d \in DistinctIds : idLock[d] # t
BY DEF TaskInv, OnlyThese

LEMMA FetchedType ==
    ASSUME TypeOK, NEW d \in DistinctIds
    PROVE  Fetched(d) \in Snapshots
<1>1. personOf[d] \in Persons \cup {NoPerson}  BY DEF TypeOK, Store!StoreType
<1>2. (personOf[d] \in identified) \in BOOLEAN  OBVIOUS
<1>3. QED  BY <1>1, <1>2 DEF Fetched, Nobody, Snapshots

LEMMA NobodyType == Nobody \in Snapshots
BY DEF Nobody, Snapshots

LEMMA JobFields ==
    ASSUME TypeOK, NEW t \in Tasks
    PROVE  job[t].id \in DistinctIds /\ job[t].prev \in DistinctIds /\ job[t].worker \in Workers
BY DEF TypeOK, JobType

-----------------------------------------------------------------------------
\* An error on the way (Throw) releases what the task had locked.
LEMMA ThrowInv ==
    ASSUME IInv, NEW t \in Tasks, Throw(t), UNCHANGED <<store, job, seen>>
    PROVE  IInv'
<1>1. TypeOK /\ TablesConsistent /\ \A u \in Tasks : TaskInv(u)  BY InvParts
<1>2. TypeOK'
  BY <1>1, NobodyType, ConstantsOK DEF TypeOK, Store!StoreType, Throw, Goto, Keep, Forget, Rollback, store
<1>3. TablesConsistent'  BY <1>1, StoreUnchanged
<1>4. TaskInv(t)'
  BY <1>1, IdleTask, ConstantsOK DEF TypeOK, Throw, Goto, Rollback
<1>5. \A u \in Tasks \ {t} : TaskInv(u)'
  BY <1>1, OtherTask, ConstantsOK DEF TypeOK, Throw, Goto, Keep, Forget, Rollback, store
<1>6. QED  BY <1>2, <1>3, <1>4, <1>5, InvFromParts

\* So does a caught error that runs alias once more.
LEMMA RetryIfFailedInv ==
    ASSUME IInv, NEW t \in Tasks, RetryIfFailed(t), UNCHANGED <<store, job, seen>>
    PROVE  IInv'
<1>1. TypeOK /\ TablesConsistent /\ \A u \in Tasks : TaskInv(u)  BY InvParts
<1>2. TypeOK'
  BY <1>1, NobodyType, ConstantsOK
  DEF TypeOK, Store!StoreType, RetryIfFailed, Goto, Keep, Forget, Rollback, AfterAlias, store
<1>3. TablesConsistent'  BY <1>1, StoreUnchanged
<1>4. TaskInv(t)'
  BY <1>1, IdleTask, ConstantsOK DEF TypeOK, RetryIfFailed, Goto, AfterAlias, Rollback
<1>5. \A u \in Tasks \ {t} : TaskInv(u)'
  BY <1>1, OtherTask, ConstantsOK DEF TypeOK, RetryIfFailed, Goto, Keep, Forget, AfterAlias, Rollback, store
<1>6. QED  BY <1>2, <1>3, <1>4, <1>5, InvFromParts

\* The steps that write no row and take no lock: the dispatch of the event,
LEMMA HandleIdentifyOrAliasInv == ASSUME IInv, NEW t \in Tasks, HandleIdentifyOrAlias(t) PROVE IInv'
<1> USE DEF HandleIdentifyOrAlias, Goto, store, locks, frame
<1>1. TypeOK /\ TablesConsistent /\ \A u \in Tasks : TaskInv(u)  BY InvParts
<1>2. job[t].id \in DistinctIds /\ job[t].prev \in DistinctIds  BY <1>1, JobFields
<1>3. /\ \A p \in Persons : personLock[p] # t
      /\ \A d \in DistinctIds : idLock[d] # t
  BY <1>1, NoLocks
<1>4. TypeOK'
  BY <1>1, <1>2, FetchedType, NobodyType, ConstantsOK DEF TypeOK, Store!StoreType
<1>5. TablesConsistent'  BY <1>1, StoreUnchanged
<1>6. TaskInv(t)'
  BY <1>1, <1>3, IdleTask DEF TypeOK
<1>7. \A u \in Tasks \ {t} : TaskInv(u)'
  BY <1>1, OtherTask DEF TypeOK
<1>8. QED  BY <1>4, <1>5, <1>6, <1>7, InvFromParts

\* the fetch of oldPerson,
LEMMA FetchOldInv == ASSUME IInv, NEW t \in Tasks, FetchOld(t) PROVE IInv'
<1> USE DEF FetchOld, Goto, store, locks
<1>1. TypeOK /\ TablesConsistent /\ \A u \in Tasks : TaskInv(u)  BY InvParts
<1>2. job[t].id \in DistinctIds /\ job[t].prev \in DistinctIds  BY <1>1, JobFields
<1>3. /\ \A p \in Persons : personLock[p] # t
      /\ \A d \in DistinctIds : idLock[d] # t
  BY <1>1, NoLocks
<1>4. TypeOK'
  BY <1>1, <1>2, FetchedType, NobodyType, ConstantsOK DEF TypeOK, Store!StoreType
<1>5. TablesConsistent'  BY <1>1, StoreUnchanged
<1>6. TaskInv(t)'
  BY <1>1, <1>3, IdleTask DEF TypeOK
<1>7. \A u \in Tasks \ {t} : TaskInv(u)'
  BY <1>1, OtherTask DEF TypeOK
<1>8. QED  BY <1>4, <1>5, <1>6, <1>7, InvFromParts

\* the return from alias,
LEMMA ReturnInv == ASSUME IInv, NEW t \in Tasks, Return(t) PROVE IInv'
<1> USE DEF Return, Goto, AfterAlias, store, locks
<1>1. TypeOK /\ TablesConsistent /\ \A u \in Tasks : TaskInv(u)  BY InvParts
<1>2. job[t].id \in DistinctIds /\ job[t].prev \in DistinctIds  BY <1>1, JobFields
<1>3. /\ \A p \in Persons : personLock[p] # t
      /\ \A d \in DistinctIds : idLock[d] # t
  BY <1>1, NoLocks
<1>4. TypeOK'
  <2>1. attempts' \in [Tasks -> 0 .. MaxMergeAttempts - 1]
    BY <1>1, ConstantsOK DEF TypeOK
  <2>2. QED  BY <1>1, <2>1 DEF TypeOK, Store!StoreType
<1>5. TablesConsistent'  BY <1>1, StoreUnchanged
<1>6. TaskInv(t)'
  BY <1>1, <1>3, IdleTask DEF TypeOK
<1>7. \A u \in Tasks \ {t} : TaskInv(u)'
  BY <1>1, OtherTask DEF TypeOK
<1>8. QED  BY <1>4, <1>5, <1>6, <1>7, InvFromParts

\* the look at personSeen,
LEMMA IsNewPersonInv == ASSUME IInv, NEW t \in Tasks, IsNewPerson(t) PROVE IInv'
<1> USE DEF IsNewPerson, Goto, store, locks, frame
<1>1. TypeOK /\ TablesConsistent /\ \A u \in Tasks : TaskInv(u)  BY InvParts
<1>2. job[t].id \in DistinctIds /\ job[t].prev \in DistinctIds  BY <1>1, JobFields
<1>3. /\ \A p \in Persons : personLock[p] # t
      /\ \A d \in DistinctIds : idLock[d] # t
  BY <1>1, NoLocks
<1>4. TypeOK'
  BY <1>1, <1>2, FetchedType, NobodyType, ConstantsOK DEF TypeOK, Store!StoreType
<1>5. TablesConsistent'  BY <1>1, StoreUnchanged
<1>6. TaskInv(t)'
  BY <1>1, <1>3, IdleTask DEF TypeOK
<1>7. \A u \in Tasks \ {t} : TaskInv(u)'
  BY <1>1, OtherTask DEF TypeOK
<1>8. QED  BY <1>4, <1>5, <1>6, <1>7, InvFromParts

\* and the COUNT query.
LEMMA CountIdsInv == ASSUME IInv, NEW t \in Tasks, CountIds(t) PROVE IInv'
<1> USE DEF CountIds, Goto, store, locks, frame
<1>1. TypeOK /\ TablesConsistent /\ \A u \in Tasks : TaskInv(u)  BY InvParts
<1>2. job[t].id \in DistinctIds /\ job[t].prev \in DistinctIds  BY <1>1, JobFields
<1>3. /\ \A p \in Persons : personLock[p] # t
      /\ \A d \in DistinctIds : idLock[d] # t
  BY <1>1, NoLocks
<1>4. TypeOK'
  BY <1>1, <1>2, FetchedType, NobodyType, ConstantsOK DEF TypeOK, Store!StoreType
<1>5. TablesConsistent'  BY <1>1, StoreUnchanged
<1>6. TaskInv(t)'
  BY <1>1, <1>3, IdleTask DEF TypeOK
<1>7. \A u \in Tasks \ {t} : TaskInv(u)'
  BY <1>1, OtherTask DEF TypeOK
<1>8. QED  BY <1>4, <1>5, <1>6, <1>7, InvFromParts

\* fetchPerson(distinctId) and the branches of alias: a merge is only begun
\* between two different persons.
LEMMA FetchNewInv == ASSUME IInv, NEW t \in Tasks, FetchNew(t) PROVE IInv'
<1> DEFINE n == Fetched(job[t].id)
<1>1. TypeOK /\ TablesConsistent /\ \A u \in Tasks : TaskInv(u)  BY InvParts
<1>2. n \in Snapshots /\ old[t] \in Snapshots  BY <1>1, JobFields, FetchedType DEF TypeOK
<1>3. /\ \A p \in Persons : personLock[p] # t
      /\ \A d \in DistinctIds : idLock[d] # t
  BY <1>1, NoLocks DEF FetchNew
<1>4. TypeOK'
  BY <1>1, <1>2, NobodyType DEF FetchNew, Goto, Keep, Forget, AfterAlias, TypeOK, Store!StoreType, store, locks
<1>5. TablesConsistent'  BY <1>1, StoreUnchanged DEF FetchNew
<1>6. TaskInv(t)'
  <2>1. CASE pc'[t] = "updateTarget"
    BY <1>1, <1>2, <1>3, <2>1
    DEF FetchNew, Goto, Keep, Forget, AfterAlias, TypeOK, Snapshots, locks, TaskInv, TwoPersons, TargetHeld,
        IdsHeld, SourceHeld, OnlyThese
  <2>2. CASE pc'[t] # "updateTarget"
    BY <1>1, <1>3, <2>2, IdleTask DEF FetchNew, Goto, AfterAlias, TypeOK, locks
  <2>3. QED  BY <2>1, <2>2
<1>7. \A u \in Tasks \ {t} : TaskInv(u)'
  BY <1>1, OtherTask DEF FetchNew, Goto, Keep, Forget, TypeOK, store, locks
<1>8. QED  BY <1>4, <1>5, <1>6, <1>7, InvFromParts

\* The INSERT of one distinct id, of an existing person.
LEMMA AddDistinctIdInv == ASSUME IInv, NEW t \in Tasks, AddDistinctId(t) PROVE IInv'
<1>1. TypeOK /\ TablesConsistent /\ \A u \in Tasks : TaskInv(u)  BY InvParts
<1>2. job[t].id \in DistinctIds /\ job[t].prev \in DistinctIds  BY <1>1, JobFields
<1>a. /\ \A p \in Persons : personLock[p] # t
      /\ \A d \in DistinctIds : idLock[d] # t
  BY <1>1, NoLocks DEF AddDistinctId, InsertSucceeds
<1>3. CASE RetryIfFailed(t) /\ UNCHANGED store
  BY <1>3, RetryIfFailedInv DEF AddDistinctId, InsertSucceeds, store
<1>4. CASE ~(RetryIfFailed(t) /\ UNCHANGED store)
  <2> USE DEF AddDistinctId, InsertSucceeds, Goto, Keep, Forget, AfterAlias, locks
  <2>1. TypeOK'
    BY <1>1, <1>2, <1>4, NobodyType, ConstantsOK DEF TypeOK, Store!StoreType
  <2>2. TablesConsistent'
    BY <1>1, <1>2, <1>4, ConstantsOK DEF TypeOK, Store!StoreType, TablesConsistent, Store!References, Store!NoOrphans
  <2>3. TaskInv(t)'
    BY <1>1, <1>4, <1>a, IdleTask DEF TypeOK
  <2>4. \A u \in Tasks \ {t} : TaskInv(u)'
    BY <1>1, <1>2, <1>4, OtherTask, ConstantsOK DEF TypeOK, Store!StoreType, IdBusy
  <2>5. QED  BY <2>1, <2>2, <2>3, <2>4, InvFromParts
<1>5. QED  BY <1>3, <1>4

\* setIsIdentified's fetch, which throws when nobody is found.
LEMMA FetchIdentityInv == ASSUME IInv, NEW t \in Tasks, FetchIdentity(t) PROVE IInv'
<1>1. TypeOK /\ TablesConsistent /\ \A u \in Tasks : TaskInv(u)  BY InvParts
<1>2. job[t].id \in DistinctIds /\ job[t].prev \in DistinctIds  BY <1>1, JobFields
<1>a. /\ \A p \in Persons : personLock[p] # t
      /\ \A d \in DistinctIds : idLock[d] # t
  BY <1>1, NoLocks DEF FetchIdentity
<1>3. CASE Throw(t)
  BY <1>3, ThrowInv DEF FetchIdentity, store
<1>4. CASE ~(Throw(t))
  <2> USE DEF FetchIdentity, Goto, Keep, Forget, store, locks
  <2>1. TypeOK'
    BY <1>1, <1>2, <1>4, FetchedType, NobodyType, ConstantsOK DEF TypeOK, Store!StoreType
  <2>2. TablesConsistent'
    BY <1>1, <1>4, StoreUnchanged
  <2>3. TaskInv(t)'
    BY <1>1, <1>4, <1>a, IdleTask DEF TypeOK
  <2>4. \A u \in Tasks \ {t} : TaskInv(u)'
    BY <1>1, <1>4, OtherTask DEF TypeOK
  <2>5. QED  BY <2>1, <2>2, <2>3, <2>4, InvFromParts
<1>5. QED  BY <1>3, <1>4

\* setIsIdentified's UPDATE, which throws when the person is gone.
LEMMA SetIdentifiedInv == ASSUME IInv, NEW t \in Tasks, SetIdentified(t) PROVE IInv'
<1>1. TypeOK /\ TablesConsistent /\ \A u \in Tasks : TaskInv(u)  BY InvParts
<1>2. job[t].id \in DistinctIds /\ job[t].prev \in DistinctIds  BY <1>1, JobFields
<1>a. /\ \A p \in Persons : personLock[p] # t
      /\ \A d \in DistinctIds : idLock[d] # t
  BY <1>1, NoLocks DEF SetIdentified
<1>3. CASE Throw(t) /\ UNCHANGED identified
  BY <1>3, ThrowInv DEF SetIdentified, store
<1>4. CASE ~(Throw(t) /\ UNCHANGED identified)
  <2> USE DEF SetIdentified, Goto, Keep, Forget, locks
  <2>1. TypeOK'
    BY <1>1, <1>2, <1>4, NobodyType, ConstantsOK DEF TypeOK, Store!StoreType
  <2>2. TablesConsistent'
    BY <1>1, <1>4 DEF TablesConsistent, Store!References, Store!NoOrphans
  <2>3. TaskInv(t)'
    BY <1>1, <1>4, <1>a, IdleTask DEF TypeOK
  <2>4. \A u \in Tasks \ {t} : TaskInv(u)'
    BY <1>1, <1>4, OtherTask DEF TypeOK
  <2>5. QED  BY <2>1, <2>2, <2>3, <2>4, InvFromParts
<1>5. QED  BY <1>3, <1>4

\* createPerson claims the first distinct id
LEMMA InsertIdInv == ASSUME IInv, NEW t \in Tasks, InsertId(t) PROVE IInv'
<1>1. TypeOK /\ TablesConsistent /\ \A u \in Tasks : TaskInv(u)  BY InvParts
<1>2. job[t].id \in DistinctIds /\ job[t].prev \in DistinctIds  BY <1>1, JobFields
<1>3. CASE RetryIfFailed(t)
  BY <1>3, RetryIfFailedInv DEF InsertId, store, Insert
<1>4. CASE ~(RetryIfFailed(t))
  <2> USE DEF InsertId, Insert, Goto, store
  <2>1. TypeOK'
    BY <1>1, <1>2, <1>4, ConstantsOK DEF TypeOK, Store!StoreType
  <2>2. TablesConsistent'
    BY <1>1, <1>4, StoreUnchanged
  <2>3. TaskInv(t)'
    BY <1>1, <1>2, <1>4 DEF TypeOK, TaskInv, TwoPersons, TargetHeld, IdsHeld, SourceHeld, OnlyThese
  <2>4. \A u \in Tasks \ {t} : TaskInv(u)'
    BY <1>1, <1>2, <1>4, OtherTask, ConstantsOK DEF TypeOK, IdBusy
  <2>5. QED  BY <2>1, <2>2, <2>3, <2>4, InvFromParts
<1>5. QED  BY <1>3, <1>4

\* and the second.
LEMMA InsertPrevInv == ASSUME IInv, NEW t \in Tasks, InsertPrev(t) PROVE IInv'
<1>1. TypeOK /\ TablesConsistent /\ \A u \in Tasks : TaskInv(u)  BY InvParts
<1>2. job[t].id \in DistinctIds /\ job[t].prev \in DistinctIds  BY <1>1, JobFields
<1>3. CASE RetryIfFailed(t)
  BY <1>3, RetryIfFailedInv DEF InsertPrev, store, Insert
<1>4. CASE ~(RetryIfFailed(t))
  <2> USE DEF InsertPrev, Insert, Goto, store
  <2>1. TypeOK'
    BY <1>1, <1>2, <1>4, ConstantsOK DEF TypeOK, Store!StoreType
  <2>2. TablesConsistent'
    BY <1>1, <1>4, StoreUnchanged
  <2>3. TaskInv(t)'
    BY <1>1, <1>2, <1>4 DEF TypeOK, TaskInv, TwoPersons, TargetHeld, IdsHeld, SourceHeld, OnlyThese
  <2>4. \A u \in Tasks \ {t} : TaskInv(u)'
    BY <1>1, <1>2, <1>4, OtherTask, ConstantsOK DEF TypeOK, IdBusy
  <2>5. QED  BY <2>1, <2>2, <2>3, <2>4, InvFromParts
<1>5. QED  BY <1>3, <1>4

\* createPersonIfDistinctIdIsNew claims its distinct id, or finds it taken.
LEMMA InsertNewInv == ASSUME IInv, NEW t \in Tasks, InsertNew(t) PROVE IInv'
<1> USE DEF InsertNew, Insert, Goto, store, locks, frame
<1>1. TypeOK /\ TablesConsistent /\ \A u \in Tasks : TaskInv(u)  BY InvParts
<1>2. job[t].id \in DistinctIds  BY <1>1, JobFields
<1>3. TypeOK'  BY <1>1, <1>2 DEF TypeOK, Store!StoreType
<1>4. TablesConsistent'  BY <1>1, StoreUnchanged
<1>5. TaskInv(t)'
  BY <1>1, <1>2 DEF TypeOK, TaskInv, TwoPersons, TargetHeld, IdsHeld, SourceHeld, OnlyThese
<1>6. \A u \in Tasks \ {t} : TaskInv(u)'
  BY <1>1, <1>2, OtherTask, ConstantsOK DEF TypeOK, IdBusy
<1>7. QED  BY <1>3, <1>4, <1>5, <1>6, InvFromParts

LEMMA NextIdFresh ==
    ASSUME NEW p \in Persons, Fresh(p)
    PROVE  NextId \in Persons /\ Fresh(NextId)
BY DEF NextId

\* createPerson's COMMIT: the new person has the ids that were claimed for it.
LEMMA CommitPersonInv == ASSUME IInv, NEW t \in Tasks, CommitPerson(t) PROVE IInv'
<1>1. TypeOK /\ TablesConsistent /\ \A u \in Tasks : TaskInv(u)  BY InvParts
<1>2. NextId \in Persons /\ NextId \notin persons  BY NextIdFresh DEF CommitPerson, Fresh
<1>3. /\ \E d \in DistinctIds : idLock[d] = t
      /\ \A d \in DistinctIds : idLock[d] = t => personOf[d] = NoPerson
  BY <1>1 DEF CommitPerson, TaskInv, IdsHeld
<1>4. TypeOK'
  BY <1>1, <1>2, ConstantsOK DEF CommitPerson, Commit, Rollback, Goto, AfterAlias, TypeOK, Store!StoreType, frame
<1>5. TablesConsistent'
  <2>1. Store!References'
    BY <1>1, <1>2 DEF CommitPerson, TypeOK, Store!StoreType, TablesConsistent, Store!References
  <2>2. Store!NoOrphans'
    <3> SUFFICES ASSUME NEW p \in persons' PROVE \E d \in DistinctIds : personOf'[d] = p
      BY DEF Store!NoOrphans
    <3>1. CASE p = NextId
      BY <1>3, <3>1 DEF CommitPerson
    <3>2. CASE p # NextId
      <4>1. p \in persons  BY <3>2 DEF CommitPerson
      <4>2. p # NoPerson  BY <1>1, <4>1, ConstantsOK DEF TypeOK, Store!StoreType
      <4>3. PICK d \in DistinctIds : personOf[d] = p
        BY <1>1, <4>1 DEF TablesConsistent, Store!NoOrphans
      <4>4. personOf'[d] = p  BY <1>3, <4>2, <4>3 DEF CommitPerson
      <4>5. QED  BY <4>4
    <3>3. QED  BY <3>1, <3>2
  <2>3. QED  BY <2>1, <2>2 DEF TablesConsistent
<1>6. TaskInv(t)'
  BY <1>1, IdleTask, ConstantsOK DEF CommitPerson, Commit, Rollback, Goto, AfterAlias, TypeOK
<1>7. \A u \in Tasks \ {t} : TaskInv(u)'
  BY <1>1, OtherTask, ConstantsOK DEF CommitPerson, Commit, Rollback, Goto, TypeOK, Store!StoreType, frame
<1>8. QED  BY <1>4, <1>5, <1>6, <1>7, InvFromParts

\* updatePerson(mergeInto) locks a target that exists.
LEMMA UpdateTargetInv == ASSUME IInv, NEW t \in Tasks, UpdateTarget(t) PROVE IInv'
<1>1. TypeOK /\ TablesConsistent /\ \A u \in Tasks : TaskInv(u)  BY InvParts
<1>2. CASE Throw(t)  BY <1>2, ThrowInv DEF UpdateTarget, store
<1>3. CASE ~Throw(t)
  <2> USE <1>3 DEF UpdateTarget, Goto, store, frame
  <2>1. TypeOK'  BY <1>1 DEF TypeOK, Store!StoreType
  <2>2. TablesConsistent'  BY <1>1, StoreUnchanged
  <2>3. TaskInv(t)'
    BY <1>1 DEF TypeOK, Store!StoreType, TaskInv, TwoPersons, TargetHeld, IdsHeld, SourceHeld, OnlyThese
  <2>4. \A u \in Tasks \ {t} : TaskInv(u)'
    BY <1>1, OtherTask, ConstantsOK DEF TypeOK, Store!StoreType, PersonBusy
  <2>5. QED  BY <2>1, <2>2, <2>3, <2>4, InvFromParts
<1>4. QED  BY <1>2, <1>3

\* moveDistinctIds locks the source's distinct ids, all of them at once.
LEMMA MoveIdsInv == ASSUME IInv, NEW t \in Tasks, MoveIds(t) PROVE IInv'
<1>1. TypeOK /\ TablesConsistent /\ \A u \in Tasks : TaskInv(u)  BY InvParts
<1>2. CASE Throw(t)  BY <1>2, ThrowInv DEF MoveIds, store
<1>3. CASE ~Throw(t)
  <2> USE <1>3 DEF MoveIds, Goto, store, frame
  <2>1. TypeOK'  BY <1>1 DEF TypeOK, Store!StoreType
  <2>2. TablesConsistent'  BY <1>1, StoreUnchanged
  <2>3. TaskInv(t)'
    BY <1>1 DEF TypeOK, RowsOf, TaskInv, TwoPersons, TargetHeld, IdsHeld, SourceHeld, OnlyThese
  <2>4. \A u \in Tasks \ {t} : TaskInv(u)'
    BY <1>1, OtherTask, ConstantsOK DEF TypeOK, IdBusy
  <2>5. QED  BY <2>1, <2>2, <2>3, <2>4, InvFromParts
<1>4. QED  BY <1>2, <1>3

\* deletePerson locks the source.
LEMMA DeleteSourceInv == ASSUME IInv, NEW t \in Tasks, DeleteSource(t) PROVE IInv'
<1> USE DEF DeleteSource, Goto, store, frame
<1>1. TypeOK /\ TablesConsistent /\ \A u \in Tasks : TaskInv(u)  BY InvParts
<1>2. TypeOK'  BY <1>1 DEF TypeOK, Store!StoreType
<1>3. TablesConsistent'  BY <1>1, StoreUnchanged
<1>4. TaskInv(t)'
  BY <1>1 DEF TypeOK, TaskInv, TwoPersons, TargetHeld, IdsHeld, SourceHeld, OnlyThese
<1>5. \A u \in Tasks \ {t} : TaskInv(u)'
  BY <1>1, OtherTask, ConstantsOK DEF TypeOK, PersonBusy
<1>6. QED  BY <1>2, <1>3, <1>4, <1>5, InvFromParts

\* What a merge knows when its foreign keys hold at COMMIT.
LEMMA MergeFacts ==
    ASSUME IInv, NEW t \in Tasks, pc[t] = "commitMerge", ForeignKeysHold(t)
    PROVE  /\ old[t].id \in persons /\ new[t].id \in persons /\ old[t].id # new[t].id
           /\ \A d \in DistinctIds : idLock[d] = t <=> personOf[d] = old[t].id
           /\ personLock[old[t].id] = t /\ personLock[new[t].id] = t
<1>1. TypeOK /\ TablesConsistent /\ TaskInv(t)  BY InvParts
<1>2. /\ old[t].id \in Persons /\ old[t].id # new[t].id
      /\ personLock[old[t].id] = t /\ personLock[new[t].id] = t
  BY <1>1 DEF TaskInv, TwoPersons, TargetHeld, SourceHeld
<1>3. \A d \in DistinctIds : idLock[d] = t <=> personOf[d] = old[t].id
  BY <1>1 DEF TaskInv, IdsHeld, ForeignKeysHold, RowsOf
<1>4. PICK d \in DistinctIds : idLock[d] = t  BY <1>1 DEF TaskInv, IdsHeld
<1>5. old[t].id \in persons
  BY <1>1, <1>2, <1>3, <1>4, ConstantsOK DEF TablesConsistent, Store!References
<1>6. QED  BY <1>2, <1>3, <1>5 DEF ForeignKeysHold

\* mergePeople's COMMIT.  No other transaction can be relying on the source:
\* it would need the source's row, which t has locked, or one of its ids.
LEMMA CommitMergeInv == ASSUME IInv, NEW t \in Tasks, CommitMerge(t) PROVE IInv'
<1>1. TypeOK /\ TablesConsistent /\ \A u \in Tasks : TaskInv(u)  BY InvParts
<1>2. CASE ~ForeignKeysHold(t)  BY <1>2, ThrowInv DEF CommitMerge, store
<1>3. CASE ForeignKeysHold(t)
  <2>1. /\ old[t].id \in persons /\ new[t].id \in persons /\ old[t].id # new[t].id
        /\ \A d \in DistinctIds : idLock[d] = t <=> personOf[d] = old[t].id
        /\ personLock[old[t].id] = t /\ personLock[new[t].id] = t
    BY <1>3, MergeFacts DEF CommitMerge
  <2>2. persons \subseteq Persons  BY <1>1 DEF TypeOK, Store!StoreType
  <2>3. TypeOK'
    BY <1>1, <1>3, <2>1, <2>2, NobodyType, ConstantsOK
    DEF CommitMerge, Commit, Rollback, Goto, Keep, Forget, AfterAlias, TypeOK, Store!StoreType
  <2>4. TablesConsistent'
    BY <1>1, <1>3, <2>1, <2>2, ConstantsOK
    DEF CommitMerge, TypeOK, Store!StoreType, TablesConsistent, Store!References, Store!NoOrphans
  <2>5. TaskInv(t)'
    BY <1>1, <1>3, IdleTask, ConstantsOK DEF CommitMerge, Commit, Rollback, Goto, AfterAlias, TypeOK
  <2>6. \A u \in Tasks \ {t} : TaskInv(u)'
    BY <1>1, <1>3, <2>1, <2>2, OtherTask, ConstantsOK
    DEF CommitMerge, Commit, Rollback, Goto, Keep, Forget, TypeOK, Store!StoreType
  <2>7. QED  BY <2>3, <2>4, <2>5, <2>6, InvFromParts
<1>4. QED  BY <1>2, <1>3

\* A deadlock victim loses its locks and starts over, or gives up.
LEMMA DeadlockVictimInv == ASSUME IInv, NEW t \in Tasks, DeadlockVictim(t) PROVE IInv'
<1>1. TypeOK /\ TablesConsistent /\ \A u \in Tasks : TaskInv(u)  BY InvParts
<1>2. CASE RetryIfFailed(t)  BY <1>2, RetryIfFailedInv DEF DeadlockVictim, store
<1>3. CASE Throw(t)  BY <1>3, ThrowInv DEF DeadlockVictim, store
<1>4. CASE ~RetryIfFailed(t) /\ ~Throw(t)
  <2> USE <1>4 DEF DeadlockVictim, GivesUp, Goto, Keep, Forget, Rollback, store
  <2>1. attempts' \in [Tasks -> 0 .. MaxMergeAttempts - 1]  BY <1>1, ConstantsOK DEF TypeOK
  <2>2. TypeOK'  BY <1>1, <2>1, NobodyType DEF TypeOK, Store!StoreType
  <2>3. TablesConsistent'  BY <1>1, StoreUnchanged
  <2>4. TaskInv(t)'  BY <1>1, IdleTask, ConstantsOK DEF TypeOK
  <2>5. \A u \in Tasks \ {t} : TaskInv(u)'  BY <1>1, OtherTask, ConstantsOK DEF TypeOK
  <2>6. QED  BY <2>2, <2>3, <2>4, <2>5, InvFromParts
<1>5. QED  BY <1>2, <1>3, <1>4

\* A crash ends the transactions of a worker's tasks and of no other.
LEMMA CrashInv == ASSUME IInv, NEW w \in Workers, Crash(w) PROVE IInv'
<1> DEFINE hit == {t \in Tasks : job[t].worker = w /\ ~Ended(t)}
<1>1. TypeOK /\ TablesConsistent /\ \A u \in Tasks : TaskInv(u)  BY InvParts
<1>2. TypeOK'
  <2> USE DEF Crash, TypeOK
  <2>1. Store!StoreType'  BY <1>1 DEF Store!StoreType, store
  <2>2. 0 \in 0 .. MaxMergeAttempts - 1  BY ConstantsOK
  <2>3. attempts' \in [Tasks -> 0 .. MaxMergeAttempts - 1]  BY <1>1, <2>2
  <2>4. pc' \in [Tasks -> {"start"} \cup AliasPc \cup CapturePc \cup EndPc]  BY <1>1
  <2>5. old' \in [Tasks -> Snapshots] /\ new' \in [Tasks -> Snapshots]  BY <1>1, NobodyType
  <2>6. retried' \in [Tasks -> BOOLEAN]  BY <1>1
  <2>7. personLock' \in [Persons -> Tasks \cup {NoTask}] /\ idLock' \in [DistinctIds -> Tasks \cup {NoTask}]
    BY <1>1
  <2>8. seen' \in [Workers -> SUBSET DistinctIds]  BY <1>1
  <2>9. QED  BY <1>1, <2>1, <2>3, <2>4, <2>5, <2>6, <2>7, <2>8
<1>3. TablesConsistent'  BY <1>1, StoreUnchanged DEF Crash
<1>4. ASSUME NEW u \in Tasks PROVE TaskInv(u)'
  <2>1. CASE u \in hit  BY <1>1, <2>1, IdleTask, ConstantsOK DEF Crash, TypeOK
  <2>2. CASE u \notin hit  BY <1>1, <2>2, OtherTask, ConstantsOK DEF Crash, TypeOK, store
  <2>3. QED  BY <2>1, <2>2
<1>5. QED  BY <1>2, <1>3, <1>4 DEF IInv, LocksMatchTransactions, TaskInv

-----------------------------------------------------------------------------
\* Every initial state satisfies the invariant.
LEMMA InitInv == Init => IInv
<1> SUFFICES ASSUME Init PROVE IInv
  OBVIOUS
<1> USE DEF Init
<1>1. personOf \in [DistinctIds -> Persons \cup {NoPerson}]  BY ConstantsOK
<1>2. Store!StoreType  BY <1>1 DEF Store!StoreType
<1>3. TypeOK
  <2>1. job \in [Tasks -> JobType]  BY ConstantsOK
  <2>2. 0 \in 0 .. MaxMergeAttempts - 1  BY ConstantsOK
  <2>3. QED  BY <1>2, <2>1, <2>2, NobodyType DEF TypeOK
<1>4. TablesConsistent
  BY <1>1, ConstantsOK DEF TablesConsistent, Store!References, Store!NoOrphans
<1>5. LocksMatchTransactions
  BY ConstantsOK
  DEF LocksMatchTransactions, TwoPersons, TargetHeld, IdsHeld, SourceHeld, OnlyThese
<1>6. QED  BY <1>3, <1>4, <1>5 DEF IInv

\* Every step keeps it.
LEMMA NextInv == IInv /\ [Next]_vars => IInv'
<1> SUFFICES ASSUME IInv, [Next]_vars PROVE IInv'
  OBVIOUS
<1>1. CASE UNCHANGED vars
  BY <1>1 DEF vars, IInv, TypeOK, Store!StoreType, TablesConsistent, Store!References,
      Store!NoOrphans, LocksMatchTransactions, TwoPersons, TargetHeld, IdsHeld, SourceHeld, OnlyThese
<1>2. ASSUME NEW t \in Tasks, TaskStep(t) PROVE IInv'
  BY <1>2, HandleIdentifyOrAliasInv, FetchOldInv, FetchNewInv, AddDistinctIdInv, FetchIdentityInv,
      SetIdentifiedInv, ReturnInv, InsertIdInv, InsertPrevInv, InsertNewInv, CommitPersonInv,
      UpdateTargetInv, MoveIdsInv, DeleteSourceInv, CommitMergeInv, DeadlockVictimInv,
      IsNewPersonInv, CountIdsInv
  DEF TaskStep
<1>3. ASSUME NEW w \in Workers, Crash(w) PROVE IInv'  BY <1>3, CrashInv
<1>4. QED  BY <1>1, <1>2, <1>3 DEF Next, Finished

THEOREM InductiveInvariant == Spec => []IInv
BY InitInv, NextInv, PTL DEF Spec

\* Every variable keeps its type.
THEOREM TypeCorrect == Spec => []TypeOK
BY InductiveInvariant, PTL DEF IInv

\* Whatever aliases, merges, retries, deadlocks and crashes overlap, a distinct
\* id refers to an existing person and every person has a distinct id.
THEOREM AlwaysConsistent == Spec => []TablesConsistent
BY InductiveInvariant, PTL DEF IInv

\* Only open transactions hold locks, and hold those their next statements rely on.
THEOREM LocksAlwaysMatch == Spec => []LocksMatchTransactions
BY InductiveInvariant, PTL DEF IInv

-----------------------------------------------------------------------------
(* PersonIdentity implements PersonStore: each COMMIT (and each single statement *)
(* outside a transaction) is one operation of the store, every other step leaves *)
(* the tables alone.  What the store promises then holds of the plugin server's  *)
(* tasks, however they interleave.                                               *)

StoreStep == [Store!Next]_(Store!storeVars)

\* A step that writes no row is a stuttering step of the store.
LEMMA StutterStep == ASSUME UNCHANGED store PROVE StoreStep
BY DEF StoreStep, store, Store!storeVars

\* addDistinctId attaches an unassigned distinct id to an existing person.
LEMMA AddDistinctIdStep == ASSUME IInv, NEW t \in Tasks, AddDistinctId(t) PROVE StoreStep
<1>1. TypeOK  BY InvParts
<1>2. job[t].id \in DistinctIds /\ job[t].prev \in DistinctIds  BY <1>1, JobFields
<1> DEFINE p == IF new[t].id = NoPerson THEN old[t].id ELSE new[t].id
           d == IF new[t].id = NoPerson THEN job[t].id ELSE job[t].prev
<1>3. CASE UNCHANGED store  BY <1>3, StutterStep
<1>4. CASE ~UNCHANGED store
  <2>1. /\ personOf[d] = NoPerson /\ p \in persons
        /\ personOf' = [personOf EXCEPT ![d] = p]
        /\ UNCHANGED <<persons, identified>>
    BY <1>4 DEF AddDistinctId, InsertSucceeds
  <2>2. p \in Persons /\ d \in DistinctIds  BY <1>1, <1>2, <2>1 DEF TypeOK, Store!StoreType
  <2> HIDE DEF p, d
  <2>3. Store!Attach(p, d)  BY <2>1, <2>2 DEF Store!Attach
  <2>4. QED  BY <2>2, <2>3 DEF StoreStep, Store!Next
<1>5. QED  BY <1>3, <1>4

\* setIsIdentified marks an existing person.
LEMMA SetIdentifiedStep == ASSUME IInv, NEW t \in Tasks, SetIdentified(t) PROVE StoreStep
<1>1. TypeOK  BY InvParts
<1>2. CASE new[t].id \in persons
  <2>1. \/ Store!Identify(new[t].id)
        \/ UNCHANGED store
    BY <1>2 DEF SetIdentified, Store!Identify, store
  <2>2. new[t].id \in Persons  BY <1>1, <1>2 DEF TypeOK, Store!StoreType
  <2>3. QED  BY <2>1, <2>2, StutterStep DEF StoreStep, Store!Next
<1>3. CASE new[t].id \notin persons  BY <1>3, StutterStep DEF SetIdentified, store
<1>4. QED  BY <1>2, <1>3

\* createPerson's COMMIT creates the person with the ids its INSERTs claimed.
LEMMA CommitPersonStep == ASSUME IInv, NEW t \in Tasks, CommitPerson(t) PROVE StoreStep
<1>1. TypeOK /\ TaskInv(t)  BY InvParts
<1> DEFINE ids == {d \in DistinctIds : idLock[d] = t}
<1>2. NextId \in Persons \ persons  BY NextIdFresh DEF CommitPerson, Fresh
<1>3. pc[t] \in InsertedPc  BY DEF CommitPerson, InsertedPc
<1>4. ids # {} /\ \A d \in ids : personOf[d] = NoPerson
  BY <1>1, <1>3 DEF TaskInv, IdsHeld
<1>5. Store!Create(NextId, ids)  BY <1>2, <1>4 DEF CommitPerson, Store!Create
<1>6. ids \in SUBSET DistinctIds  OBVIOUS
<1>7. QED  BY <1>2, <1>5, <1>6 DEF StoreStep, Store!Next

\* mergePeople's COMMIT merges: the distinct ids it moved are all the source has.
LEMMA CommitMergeStep == ASSUME IInv, NEW t \in Tasks, CommitMerge(t) PROVE StoreStep
<1>1. TypeOK  BY InvParts
<1>2. CASE ~ForeignKeysHold(t)  BY <1>2, StutterStep DEF CommitMerge
<1>3. CASE ForeignKeysHold(t)
  <2>1. /\ old[t].id \in persons /\ new[t].id \in persons /\ old[t].id # new[t].id
        /\ \A d \in DistinctIds : idLock[d] = t <=> personOf[d] = old[t].id
    BY <1>3, MergeFacts DEF CommitMerge
  <2>2. old[t].id \in Persons /\ new[t].id \in Persons  BY <1>1, <2>1 DEF TypeOK, Store!StoreType
  <2>3. personOf' = [d \in DistinctIds |-> IF personOf[d] = old[t].id THEN new[t].id ELSE personOf[d]]
    BY <1>3, <2>1 DEF CommitMerge
  <2>4. Store!Merge(old[t].id, new[t].id)
    BY <1>3, <2>1, <2>3 DEF CommitMerge, Store!Merge
  <2>5. QED  BY <2>2, <2>4 DEF StoreStep, Store!Next
<1>4. QED  BY <1>2, <1>3

\* Every other statement of a task leaves the tables alone.
LEMMA OtherStep ==
    ASSUME NEW t \in Tasks, TaskStep(t),
           ~AddDistinctId(t), ~SetIdentified(t), ~CommitPerson(t), ~CommitMerge(t)
    PROVE  UNCHANGED store
<1>1. CASE \/ HandleIdentifyOrAlias(t) \/ FetchOld(t) \/ FetchNew(t) \/ FetchIdentity(t)
           \/ Return(t) \/ IsNewPerson(t) \/ CountIds(t)
  BY <1>1 DEF HandleIdentifyOrAlias, FetchOld, FetchNew, FetchIdentity, Return, IsNewPerson, CountIds
<1>2. CASE InsertId(t) \/ InsertPrev(t) \/ InsertNew(t)
  BY <1>2 DEF InsertId, InsertPrev, InsertNew
<1>3. CASE UpdateTarget(t) \/ MoveIds(t) \/ DeleteSource(t) \/ DeadlockVictim(t)
  BY <1>3 DEF UpdateTarget, MoveIds, DeleteSource, DeadlockVictim
<1>4. QED  BY <1>1, <1>2, <1>3 DEF TaskStep

\* Every step of the tasks is a step of the store or a stuttering step of it.
LEMMA StepRefines == IInv /\ [Next]_vars => StoreStep
<1> SUFFICES ASSUME IInv, [Next]_vars PROVE StoreStep
  OBVIOUS
<1>1. CASE UNCHANGED vars  BY <1>1, StutterStep DEF vars, store
<1>2. ASSUME NEW t \in Tasks, TaskStep(t) PROVE StoreStep
  BY <1>2, AddDistinctIdStep, SetIdentifiedStep, CommitPersonStep, CommitMergeStep,
      OtherStep, StutterStep
<1>3. ASSUME NEW w \in Workers, Crash(w) PROVE StoreStep  BY <1>3, StutterStep DEF Crash
<1>4. QED  BY <1>1, <1>2, <1>3 DEF Next, Finished

LEMMA InitRefines == Init => Store!Consistent
<1>1. Init => IInv  BY InitInv
<1>2. QED  BY <1>1 DEF IInv, TypeOK, TablesConsistent, Store!Consistent

\* The statements of all the tasks together behave as the atomic operations of
\* the person store.
THEOREM Refinement == Spec => ImplementsStore
<1>1. Spec => [][StoreStep]_(Store!storeVars)
  BY InductiveInvariant, StepRefines, PTL DEF Spec, StoreStep
<1>2. QED  BY <1>1, InitRefines, PTL DEF Spec, ImplementsStore, Store!Spec, StoreStep

-----------------------------------------------------------------------------
\* No operation of the store separates two distinct ids.
LEMMA StoreNeverSplits ==
    ASSUME IInv, Store!Next, NEW d \in DistinctIds, NEW e \in DistinctIds, Store!Together(d, e)
    PROVE  Store!Together(d, e)'
<1>1. personOf \in [DistinctIds -> Persons \cup {NoPerson}]  BY InvParts DEF TypeOK, Store!StoreType
<1>2. ASSUME NEW p \in Persons, NEW ids \in SUBSET DistinctIds, Store!Create(p, ids)
      PROVE  Store!Together(d, e)'
  BY <1>1, <1>2 DEF Store!Create, Store!Together
<1>3. ASSUME NEW p \in Persons, NEW f \in DistinctIds, Store!Attach(p, f)
      PROVE  Store!Together(d, e)'
  BY <1>1, <1>3 DEF Store!Attach, Store!Together
<1>4. ASSUME NEW p \in Persons, NEW q \in Persons, Store!Merge(p, q)
      PROVE  Store!Together(d, e)'
  BY <1>1, <1>4, ConstantsOK DEF Store!Merge, Store!Together
<1>5. ASSUME NEW p \in Persons, Store!Identify(p) PROVE Store!Together(d, e)'
  BY <1>5 DEF Store!Identify, Store!Together
<1>6. QED  BY <1>2, <1>3, <1>4, <1>5 DEF Store!Next

\* Two distinct ids that belong to one person are never torn apart by the plugin
\* server, and an assigned distinct id never becomes unassigned.
THEOREM NeverSplitHolds == Spec => NeverSplit
<1>1. IInv /\ [Next]_vars =>
        [\A d, e \in DistinctIds : Store!Together(d, e) => Store!Together(d, e)']_(Store!storeVars)
  BY StepRefines, StoreNeverSplits DEF StoreStep
<1>2. QED  BY <1>1, InductiveInvariant, PTL DEF Spec, NeverSplit, Store!NeverSplit
-----------------------------------------------------------------------------
(* How many clients a worker's pool needs *)

\* Dead transactions belong to tasks that are in alias.
RetriesInAlias == \A t \in Tasks : attempts[t] # 0 => pc[t] \in AliasPc

\* The tasks a worker is at.
Running(w) == {t \in Tasks : job[t].worker = w /\ pc[t] \in AliasPc \cup CapturePc}

\* A merge that fails again and again keeps all but the last of its clients.  While the
\* tasks of a worker cannot hold all clients that way, one of them gets the client it needs
\* or has one: they never all wait for one another.
PoolNotExhausted ==
    \A w \in Workers :
        Running(w) # {} /\ Cardinality(Running(w)) * (MaxMergeAttempts - 1) < PoolSize
        => \E t \in Running(w) : HasClient(t)

\* With as many clients as all attempts of all its tasks take, nobody waits at all.
NobodyWaits ==
    \A w \in Workers :
        Cardinality(Running(w)) * MaxMergeAttempts <= PoolSize
        => \A t \in Running(w) : HasClient(t)

\* The statements that fetch, write and commit leave the count of dead transactions alone.
LEMMA SameAttempts ==
    ASSUME TypeOK, RetriesInAlias, NEW t \in Tasks, attempts' = attempts,
           NEW label, Goto(t, label), pc[t] \in AliasPc => label \in AliasPc
    PROVE  RetriesInAlias'
  BY DEF RetriesInAlias, Goto, TypeOK

\* RetryIfFailed stays in alias, Throw forgets the dead transactions.
LEMMA FailureAttempts ==
    ASSUME TypeOK, RetriesInAlias, NEW t \in Tasks, RetryIfFailed(t) \/ Throw(t)
    PROVE  RetriesInAlias'
<1>1. CASE RetryIfFailed(t)
  BY <1>1 DEF RetryIfFailed, RetriesInAlias, AfterAlias, Goto, TypeOK
<1>2. CASE Throw(t)
  BY <1>2 DEF Throw, RetriesInAlias, Goto, TypeOK
<1> QED BY <1>1, <1>2

LEMMA RetriesStep == TypeOK /\ RetriesInAlias /\ [Next]_vars => RetriesInAlias'
<1> SUFFICES ASSUME TypeOK, RetriesInAlias, [Next]_vars PROVE RetriesInAlias'
  OBVIOUS
<1> USE DEF frame, AfterAlias
<1>1. CASE UNCHANGED vars
  BY <1>1 DEF vars, RetriesInAlias
<1>2. ASSUME NEW t \in Tasks, TaskStep(t) PROVE RetriesInAlias'
  <2>1. CASE HandleIdentifyOrAlias(t) \/ FetchOld(t) \/ FetchNew(t) \/ IsNewPerson(t) \/ CountIds(t)
    <3>1. attempts' = attempts /\ \E label : Goto(t, label) /\ (pc[t] \in AliasPc => label \in AliasPc)
      BY <2>1 DEF HandleIdentifyOrAlias, FetchOld, FetchNew, IsNewPerson, CountIds
    <3> QED BY <3>1, SameAttempts
  <2>2. CASE AddDistinctId(t) \/ FetchIdentity(t) \/ SetIdentified(t)
    <3>1. \/ RetryIfFailed(t) \/ Throw(t)
          \/ attempts' = attempts /\ \E label : Goto(t, label) /\ label \in AliasPc
      BY <2>2 DEF AddDistinctId, FetchIdentity, SetIdentified
    <3> QED BY <3>1, SameAttempts, FailureAttempts
  <2>3. CASE InsertId(t) \/ InsertPrev(t) \/ InsertNew(t)
    <3>1. \/ RetryIfFailed(t)
          \/ attempts' = attempts /\ \E label : Goto(t, label) /\ (pc[t] \in AliasPc => label \in AliasPc)
      BY <2>3 DEF InsertId, InsertPrev, InsertNew, Insert
    <3> QED BY <3>1, SameAttempts, FailureAttempts
  <2>4. CASE CommitPerson(t) \/ UpdateTarget(t) \/ MoveIds(t) \/ DeleteSource(t) \/ CommitMerge(t)
    <3>1. \/ Throw(t)
          \/ attempts' = attempts /\ \E label : Goto(t, label) /\ (pc[t] \in AliasPc => label \in AliasPc)
      BY <2>4 DEF CommitPerson, UpdateTarget, MoveIds, DeleteSource, CommitMerge
    <3> QED BY <3>1, SameAttempts, FailureAttempts
  <2>5. CASE Return(t)
    BY <2>5 DEF Return, RetriesInAlias, Goto, TypeOK
  <2>6. CASE DeadlockVictim(t)
    <3>1. CASE RetryIfFailed(t) \/ Throw(t)
      BY <3>1, FailureAttempts
    <3>2. CASE attempts' = [attempts EXCEPT ![t] = @ + 1] /\ Goto(t, "fetchOld")
      BY <3>2 DEF RetriesInAlias, Goto, TypeOK
    <3> QED BY <2>6, <3>1, <3>2 DEF DeadlockVictim
  <2> QED BY <1>2, <2>1, <2>2, <2>3, <2>4, <2>5, <2>6 DEF TaskStep
<1>3. ASSUME NEW w \in Workers, Crash(w) PROVE RetriesInAlias'
  BY <1>3 DEF Crash, RetriesInAlias
<1> QED BY <1>1, <1>2, <1>3 DEF Next, Finished

\* The clients in use, counted as pairs of a task and a number, when no task has more
\* than n and a task that is not running has none.
LEMMA ClientsBounded ==
    ASSUME TypeOK, RetriesInAlias, NEW w \in Workers, NEW n \in Nat,
           \A t \in Running(w) : ClientsHeld(t) <= n
    PROVE  {c \in Tasks \X (1 .. MaxMergeAttempts) :
                job[c[1]].worker = w /\ c[2] <= ClientsHeld(c[1])} \subseteq Running(w) \X (1 .. n)
<1> SUFFICES ASSUME NEW t \in Tasks, NEW k \in 1 .. MaxMergeAttempts,
                    job[t].worker = w, k <= ClientsHeld(t)
             PROVE  t \in Running(w) /\ k \in 1 .. n
  OBVIOUS
<1>1. attempts[t] \in Nat /\ k \in Nat /\ k > 0
  BY ConstantsOK DEF TypeOK
<1>2. attempts[t] # 0 \/ InTransaction(t)
  BY <1>1 DEF ClientsHeld
<1>3. t \in Running(w)
  BY <1>2 DEF RetriesInAlias, InTransaction, Running
<1>4. ClientsHeld(t) \in Nat
  BY <1>1 DEF ClientsHeld
<1> QED BY <1>1, <1>3, <1>4

\* A task has at most MaxMergeAttempts clients, and one less when it waits for one.
LEMMA ClientsOfTask ==
    ASSUME TypeOK, NEW t \in Tasks
    PROVE  /\ ClientsHeld(t) \in Nat /\ ClientsHeld(t) <= MaxMergeAttempts
           /\ ~InTransaction(t) => ClientsHeld(t) <= MaxMergeAttempts - 1
<1>1. attempts[t] \in 0 .. MaxMergeAttempts - 1
  BY DEF TypeOK
<1> QED BY <1>1, ConstantsOK DEF ClientsHeld

\* The running tasks and the clients they may have.
LEMMA RunningFinite ==
    ASSUME IsFiniteSet(Tasks), NEW w \in Workers, NEW n \in Nat
    PROVE  /\ Cardinality(Running(w)) \in Nat
           /\ IsFiniteSet(Running(w) \X (1 .. n))
           /\ Cardinality(Running(w) \X (1 .. n)) = Cardinality(Running(w)) * n
<1>1. IsFiniteSet(Running(w))
  BY FS_Subset DEF Running
<1>2. IsFiniteSet(1 .. n) /\ Cardinality(1 .. n) = n
  BY FS_Interval
<1> QED BY <1>1, <1>2, FS_Product, FS_CardinalityType

\* The clients in use, as counted, are a number.
LEMMA ClientsCounted ==
    ASSUME IsFiniteSet(Tasks), TypeOK, RetriesInAlias, NEW w \in Workers, NEW n \in Nat,
           \A t \in Running(w) : ClientsHeld(t) <= n
    PROVE  /\ ClientsInUse(w) \in Nat
           /\ ClientsInUse(w) <= Cardinality(Running(w)) * n
<1> DEFINE used == {c \in Tasks \X (1 .. MaxMergeAttempts) :
                       job[c[1]].worker = w /\ c[2] <= ClientsHeld(c[1])}
<1>1. used \subseteq Running(w) \X (1 .. n)
  BY ClientsBounded
<1>2. ClientsInUse(w) = Cardinality(used)
  BY DEF ClientsInUse
<1> DEFINE all == Running(w) \X (1 .. n)
<1>3. IsFiniteSet(all) /\ Cardinality(all) = Cardinality(Running(w)) * n
  BY RunningFinite
<1>4. used \in SUBSET all
  BY <1>1
<1> HIDE DEF used, all
<1>5. IsFiniteSet(used) /\ Cardinality(used) <= Cardinality(all)
  BY <1>3, <1>4, FS_Subset
<1> QED BY <1>2, <1>3, <1>5, FS_CardinalityType

\* No worker whose tasks leave a client over waits for itself.  With the pool of 10 clients
\* and the 3 attempts of the code that is shown for up to four tasks at a time.
THEOREM PoolLasts ==
    ASSUME IsFiniteSet(Tasks)
    PROVE  Spec => []PoolNotExhausted
<1>1. Init => RetriesInAlias
  BY DEF Init, RetriesInAlias
<1>2. TypeOK /\ RetriesInAlias => PoolNotExhausted
  <2> SUFFICES ASSUME TypeOK, RetriesInAlias, NEW w \in Workers, Running(w) # {},
                      Cardinality(Running(w)) * (MaxMergeAttempts - 1) < PoolSize,
                      \A t \in Running(w) : ~HasClient(t)
               PROVE  FALSE
    BY DEF PoolNotExhausted
  <2>1. PICK t \in Running(w) : TRUE
    OBVIOUS
  <2>2. \A u \in Running(w) : ClientsHeld(u) <= MaxMergeAttempts - 1
    BY ClientsOfTask DEF HasClient, Running
  <2>3. MaxMergeAttempts - 1 \in Nat
    BY ConstantsOK
  <2>4. /\ ClientsInUse(w) \in Nat
        /\ ClientsInUse(w) <= Cardinality(Running(w)) * (MaxMergeAttempts - 1)
    BY <2>2, <2>3, ClientsCounted
  <2>5. Cardinality(Running(w)) * (MaxMergeAttempts - 1) \in Nat
    BY <2>3, RunningFinite, FS_CardinalityType
  <2>6. ClientsInUse(w) < PoolSize
    BY <2>4, <2>5, ConstantsOK
  <2> QED BY <2>1, <2>6 DEF HasClient, Running
<1> QED BY <1>1, <1>2, RetriesStep, TypeCorrect, PTL DEF Spec

\* A pool for all attempts of all tasks makes nobody wait.
THEOREM PoolSuffices ==
    ASSUME IsFiniteSet(Tasks)
    PROVE  Spec => []NobodyWaits
<1>1. Init => RetriesInAlias
  BY DEF Init, RetriesInAlias
<1>2. TypeOK /\ RetriesInAlias => NobodyWaits
  <2> SUFFICES ASSUME TypeOK, RetriesInAlias, NEW w \in Workers,
                      Cardinality(Running(w)) * MaxMergeAttempts <= PoolSize,
                      NEW t \in Running(w), ~InTransaction(t)
               PROVE  ClientsInUse(w) < PoolSize
    BY DEF NobodyWaits, HasClient, Running
  <2> DEFINE used == {c \in Tasks \X (1 .. MaxMergeAttempts) :
                         job[c[1]].worker = w /\ c[2] <= ClientsHeld(c[1])}
             all == Running(w) \X (1 .. MaxMergeAttempts)
  <2>1. MaxMergeAttempts \in Nat /\ MaxMergeAttempts > 0 /\ PoolSize \in Nat
    BY ConstantsOK
  <2>2. \A u \in Running(w) : ClientsHeld(u) <= MaxMergeAttempts
    BY ClientsOfTask DEF Running
  <2>3. used \subseteq all
    BY <2>1, <2>2, ClientsBounded
  <2>4. <<t, MaxMergeAttempts>> \in all \ used
    <3>1. ClientsHeld(t) \in Nat /\ ClientsHeld(t) <= MaxMergeAttempts - 1
      BY ClientsOfTask DEF Running
    <3> QED BY <2>1, <3>1
  <2>5. ClientsInUse(w) = Cardinality(used)
    BY DEF ClientsInUse
  <2>6. IsFiniteSet(all) /\ Cardinality(all) = Cardinality(Running(w)) * MaxMergeAttempts
    BY <2>1, RunningFinite
  <2> HIDE DEF used, all
  <2>7. Cardinality(used) \in Nat /\ Cardinality(all) \in Nat
    BY <2>3, <2>6, FS_Subset, FS_CardinalityType
  <2>8. Cardinality(used) < Cardinality(all)
    <3>1. Cardinality(used) <= Cardinality(all) /\ (Cardinality(all) = Cardinality(used) => all = used)
      BY <2>3, <2>6, FS_Subset
    <3> QED BY <2>4, <2>7, <3>1
  <2> QED BY <2>1, <2>5, <2>6, <2>7, <2>8
<1> QED BY <1>1, <1>2, RetriesStep, TypeCorrect, PTL DEF Spec
=============================================================================
