------------------------------- MODULE Groups -------------------------------
(***************************************************************************)
(* The group types and groups of one team: fetchGroupTypeIndex of          *)
(* group-type-manager.ts with insertGroupType of db.ts, called for every   *)
(* group type of an event (addGroupProperties, and upsertGroup of          *)
(* process-event.ts for $groupidentify), and upsertGroup of                *)
(* properties-updater.ts.                                                  *)
(*                                                                         *)
(* Events are handled concurrently, several by each worker; a worker's     *)
(* tasks share its groupTypesCache.  Sending the group to ClickHouse and   *)
(* reporting the new group type are left out, and so is everything else    *)
(* capture does with the event.                                            *)
(***************************************************************************)
EXTENDS PropertyUpdates, Sequences, FiniteSets

CONSTANTS
    Types,          \* the group types events name
    GroupKeys,      \* the keys of $groupidentify events
    Workers,
    WorkerOf,       \* the worker an event is handled by
    MaxGroupTypes,  \* MAX_GROUP_TYPES_PER_TEAM
    Histories,      \* what the events may be, a function on Events each
    NoKey, NoIndex, NoCache, NoLock

\* types: the group types of $groups and, last, $group_type of $groupidentify;
\* key: the $group_key, NoKey for other events; set: the keys of $group_set.
EventType == [types : Seq(Types) \ {<<>>}, key : GroupKeys \cup {NoKey},
              set : SUBSET Keys, timestamp : Stamps]

Indexes == 0 .. MaxGroupTypes - 1
GroupTypes == [Types -> Indexes \cup {NoIndex}]
Groups == Indexes \X GroupKeys

ASSUME GroupsOK ==
    /\ MaxGroupTypes \in Nat
    /\ WorkerOf \in [Events -> Workers]
    /\ NoIndex \notin Nat
    /\ NoCache \notin GroupTypes
    /\ NoLock \notin Events
    /\ NoKey \notin GroupKeys
    /\ NoEvent \notin Events
    /\ Histories \subseteq [Events -> EventType]

VARIABLES
    event,      \* the events
    groupTypes, \* posthog_grouptypemapping: the index of each type
    cache,      \* per worker: groupTypesCache
    groups,     \* posthog_group; version 0 is a group without a row
    rowLock,    \* per group: the event whose transaction holds FOR UPDATE
    pc,         \* per event: its next step
    read,       \* per event: the group types its query has returned
    index,      \* per event: the index it tries to insert, or has got
    columns,    \* per event: the indexes found so far for its types
    fetched     \* per event: the group it has read

typeVars == <<groupTypes, cache, read, index, columns>>
groupVars == <<groups, rowLock, fetched>>
vars == <<event, typeVars, groupVars, pc>>

NoTypes == [t \in Types |-> NoIndex]
NoGroup == [props |-> [k \in Keys |-> Absent], version |-> 0]
GroupType == [props : [Keys -> Entries], version : Nat]

TypeOK ==
    /\ event \in [Events -> EventType]
    /\ groupTypes \in GroupTypes
    /\ cache \in [Workers -> GroupTypes \cup {NoCache}]
    /\ groups \in [Groups -> GroupType]
    /\ rowLock \in [Groups -> Events \cup {NoLock}]
    /\ pc \in [Events -> {"lookUp", "queryTypes", "cacheTypes", "insertType", "insertRow", "gotIndex",
                          "fetchGroup", "insertGroup", "updateGroup", "stored"}]
    /\ read \in [Events -> GroupTypes]
    /\ index \in [Events -> Indexes \cup {NoIndex}]
    /\ columns \in [Events -> Seq(Indexes \cup {NoIndex})]
    /\ fetched \in [Events -> GroupType]

Init ==
    /\ event \in Histories
    /\ groupTypes = NoTypes
    /\ cache = [w \in Workers |-> NoCache]
    /\ groups = [g \in Groups |-> NoGroup]
    /\ rowLock = [g \in Groups |-> NoLock]
    /\ pc = [e \in Events |-> "lookUp"]
    /\ read = [e \in Events |-> NoTypes]
    /\ index = [e \in Events |-> NoIndex]
    /\ columns = [e \in Events |-> <<>>]
    /\ fetched = [e \in Events |-> NoGroup]

-----------------------------------------------------------------------------
Goto(e, label) == pc' = [pc EXCEPT ![e] = label]

\* The group type e looks up, and the group it identifies once all are found.
Type(e) == event[e].types[Len(columns[e]) + 1]
LastColumn(e) == columns[e][Len(columns[e])]
GroupOf(e) == <<LastColumn(e), event[e].key>>

\* fetchGroupTypeIndex returns i: the next type, or upsertGroup, or createEvent.
Return(e, i) ==
    /\ columns' = [columns EXCEPT ![e] = Append(@, i)]
    /\ Goto(e, IF Len(columns[e]) + 1 < Len(event[e].types) THEN "lookUp"
               ELSE IF event[e].key # NoKey /\ i # NoIndex THEN "fetchGroup"
               ELSE "stored")

\* Mutant of WithinLimit: one index too many.
WithinLimitInclusive(i) == i <= MaxGroupTypes

WithinLimit(i) == i < MaxGroupTypes

\* insertGroupType called with index i.
TryIndex(e, i) ==
    \/ /\ WithinLimit(i)
       /\ index' = [index EXCEPT ![e] = i]
       /\ Goto(e, "insertType")
       /\ UNCHANGED columns
    \/ /\ ~WithinLimit(i)
       /\ Return(e, NoIndex)
       /\ UNCHANGED index

Indexed(types) == {t \in Types : types[t] # NoIndex}

\* Mutant of NextIndex: the indexes start at 1.
NextIndexFromOne(types) == Cardinality(Indexed(types)) + 1

NextIndex(types) == Cardinality(Indexed(types))

\* fetchGroupTypeIndex with the group types from the cache or the query.
UseTypes(e, types) ==
    \/ /\ types[Type(e)] # NoIndex
       /\ Return(e, types[Type(e)])
       /\ UNCHANGED index
    \/ /\ types[Type(e)] = NoIndex
       /\ TryIndex(e, NextIndex(types))

UseCache(e) ==
    /\ pc[e] = "lookUp"
    /\ cache[WorkerOf[e]] # NoCache
    /\ UseTypes(e, cache[WorkerOf[e]])
    /\ UNCHANGED <<event, groupTypes, cache, read, groupVars>>

\* There is no cache, or it is more than 30 seconds old.
MissCache(e) ==
    /\ pc[e] = "lookUp"
    /\ Goto(e, "queryTypes")
    /\ UNCHANGED <<event, typeVars, groupVars>>

QueryTypes(e) ==
    /\ pc[e] = "queryTypes"
    /\ read' = [read EXCEPT ![e] = groupTypes]
    /\ Goto(e, "cacheTypes")
    /\ UNCHANGED <<event, groupTypes, cache, index, columns, groupVars>>

\* The query's answer is cached, however old it has become.
CacheTypes(e) ==
    /\ pc[e] = "cacheTypes"
    /\ cache' = [cache EXCEPT ![WorkerOf[e]] = read[e]]
    /\ UseTypes(e, read[e])
    /\ UNCHANGED <<event, groupTypes, read, groupVars>>

-----------------------------------------------------------------------------
(* insertGroupType: INSERT ... ON CONFLICT DO NOTHING, UNION SELECT.  The  *)
(* SELECT sees the rows from before the statement, the INSERT those of now.*)

\* Mutant of TypeVisible: without the UNION SELECT.
TypeNotSelected(e) == FALSE

TypeVisible(e) == groupTypes[Type(e)] # NoIndex

SelectType(e) ==
    /\ pc[e] = "insertType"
    /\ TypeVisible(e)
    /\ index' = [index EXCEPT ![e] = groupTypes[Type(e)]]
    /\ Goto(e, "gotIndex")
    /\ UNCHANGED <<event, groupTypes, cache, read, columns, groupVars>>

SelectNothing(e) ==
    /\ pc[e] = "insertType"
    /\ ~TypeVisible(e)
    /\ Goto(e, "insertRow")
    /\ UNCHANGED <<event, typeVars, groupVars>>

Taken(i) == \E t \in Types : groupTypes[t] = i
IndexFree(e) == ~Taken(index[e])

\* Both unique constraints: of the type and of the index.
NoConflict(e) == groupTypes[Type(e)] = NoIndex /\ IndexFree(e)

InsertType(e) ==
    /\ pc[e] = "insertRow"
    /\ NoConflict(e)
    /\ groupTypes' = [groupTypes EXCEPT ![Type(e)] = index[e]]
    /\ Goto(e, "gotIndex")
    /\ UNCHANGED <<event, cache, read, index, columns, groupVars>>

\* No row is returned: the recursive call with the next index.
InsertConflicts(e) ==
    /\ pc[e] = "insertRow"
    /\ ~NoConflict(e)
    /\ TryIndex(e, index[e] + 1)
    /\ UNCHANGED <<event, groupTypes, cache, read, groupVars>>

DropCache(e) ==
    /\ pc[e] = "gotIndex"
    /\ cache' = [cache EXCEPT ![WorkerOf[e]] = NoCache]
    /\ Return(e, index[e])
    /\ UNCHANGED <<event, groupTypes, read, index, groupVars>>

-----------------------------------------------------------------------------
(* upsertGroup of properties-updater.ts, one transaction per attempt *)

HasRow(g) == groups[g].version # 0

\* Mutant of RowFree: SELECT without FOR UPDATE.
RowIgnored(g) == TRUE

RowFree(g) == rowLock[g] = NoLock

FetchGroup(e) ==
    /\ pc[e] = "fetchGroup"
    /\ LET g == GroupOf(e)
       IN \/ /\ ~HasRow(g)
             /\ Goto(e, "insertGroup")
             /\ UNCHANGED <<rowLock, fetched>>
          \/ /\ HasRow(g) /\ RowFree(g)
             /\ rowLock' = [rowLock EXCEPT ![g] = e]
             /\ fetched' = [fetched EXCEPT ![e] = groups[g]]
             /\ Goto(e, "updateGroup")
    /\ UNCHANGED <<event, typeVars, groups>>

Updated(e, props) == CalculateUpdate(props, e, event[e].set, {}, event[e].timestamp)

\* Mutant of InsertAllowed: ON CONFLICT DO UPDATE.
InsertOverwrites(g) == TRUE

InsertAllowed(g) == ~HasRow(g)

\* INSERT and COMMIT: a parallel insert waits for the end of this transaction.
InsertGroup(e) ==
    /\ pc[e] = "insertGroup"
    /\ InsertAllowed(GroupOf(e))
    /\ groups' = [groups EXCEPT ![GroupOf(e)] =
                    [props |-> Updated(e, NoGroup.props), version |-> 1]]
    /\ Goto(e, "stored")
    /\ UNCHANGED <<event, typeVars, rowLock, fetched>>

\* RaceConditionError, ROLLBACK, and upsertGroup calls itself.
RetryUpsert(e) ==
    /\ pc[e] = "insertGroup"
    /\ ~InsertAllowed(GroupOf(e))
    /\ Goto(e, "fetchGroup")
    /\ UNCHANGED <<event, typeVars, groupVars>>

\* Mutant of LockAfter: the transaction stays open when nothing was updated.
LockAfterUpdateOnly(e, changed) == IF changed THEN NoLock ELSE e

\* The row lock after COMMIT.
LockAfter(e, changed) == NoLock

\* UPDATE, if a property has changed, and COMMIT.
UpdateGroup(e) ==
    /\ pc[e] = "updateGroup"
    /\ LET g == GroupOf(e)
           props == Updated(e, fetched[e].props)
           changed == props # fetched[e].props
       IN /\ \/ changed /\ groups' = [groups EXCEPT ![g] =
                              [props |-> props, version |-> fetched[e].version + 1]]
             \/ ~changed /\ UNCHANGED groups
          /\ rowLock' = [rowLock EXCEPT ![g] = LockAfter(e, changed)]
    /\ Goto(e, "stored")
    /\ UNCHANGED <<event, typeVars, fetched>>

-----------------------------------------------------------------------------
EventStep(e) ==
    \/ UseCache(e) \/ MissCache(e) \/ QueryTypes(e) \/ CacheTypes(e)
    \/ SelectType(e) \/ SelectNothing(e) \/ InsertType(e) \/ InsertConflicts(e) \/ DropCache(e)
    \/ FetchGroup(e) \/ InsertGroup(e) \/ RetryUpsert(e) \/ UpdateGroup(e)

AllStored == (\A e \in Events : pc[e] = "stored") /\ UNCHANGED vars

Next == (\E e \in Events : EventStep(e)) \/ AllStored

Spec == Init /\ [][Next]_vars

\* The event loop runs every task whose query has returned.
FairSpec == Spec /\ \A e \in Events : WF_vars(EventStep(e))

-----------------------------------------------------------------------------
(* Properties *)

\* The team's group types have the indexes 0, 1, 2, ... without a gap and without
\* a type sharing one, although each index is proposed from a count that may be old
\* (fetchGroupTypeIndex).
Numbered(types) == {types[t] : t \in Indexed(types)} = 0 .. Cardinality(Indexed(types)) - 1
TypesNumbered == Numbered(groupTypes)

\* Every $group_<index> column an event is given is the column of that group type,
\* and a type is refused only when the team's indexes are used up: the type then has
\* no index, or (a parallel insert of the same type) the last one.
ColumnsAgree ==
    \A e \in Events : \A n \in DOMAIN columns[e] :
        LET now == groupTypes[event[e].types[n]]
        IN \/ columns[e][n] # NoIndex /\ columns[e][n] = now
           \/ /\ columns[e][n] = NoIndex
              /\ \A i \in Indexes : Taken(i)
              /\ now \in {NoIndex, MaxGroupTypes - 1}

Applied(e) == pc[e] = "stored" /\ event[e].key # NoKey /\ LastColumn(e) # NoIndex
AppliedTo(g) == {e \in Events : Applied(e) /\ GroupOf(e) = g}
Setting(g, k) == {e \in AppliedTo(g) : k \in event[e].set}

\* A group exists when an event has identified it, and each of its properties has
\* the value with the latest timestamp, however the upserts overlapped
\* ("handles race conditions as inserts happen in parallel", properties-updater.test.ts).
Resolved(g, k) ==
    LET entry == groups[g].props[k]
    IN \/ Setting(g, k) = {} /\ entry = Absent
       \/ /\ entry.by \in Setting(g, k) /\ entry.op = "set"
          /\ entry.time = event[entry.by].timestamp
          /\ \A e \in Setting(g, k) : event[e].timestamp <= entry.time
GroupsResolved ==
    \A g \in Groups : /\ HasRow(g) <=> AppliedTo(g) # {}
                      /\ \A k \in Keys : Resolved(g, k)

\* However the events of all workers interleave, with caches that are old, inserts that
\* conflict and upserts that start over: group types are registered one by one, each
\* with the next index, and each event brings its group up to date in one step, from
\* the properties and to the version after the ones that are there (fetchGroupTypeIndex
\* and insertGroupType, upsertGroup).
Store == INSTANCE GroupStore WITH upserted <- {e \in Events : Applied(e)}
ImplementsStore == Store!StoreSpec

\* A version is never given to two states of a group: ClickHouse is told the version
\* with the properties.
VersionsNotReused ==
    [][\A g \in Groups : groups'[g] # groups[g] => groups'[g].version = groups[g].version + 1]_vars

\* Every event is stored: retries end, and nobody waits for a group's row forever.
EveryEventStored == <>(\A e \in Events : pc[e] = "stored")
=============================================================================
