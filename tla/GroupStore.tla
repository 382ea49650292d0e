------------------------------ MODULE GroupStore ------------------------------
(***************************************************************************)
(* What the group tables of a team promise: group types are numbered in    *)
(* the order in which they come, for good, and the $groupidentify events   *)
(* change their groups one at a time, each at most once, each from what    *)
(* the one before it has left.  Groups shows that the caches, conflicts,   *)
(* locks and retries of the plugin server amount to these steps.           *)
(***************************************************************************)
EXTENDS PropertyUpdates, Integers, Sequences

CONSTANTS Types, GroupKeys, MaxGroupTypes, NoIndex

VARIABLES
    event,      \* the events, which do not change
    groupTypes, \* the index of each group type
    groups,     \* properties and version of each group; version 0 before it exists
    upserted    \* the events that have changed their group

storeVars == <<event, groupTypes, groups, upserted>>

StoreInit ==
    /\ groupTypes = [t \in Types |-> NoIndex]
    /\ groups = [g \in (0 .. MaxGroupTypes - 1) \X GroupKeys |->
                   [props |-> [k \in Keys |-> Absent], version |-> 0]]
    /\ upserted = {}

\* A new group type gets the next index, as long as there is one.
Register(t) ==
    /\ groupTypes[t] = NoIndex
    /\ \E next \in 0 .. MaxGroupTypes - 1 :
          /\ {groupTypes[u] : u \in Types} \ {NoIndex} = 0 .. next - 1
          /\ groupTypes' = [groupTypes EXCEPT ![t] = next]
    /\ UNCHANGED <<event, groups, upserted>>

\* The group of e: its key, in the column of the group type it names last.
GroupOf(e) == <<groupTypes[event[e].types[Len(event[e].types)]], event[e].key>>

\* The group of e as it is, brought up to date with e: a new version when it is new or
\* has changed.
UpToDate(e, group) ==
    LET props == CalculateUpdate(group.props, e, event[e].set, {}, event[e].timestamp)
    IN IF group.version = 0 \/ props # group.props
       THEN [props |-> props, version |-> group.version + 1]
       ELSE group

Upsert(e) ==
    /\ e \notin upserted
    /\ GroupOf(e) \in DOMAIN groups
    /\ groups' = [groups EXCEPT ![GroupOf(e)] = UpToDate(e, @)]
    /\ upserted' = upserted \cup {e}
    /\ UNCHANGED <<event, groupTypes>>

StoreNext == (\E t \in Types : Register(t)) \/ (\E e \in Events : Upsert(e))

StoreSpec == StoreInit /\ [][StoreNext]_storeVars
=============================================================================
