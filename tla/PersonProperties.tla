-------------------------- MODULE PersonProperties --------------------------
(***************************************************************************)
(* The events of one distinct id, handled concurrently by the tasks of one *)
(* worker: capture of process-event.ts with createPersonIfDistinctIdIsNew, *)
(* PersonManager.isNewPerson, createPerson and updatePersonProperties.     *)
(*                                                                         *)
(* locking tells whether the team is one of                                *)
(* NEW_PERSON_PROPERTIES_UPDATE_ENABLED_TEAMS: its events update the       *)
(* person under SELECT ... FOR UPDATE (properties-updater.ts); the events  *)
(* of other teams read, compute and write (updatePersonPropertiesDeprecated).*)
(***************************************************************************)
EXTENDS PropertyUpdates

CONSTANTS
    Histories,  \* the events the worker may be given, a function on Events each
    NoLock

\* timestamp is handleTimestamp's result; sentAt is sent_at, or the time of
\* handling when there is none.
EventType == [set : SUBSET Keys, once : SUBSET Keys, timestamp : Stamps, sentAt : Stamps]

ASSUME EventsOK ==
    /\ NoEvent \notin Events \cup {Before}
    /\ Before \notin Events
    /\ NoLock \notin Events
    /\ Histories \subseteq [Events -> EventType]

VARIABLES
    event,     \* the events
    before,    \* the properties that were there before any metadata was kept (history)
    locking,   \* whether the team's updates lock the person
    creator,   \* the event that created the person: Before it was there, NoEvent there is none
    props,     \* the person's properties
    rowLock,   \* the event whose transaction holds FOR UPDATE
    seen,      \* the distinct id is in personSeen
    pc,        \* per event: its next statement
    fetched    \* per event: the properties it has read

vars == <<event, before, locking, creator, props, rowLock, seen, pc, fetched>>

\* The distinct id has a person.
exists == creator # NoEvent

NoProps == [k \in Keys |-> Absent]

TypeOK ==
    /\ event \in [Events -> EventType]
    /\ before \in SUBSET Keys
    /\ locking \in BOOLEAN
    /\ creator \in Events \cup {NoEvent, Before}
    /\ props \in [Keys -> Entries]
    /\ rowLock \in Events \cup {NoLock}
    /\ seen \in BOOLEAN
    /\ pc \in [Events -> {"isNewPerson", "countIds", "createPerson", "fetchPerson",
                          "updatePerson", "stored", "failed"}]
    /\ fetched \in [Events -> [Keys -> Entries]]
    /\ \A k \in Keys : locking /\ props[k].by \in Events => props[k].time \in Stamps

Init ==
    /\ event \in Histories
    /\ locking \in BOOLEAN
    /\ creator \in {NoEvent, Before}
    /\ before \in IF exists THEN SUBSET Keys ELSE {{}}
    /\ props = [k \in Keys |-> IF k \in before THEN Unstamped ELSE Absent]
    /\ rowLock = NoLock
    /\ seen \in {FALSE, exists}
    /\ pc = [e \in Events |-> "isNewPerson"]
    /\ fetched = [e \in Events |-> NoProps]

-----------------------------------------------------------------------------
Goto(e, label) == pc' = [pc EXCEPT ![e] = label]

HasProperties(e) == event[e].set \cup event[e].once # {}

\* capture after createPersonIfDistinctIdIsNew returned false.
UpdateOrStore(e) == IF HasProperties(e) THEN "fetchPerson" ELSE "stored"

IsNewPerson(e) ==
    /\ pc[e] = "isNewPerson"
    /\ \/ seen /\ Goto(e, UpdateOrStore(e)) /\ UNCHANGED seen
       \/ seen' = TRUE /\ Goto(e, "countIds")  \* also when the LRU has dropped the id
    /\ UNCHANGED <<event, before, locking, creator, props, rowLock, fetched>>

CountIds(e) ==
    /\ pc[e] = "countIds"
    /\ Goto(e, IF exists THEN UpdateOrStore(e) ELSE "createPerson")
    /\ UNCHANGED <<event, before, locking, creator, props, rowLock, seen, fetched>>

\* createPerson, up to its COMMIT.  It stamps the properties with the time the
\* person is created at, which is not the event's timestamp.  A person another
\* task or server has created meanwhile makes it fail; the event updates that one.
CreatedWith(e) ==
    [k \in Keys |-> IF k \in event[e].set THEN Written(e, "set", event[e].sentAt)
                    ELSE IF k \in event[e].once THEN Written(e, "set_once", event[e].sentAt)
                    ELSE Absent]

CreatePerson(e) ==
    /\ pc[e] = "createPerson"
    /\ \/ /\ ~exists
          /\ creator' = e
          /\ props' = CreatedWith(e)
          /\ Goto(e, "stored")
       \/ /\ exists
          /\ Goto(e, UpdateOrStore(e))
          /\ UNCHANGED <<creator, props>>
    /\ UNCHANGED <<event, before, locking, rowLock, seen, fetched>>

\* Both ways of updating throw when there is no person, and then capture throws
\* before createEvent has stored the event.
NoPersonFound(e) ==
    /\ pc[e] = "fetchPerson"
    /\ ~exists
    /\ Goto(e, "failed")
    /\ UNCHANGED <<event, before, locking, creator, props, rowLock, seen, fetched>>

-----------------------------------------------------------------------------
(* updatePersonProperties of properties-updater.ts, one transaction *)

\* Mutant of RowFree: SELECT without FOR UPDATE.
RowIgnored == TRUE

RowFree == rowLock = NoLock

FetchForUpdate(e) ==
    /\ locking
    /\ pc[e] = "fetchPerson"
    /\ exists
    /\ RowFree
    /\ rowLock' = e
    /\ fetched' = [fetched EXCEPT ![e] = props]
    /\ Goto(e, "updatePerson")
    /\ UNCHANGED <<event, before, locking, creator, props, seen>>

\* Mutant of AfterUpdate: the transaction stays open when nothing was updated.
AfterUpdateKeptOpen(e, updated) == IF updated = props THEN rowLock ELSE NoLock

\* The row lock after the UPDATE, which is left out when nothing changes, and COMMIT.
AfterUpdate(e, updated) == NoLock

UpdateUnderLock(e) ==
    /\ locking
    /\ pc[e] = "updatePerson"
    /\ props' = CalculateUpdate(fetched[e], e, event[e].set, event[e].once, event[e].timestamp)
    /\ rowLock' = AfterUpdate(e, props')
    /\ Goto(e, "stored")
    /\ UNCHANGED <<event, before, locking, creator, seen, fetched>>

-----------------------------------------------------------------------------
(* updatePersonPropertiesDeprecated: no transaction, and no metadata *)

\* The keys whose value the event replaces, given what it has read.
Replaces(e) ==
    event[e].set \cup {k \in event[e].once : ~Exists(fetched[e][k])}

Fetch(e) ==
    /\ ~locking
    /\ pc[e] = "fetchPerson"
    /\ exists
    /\ fetched' = [fetched EXCEPT ![e] = props]
    /\ Goto(e, IF event[e].set = {} /\ \A k \in event[e].once : Exists(props[k])
               THEN "stored" ELSE "updatePerson")
    /\ UNCHANGED <<event, before, locking, creator, props, rowLock, seen>>

\* All the properties it has read are written back.
Update(e) ==
    /\ ~locking
    /\ pc[e] = "updatePerson"
    /\ props' = [k \in Keys |->
                   [props[k] EXCEPT !.by = IF k \in Replaces(e) THEN e ELSE fetched[e][k].by]]
    /\ Goto(e, "stored")
    /\ UNCHANGED <<event, before, locking, creator, rowLock, seen, fetched>>

-----------------------------------------------------------------------------
Handled(e) == pc[e] \in {"stored", "failed"}

EventStep(e) ==
    \/ IsNewPerson(e) \/ CountIds(e) \/ CreatePerson(e) \/ NoPersonFound(e)
    \/ FetchForUpdate(e) \/ UpdateUnderLock(e)
    \/ Fetch(e) \/ Update(e)

AllHandled == (\A e \in Events : Handled(e)) /\ UNCHANGED vars

Next == (\E e \in Events : EventStep(e)) \/ AllHandled

Spec == Init /\ [][Next]_vars

\* The event loop runs every task whose query has returned.
FairSpec == Spec /\ \A e \in Events : WF_vars(EventStep(e))

-----------------------------------------------------------------------------
(* Properties *)

\* The time that counts for an event that has been stored: its timestamp, but
\* sent_at when it is the one that created the person (see createPerson).
TimeOf(e) == IF creator = e THEN event[e].sentAt ELSE event[e].timestamp

Stored == {e \in Events : pc[e] = "stored"}
Setting(k) == {e \in Stored : k \in event[e].set}
SettingOnce(k) == {e \in Stored : k \in event[e].once}

\* Whatever the order in which events are handled, and however they overlap: a
\* property has the value of the latest $set; without one, the value it had
\* before; without that, the value of the earliest $set_once ("ingestion in any
\* order", tests/shared/process-event.ts).
Resolved(k) ==
    \/ /\ props[k].op = "set" /\ props[k].by \in Setting(k) /\ props[k].time = TimeOf(props[k].by)
       /\ \A e \in Setting(k) : TimeOf(e) <= props[k].time
    \/ Setting(k) = {} /\ k \in before /\ props[k] = Unstamped
    \/ /\ Setting(k) = {} /\ k \notin before
       /\ props[k].op = "set_once" /\ props[k].by \in SettingOnce(k)
       /\ props[k].time = TimeOf(props[k].by)
       /\ \A e \in SettingOnce(k) : TimeOf(e) >= props[k].time
    \/ Setting(k) = {} /\ SettingOnce(k) = {} /\ k \notin before /\ props[k] = Absent
PropertiesResolved == locking => \A k \in Keys : Resolved(k)

\* Between FOR UPDATE and COMMIT nobody changes the properties the update is
\* computed from.
ReadIsCurrent ==
    /\ \A e \in Events : pc[e] = "updatePerson" =>
          exists /\ (locking => rowLock = e /\ fetched[e] = props)
    /\ rowLock # NoLock => locking /\ pc[rowLock] = "updatePerson"

\* Every event is stored or fails: none waits for the person's row forever.
EveryEventHandled == <>(\A e \in Events : Handled(e))

\* What updatePersonProperties asserts of its callers with "Could not find person
\* with distinct id": capture has seen to it that the person exists.
PersonAlwaysFound == \A e \in Events : pc[e] # "failed"
=============================================================================
