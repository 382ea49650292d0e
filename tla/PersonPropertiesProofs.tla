----------------------- MODULE PersonPropertiesProofs -----------------------
(***************************************************************************)
(* Proofs about PersonProperties for any number of events, keys and        *)
(* timestamps: the properties of a person do not depend on the order in    *)
(* which its events are handled, only on their timestamps.                 *)
(***************************************************************************)
EXTENDS PersonProperties, TLAPS

-----------------------------------------------------------------------------
(* What calculateUpdate returns *)

LEMMA WrittenType ==
    ASSUME NEW e \in Events, NEW op \in Operations, NEW time \in Nat
    PROVE  Written(e, op, time) \in Entries
BY DEF Written, Entries

LEMMA AbsentType == Absent \in Entries /\ Unstamped \in Entries
BY DEF Absent, Unstamped, Written, Entries, Operations, Epoch

\* calculateUpdate returns properties again.
LEMMA CalculateUpdateType ==
    ASSUME NEW p \in [Keys -> Entries], NEW e \in Events, NEW set, NEW once, NEW ts \in Stamps
    PROVE  /\ CalculateUpdate(p, e, set, once, ts) \in [Keys -> Entries]
           /\ \A k \in Keys : CalculateUpdate(p, e, set, once, ts)[k] # p[k]
                                => CalculateUpdate(p, e, set, once, ts)[k].time = ts
<1>1. Written(e, "set", ts) \in Entries /\ Written(e, "set_once", ts) \in Entries
  BY WrittenType DEF Operations, Stamps
<1>2. Written(e, "set", ts).time = ts /\ Written(e, "set_once", ts).time = ts
  BY DEF Written
<1>3. QED  BY <1>1, <1>2 DEF CalculateUpdate

-----------------------------------------------------------------------------
(* The inductive invariant *)

\* The event that created the person is done; while there is no person, no event has
\* written a property; and none fails to find a person that was always there.
Creation == creator \in Events => pc[creator] = "stored"
Unborn == ~exists => props = NoProps /\ before = {} /\ \A e \in Stored : ~HasProperties(e)
Found == creator = Before => \A e \in Events : pc[e] # "failed"

IInv == TypeOK /\ ReadIsCurrent /\ Creation /\ Unborn /\ Found /\ PropertiesResolved

LEMMA NoPropsType == NoProps \in [Keys -> Entries]
BY AbsentType DEF NoProps

LEMMA EventFields ==
    ASSUME TypeOK, NEW e \in Events
    PROVE  event[e].timestamp \in Stamps /\ event[e].sentAt \in Stamps
BY DEF TypeOK, EventType

\* A step that writes no property, and ends no event that has any, keeps them resolved.
LEMMA ResolvedUnchanged ==
    ASSUME PropertiesResolved, UNCHANGED <<event, before, locking, creator, props>>,
           \A k \in Keys : UNCHANGED <<Setting(k), SettingOnce(k)>>
    PROVE  PropertiesResolved'
BY DEF PropertiesResolved, Resolved, TimeOf

-----------------------------------------------------------------------------
\* One key, one update: the winner so far and the update give the new winner.
LEMMA ResolvedStep ==
    ASSUME IInv, locking, NEW e \in Events, UpdateUnderLock(e), NEW k \in Keys
    PROVE  Resolved(k)'
<1> DEFINE ev == event[e]
           ts == event[e].timestamp
<1>1. TypeOK /\ ReadIsCurrent /\ Creation /\ Resolved(k)  BY DEF IInv, PropertiesResolved
<1>2. fetched[e] = props /\ e \notin Stored /\ creator # e
  BY <1>1 DEF UpdateUnderLock, ReadIsCurrent, Creation, Stored
<1>3. ts \in Stamps  BY <1>1, EventFields
<1>4. /\ props' = CalculateUpdate(props, e, ev.set, ev.once, ts)
      /\ Stored' = Stored \cup {e} /\ UNCHANGED <<event, before, locking, creator>>
  BY <1>1, <1>2 DEF UpdateUnderLock, Goto, Stored, TypeOK
<1>5. props[k] \in Entries /\ \A d \in Events : TimeOf(d) \in Nat
  BY <1>1, EventFields DEF TypeOK, TimeOf, Stamps
<1>6. TimeOf(e)' = ts /\ \A d \in Events : TimeOf(d)' = TimeOf(d)  BY <1>2, <1>4 DEF TimeOf
<1>7. Setting(k)' = IF k \in ev.set THEN Setting(k) \cup {e} ELSE Setting(k)
  BY <1>4 DEF Setting
<1>8. SettingOnce(k)' = IF k \in ev.once THEN SettingOnce(k) \cup {e} ELSE SettingOnce(k)
  BY <1>4 DEF SettingOnce
<1>9. e \notin Setting(k) /\ e \notin SettingOnce(k)  BY <1>2 DEF Setting, SettingOnce
<1>10. \A d \in Setting(k) \cup SettingOnce(k) :
          d \in Events /\ TimeOf(d)' = TimeOf(d) /\ TimeOf(d) \in Nat
  BY <1>5, <1>6 DEF Setting, SettingOnce, Stored
<1>11. ts \in Nat /\ ts > 0 /\ NoEvent # e /\ Before # e /\ NoEvent # Before
       /\ (\A d \in Events : d # NoEvent /\ d # Before)
  BY <1>3, EventsOK DEF Stamps, Epoch
<1> DEFINE writtenOnce == k \in ev.once /\ OnceApplies(props[k], ts)
<1>12. CASE k \in ev.set /\ SetApplies(props[k], writtenOnce, ts)
  <2>1. props'[k] = Written(e, "set", ts)  BY <1>4, <1>12 DEF CalculateUpdate
  <2>2. \A d \in Setting(k) : TimeOf(d) <= ts
    <3>1. CASE Setting(k) # {}
      <4>1. /\ props[k].op = "set" /\ props[k].by \in Setting(k)
            /\ \A d \in Setting(k) : TimeOf(d) <= props[k].time
        BY <1>1, <3>1 DEF Resolved
      <4>2. props[k].time < ts
        BY <1>12, <4>1, <1>10, <1>11 DEF SetApplies, Exists
      <4>3. QED  BY <4>1, <4>2, <1>10, <1>11, <1>5 DEF Entries
    <3>2. QED  BY <3>1
  <2>3. QED
    BY <1>6, <1>7, <1>10, <1>11, <1>12, <2>1, <2>2 DEF Resolved, Written
<1>13. CASE ~(k \in ev.set /\ SetApplies(props[k], writtenOnce, ts)) /\ writtenOnce
  <2>1. props'[k] = Written(e, "set_once", ts)  BY <1>4, <1>13 DEF CalculateUpdate
  <2>2. Setting(k) = {}
    <3>1. props[k].by = NoEvent \/ props[k].op = "set_once"  BY <1>13 DEF OnceApplies, Exists
    <3>2. props[k].by \notin Setting(k) \/ props[k].op # "set"  BY <1>10, <1>11, <3>1
    <3>3. QED  BY <1>1, <3>2 DEF Resolved
  <2>3. k \notin ev.set
    <3>1. CASE Exists(props[k])
      BY <1>13, <3>1 DEF OnceApplies, SetApplies
    <3>2. CASE ~Exists(props[k])
      <4>1. props[k].by = NoEvent  BY <3>2 DEF Exists
      <4>2. props[k].by \notin SettingOnce(k) /\ props[k] # Unstamped
        BY <1>10, <1>11, <4>1 DEF Unstamped, Written
      <4>3. props[k] = Absent  BY <1>1, <1>10, <1>11, <2>2, <4>1, <4>2 DEF Resolved
      <4>4. props[k].time < ts  BY <1>11, <4>3 DEF Absent, Written, Epoch
      <4>5. QED  BY <1>13, <4>4 DEF SetApplies
    <3>3. QED  BY <3>1, <3>2
  <2>4. \A d \in SettingOnce(k) : TimeOf(d) >= ts
    <3>1. CASE SettingOnce(k) # {}
      <4>1. props[k] # Unstamped => /\ props[k].op = "set_once" /\ props[k].by \in SettingOnce(k)
                                    /\ \A d \in SettingOnce(k) : TimeOf(d) >= props[k].time
        BY <1>1, <2>2, <3>1 DEF Resolved
      <4>2. props[k] # Unstamped
        BY <1>11, <1>13 DEF OnceApplies, Exists, Unstamped, Written
      <4>3. props[k].time > ts  BY <1>10, <1>11, <1>13, <4>1, <4>2 DEF OnceApplies, Exists
      <4>4. QED  BY <1>5, <1>10, <1>11, <4>1, <4>2, <4>3 DEF Entries
    <3>2. QED  BY <3>1
  <2>5. k \notin before'
    BY <1>1, <1>4, <1>11, <1>13, <2>2 DEF Resolved, OnceApplies, Exists, Unstamped, Written
  <2>6. QED
    BY <1>6, <1>7, <1>8, <1>10, <1>11, <1>13, <2>1, <2>2, <2>3, <2>4, <2>5
    DEF Resolved, Written
<1>14. CASE ~(k \in ev.set /\ SetApplies(props[k], writtenOnce, ts)) /\ ~writtenOnce
  <2>1. props'[k] = props[k]  BY <1>4, <1>14 DEF CalculateUpdate
  <2>2. CASE k \in ev.set
    <3>1. Exists(props[k]) /\ props[k].op # "set_once" /\ ~(props[k].time < ts)
      BY <1>14, <2>2 DEF SetApplies
    <3>2. /\ props[k].op = "set" /\ props[k].by \in Setting(k) /\ props[k].time = TimeOf(props[k].by)
          /\ \A d \in Setting(k) : TimeOf(d) <= props[k].time
      BY <1>1, <1>11, <3>1 DEF Resolved, Exists, Unstamped, Absent, Written, Epoch
    <3>3. ts <= props[k].time  BY <1>5, <1>11, <3>1 DEF Entries
    <3>4. QED  BY <1>6, <1>7, <1>9, <1>10, <2>1, <2>2, <3>2, <3>3 DEF Resolved
  <2>3. CASE k \notin ev.set
    <3>1. Setting(k)' = Setting(k)  BY <1>7, <2>3
    <3>2. CASE k \notin ev.once
      BY <1>1, <1>4, <1>8, <1>10, <2>1, <3>1, <3>2 DEF Resolved
    <3>3. CASE k \in ev.once
      <4>1. Exists(props[k]) /\ (props[k].op = "set_once" => props[k].time <= ts)
        BY <1>5, <1>11, <1>14, <3>3 DEF OnceApplies, Entries
      <4>2. QED
        BY <1>1, <1>4, <1>6, <1>8, <1>10, <1>11, <2>1, <3>1, <3>3, <4>1
        DEF Resolved, Exists, Absent, Written
    <3>4. QED  BY <3>2, <3>3
  <2>4. QED  BY <2>2, <2>3
<1>15. QED  BY <1>12, <1>13, <1>14

-----------------------------------------------------------------------------
LEMMA InitInv == Init => IInv
<1> SUFFICES ASSUME Init PROVE IInv
  OBVIOUS
<1> USE DEF Init
<1>1. Epoch = 0 /\ Unstamped.by \notin Events /\ Absent.by \notin Events
  BY EventsOK DEF Epoch, Unstamped, Absent, Written
<1>2. \A k \in Keys : props[k] = IF k \in before THEN Unstamped ELSE Absent
  OBVIOUS
<1>3. props \in [Keys -> Entries]  BY AbsentType
<1>4. TypeOK
  <2>1. event \in [Events -> EventType]  BY EventsOK
  <2>2. creator \in Events \cup {NoEvent, Before} /\ locking \in BOOLEAN /\ before \in SUBSET Keys  OBVIOUS
  <2>3. seen \in BOOLEAN  BY DEF exists
  <2>4. pc \in [Events -> {"isNewPerson", "countIds", "createPerson", "fetchPerson",
                          "updatePerson", "stored", "failed"}]
    OBVIOUS
  <2>5. fetched \in [Events -> [Keys -> Entries]]  BY NoPropsType
  <2>7. \A k \in Keys : locking /\ props[k].by \in Events => props[k].time \in Stamps
    BY <1>1, <1>2
  <2>8. rowLock \in Events \cup {NoLock}  OBVIOUS
  <2>9. QED  BY <1>3, <2>1, <2>2, <2>3, <2>4, <2>5, <2>7, <2>8 DEF TypeOK
<1>5. ReadIsCurrent  BY DEF ReadIsCurrent
<1>6. Stored = {}  BY DEF Stored
<1>7. Creation /\ Unborn /\ Found
  BY <1>6, EventsOK DEF Creation, Unborn, Found, NoProps, exists
<1>8. PropertiesResolved
  BY <1>2, <1>6 DEF PropertiesResolved, Resolved, Setting, SettingOnce
<1>9. QED  BY <1>4, <1>5, <1>7, <1>8 DEF IInv

\* The steps that write no property, creating a person that is already there among them.
LEMMA ReadingStep ==
    ASSUME IInv, NEW e \in Events,
           \/ IsNewPerson(e) \/ CountIds(e) \/ NoPersonFound(e)
           \/ FetchForUpdate(e) \/ Fetch(e)
           \/ CreatePerson(e) /\ exists
    PROVE  IInv'
<1> USE DEF IsNewPerson, CountIds, NoPersonFound, FetchForUpdate, Fetch, CreatePerson,
            Goto, UpdateOrStore, RowFree
<1>1. TypeOK /\ ReadIsCurrent /\ Creation /\ Unborn /\ Found /\ PropertiesResolved  BY DEF IInv
<1>2. TypeOK'
  <2>1. CASE IsNewPerson(e)  BY <1>1, <2>1 DEF TypeOK
  <2>2. CASE CountIds(e)  BY <1>1, <2>2 DEF TypeOK
  <2>3. CASE NoPersonFound(e)  BY <1>1, <2>3 DEF TypeOK
  <2>4. CASE FetchForUpdate(e)  BY <1>1, <2>4 DEF TypeOK
  <2>5. CASE Fetch(e)  BY <1>1, <2>5 DEF TypeOK
  <2>6. CASE CreatePerson(e) /\ exists  BY <1>1, <2>6 DEF TypeOK
  <2>7. QED  BY <2>1, <2>2, <2>3, <2>4, <2>5, <2>6
<1>3. ReadIsCurrent'  BY <1>1, EventsOK DEF ReadIsCurrent, TypeOK, exists
<1>4. \A d \in Events : d # e => pc'[d] = pc[d]  BY <1>1 DEF TypeOK
<1>5. Creation'  BY <1>1, <1>4 DEF Creation
<1>6. pc[e] # "stored" /\ UNCHANGED <<event, before, locking, creator, props>>  OBVIOUS
<1>7. pc'[e] = "stored" => ~HasProperties(e) \/ (exists /\ ~locking)
  BY <1>1 DEF TypeOK
<1>8. Unborn'
  <2>1. ASSUME ~exists, NEW d \in Events, pc'[d] = "stored" PROVE ~HasProperties(d)
    BY <1>1, <1>4, <1>7, <2>1 DEF Unborn, Stored
  <2>2. QED  BY <1>1, <1>6, <2>1 DEF Unborn, Stored, exists, HasProperties
<1>9. Found'  BY <1>1, <1>4, EventsOK DEF Found, TypeOK, exists
<1>10. PropertiesResolved'
  <2>1. CASE locking
    <3>1. Stored' = Stored \/ (Stored' = Stored \cup {e} /\ ~HasProperties(e))
      BY <1>4, <1>6, <1>7, <2>1 DEF Stored
    <3>2. \A k \in Keys : UNCHANGED <<Setting(k), SettingOnce(k)>>
      BY <1>6, <3>1 DEF Setting, SettingOnce, HasProperties
    <3>3. QED  BY <1>1, <1>6, <3>2, ResolvedUnchanged
  <2>2. QED  BY <1>6, <2>1 DEF PropertiesResolved
<1>11. QED  BY <1>2, <1>3, <1>5, <1>8, <1>9, <1>10 DEF IInv

\* createPerson writes the first properties.
LEMMA CreatePersonStep == ASSUME IInv, NEW e \in Events, CreatePerson(e), ~exists PROVE IInv'
<1> USE DEF CreatePerson, Goto, UpdateOrStore
<1>1. TypeOK /\ ReadIsCurrent /\ Creation /\ Unborn /\ Found /\ PropertiesResolved  BY DEF IInv
<1>2. event[e].sentAt \in Stamps  BY <1>1, EventFields
<1>3. CreatedWith(e) \in [Keys -> Entries]
  <2>1. /\ Written(e, "set", event[e].sentAt) \in Entries
        /\ Written(e, "set_once", event[e].sentAt) \in Entries
    BY <1>2, WrittenType DEF Operations, Stamps
  <2>2. QED  BY <2>1, AbsentType DEF CreatedWith
<1>4. \A k \in Keys : CreatedWith(e)[k].by \in Events => CreatedWith(e)[k].time \in Stamps
  BY <1>2, EventsOK DEF CreatedWith, Written, Absent
<1>5. TypeOK'  BY <1>1, <1>3, <1>4 DEF TypeOK
<1>6. creator' = e /\ e # NoEvent /\ e # Before  BY EventsOK
<1>7. ReadIsCurrent'  BY <1>1 DEF ReadIsCurrent, TypeOK
<1>8. Stored' = Stored \cup {e}  BY <1>1 DEF Stored, TypeOK
<1>9. Creation' /\ Unborn' /\ Found'
  BY <1>1, <1>6 DEF Creation, Unborn, Found, TypeOK, exists
<1>10. ASSUME NEW k \in Keys PROVE Resolved(k)'
  <2>1. \A d \in Stored : k \notin event[d].set \cup event[d].once
    BY <1>1 DEF Unborn, HasProperties
  <2>2. Setting(k)' = {d \in {e} : k \in event[e].set}
    BY <1>8, <2>1 DEF Setting
  <2>3. SettingOnce(k)' = {d \in {e} : k \in event[e].once}
    BY <1>8, <2>1 DEF SettingOnce
  <2>4. TimeOf(e)' = event[e].sentAt /\ event[e].sentAt \in Nat
    BY <1>2, <1>6 DEF TimeOf, Stamps
  <2>5. props'[k] = CreatedWith(e)[k] /\ k \notin before'  BY <1>1 DEF Unborn
  <2>6. QED  BY <2>2, <2>3, <2>4, <2>5 DEF Resolved, CreatedWith, Written
<1>11. QED  BY <1>5, <1>7, <1>9, <1>10 DEF IInv, PropertiesResolved

\* updatePersonProperties: the row it read is still the row it writes.
LEMMA UpdateUnderLockStep == ASSUME IInv, NEW e \in Events, UpdateUnderLock(e) PROVE IInv'
<1>1. TypeOK /\ ReadIsCurrent /\ Creation /\ Unborn /\ Found  BY DEF IInv
<1>2. event[e].timestamp \in Stamps  BY <1>1, EventFields
<1>3. fetched[e] = props /\ rowLock = e /\ exists
  BY <1>1 DEF UpdateUnderLock, ReadIsCurrent
<1> DEFINE updated == CalculateUpdate(props, e, event[e].set, event[e].once, event[e].timestamp)
<1>4. props' = updated  BY <1>3 DEF UpdateUnderLock
<1>5. updated \in [Keys -> Entries] /\ \A k \in Keys : updated[k] # props[k] => updated[k].time \in Stamps
  <2>1. props \in [Keys -> Entries]  BY <1>1 DEF TypeOK
  <2>2. /\ updated \in [Keys -> Entries]
        /\ \A k \in Keys : updated[k] # props[k] => updated[k].time = event[e].timestamp
    BY <1>2, <2>1, CalculateUpdateType
  <2>3. QED  BY <1>2, <2>2
<1> HIDE DEF updated
<1>6. TypeOK'
  BY <1>1, <1>2, <1>4, <1>5 DEF UpdateUnderLock, TypeOK, Goto, AfterUpdate, Stamps
<1>7. ReadIsCurrent'
  BY <1>1, <1>3 DEF UpdateUnderLock, ReadIsCurrent, TypeOK, Goto, AfterUpdate
<1>8. Creation'  BY <1>1 DEF UpdateUnderLock, Creation, TypeOK, Goto
<1>9. Unborn' /\ Found'
  BY <1>1, <1>3 DEF UpdateUnderLock, Unborn, Found, TypeOK, Goto, exists
<1>10. PropertiesResolved'
  <2>1. UpdateUnderLock(e) => locking /\ UNCHANGED locking  BY DEF UpdateUnderLock
  <2>2. QED  BY <2>1, ResolvedStep DEF PropertiesResolved
<1>11. QED  BY <1>6, <1>7, <1>8, <1>9, <1>10 DEF IInv

\* updatePersonPropertiesDeprecated: nothing is promised about its properties.
LEMMA UpdateStep == ASSUME IInv, NEW e \in Events, Update(e) PROVE IInv'
<1>1. TypeOK /\ ReadIsCurrent /\ Creation /\ Unborn /\ Found  BY DEF IInv
<1>2. ~locking /\ ~locking'  BY DEF Update
<1>3. props' \in [Keys -> Entries]
  <2>1. ASSUME NEW k \in Keys
        PROVE  [props[k] EXCEPT !.by = IF k \in Replaces(e) THEN e ELSE fetched[e][k].by] \in Entries
    <3>1. props[k] \in Entries /\ fetched[e] \in [Keys -> Entries]  BY <1>1 DEF TypeOK
    <3>2. fetched[e][k] \in Entries  BY <3>1
    <3>3. (IF k \in Replaces(e) THEN e ELSE fetched[e][k].by) \in Events \cup {NoEvent, Before}
      BY <3>2 DEF Entries
    <3>4. QED  BY <3>1, <3>3 DEF Entries
  <2>2. QED  BY <2>1 DEF Update
<1>4. TypeOK'  BY <1>1, <1>2, <1>3 DEF Update, TypeOK, Goto
<1>5. exists /\ UNCHANGED creator  BY <1>1 DEF Update, ReadIsCurrent
<1>6. ReadIsCurrent'  BY <1>1, <1>2, <1>5 DEF ReadIsCurrent, Update, TypeOK, Goto, exists
<1>7. Creation' /\ Unborn' /\ Found'
  BY <1>1, <1>5 DEF Creation, Unborn, Found, TypeOK, Update, Goto, exists
<1>8. PropertiesResolved'  BY <1>2 DEF PropertiesResolved
<1>9. QED  BY <1>4, <1>6, <1>7, <1>8 DEF IInv

LEMMA NextInv == IInv /\ [Next]_vars => IInv'
<1> SUFFICES ASSUME IInv, [Next]_vars PROVE IInv'
  OBVIOUS
<1>1. CASE UNCHANGED vars
  <2>1. TypeOK' /\ ReadIsCurrent'  BY <1>1 DEF vars, IInv, TypeOK, ReadIsCurrent, exists
  <2>2. Creation' /\ Unborn' /\ Found'
    BY <1>1 DEF vars, IInv, Creation, Unborn, Found, Stored, HasProperties, exists
  <2>3. \A k \in Keys : UNCHANGED <<Setting(k), SettingOnce(k)>>
    BY <1>1 DEF vars, Setting, SettingOnce, Stored
  <2>4. PropertiesResolved'  BY <1>1, <2>3, ResolvedUnchanged DEF vars, IInv
  <2>5. QED  BY <2>1, <2>2, <2>4 DEF IInv
<1>2. ASSUME NEW e \in Events, EventStep(e) PROVE IInv'
  <2>1. CASE CreatePerson(e)
    BY <2>1, ReadingStep, CreatePersonStep
  <2>2. CASE UpdateUnderLock(e)
    BY <2>2, UpdateUnderLockStep
  <2>3. CASE Update(e)
    BY <2>3, UpdateStep
  <2>4. CASE IsNewPerson(e) \/ CountIds(e) \/ NoPersonFound(e) \/ FetchForUpdate(e) \/ Fetch(e)
    BY <2>4, ReadingStep
  <2>5. QED  BY <1>2, <2>1, <2>2, <2>3, <2>4 DEF EventStep
<1>3. QED  BY <1>1, <1>2 DEF Next, AllHandled

THEOREM InductiveInvariant == Spec => []IInv
BY InitInv, NextInv, PTL DEF Spec

\* Every variable keeps its type.
THEOREM TypeCorrect == Spec => []TypeOK
BY InductiveInvariant, PTL DEF IInv

\* A row locked with FOR UPDATE does not change under the update computed from it.
THEOREM ReadStaysCurrent == Spec => []ReadIsCurrent
BY InductiveInvariant, PTL DEF IInv

\* The latest $set wins, else the earliest $set_once, in whatever order any number
\* of events is handled.
THEOREM OrderDoesNotMatter == Spec => []PropertiesResolved
BY InductiveInvariant, PTL DEF IInv
-----------------------------------------------------------------------------
(* What is stored in the end *)

\* Of the events in a set, one with the latest, and one with the earliest timestamp.
Latest(S) == CHOOSE e \in S : \A d \in S : event[d].timestamp <= event[e].timestamp
Earliest(S) == CHOOSE e \in S : \A d \in S : event[d].timestamp >= event[e].timestamp

Setters(k) == {e \in Events : k \in event[e].set}
OnceSetters(k) == {e \in Events : k \in event[e].once}

\* What becomes of a property, from the events and from what was there before alone:
\* neither of them changes, and nothing here depends on how the events are handled.
Final(k) ==
    IF Setters(k) # {} THEN Written(Latest(Setters(k)), "set", event[Latest(Setters(k))].timestamp)
    ELSE IF k \in before THEN Unstamped
    ELSE IF OnceSetters(k) # {}
         THEN Written(Earliest(OnceSetters(k)), "set_once", event[Earliest(OnceSetters(k))].timestamp)
    ELSE Absent

\* No two events that write the property have the same timestamp.
NoTies(k) ==
    \A d, e \in Setters(k) \cup OnceSetters(k) : event[d].timestamp = event[e].timestamp => d = e

\* For a person that existed before the events, every schedule of the tasks ends with
\* the same properties: the same operations and times always, and the same values
\* unless timestamps tie.  (For a new person this fails: the event that creates it
\* counts with its sent_at, and which event that is depends on the schedule.)
SameOutcome ==
    locking /\ creator = Before /\ (\A e \in Events : Handled(e)) =>
       \A k \in Keys : /\ props[k].op = Final(k).op /\ props[k].time = Final(k).time
                       /\ NoTies(k) => props[k] = Final(k)

\* The winner among all events is the one that calculateUpdate's comparisons leave.
LEMMA ResolvedIsFinal ==
    ASSUME IInv, NEW k \in Keys, Resolved(k), creator = Before, \A e \in Events : Handled(e)
    PROVE  /\ props[k].op = Final(k).op /\ props[k].time = Final(k).time
           /\ NoTies(k) => props[k] = Final(k)
<1>1. Stored = Events  BY DEF IInv, Found, Handled, Stored
<1>2. Setting(k) = Setters(k) /\ SettingOnce(k) = OnceSetters(k)
  BY <1>1 DEF Setting, SettingOnce, Setters, OnceSetters
<1>3. \A e \in Events : TimeOf(e) = event[e].timestamp /\ event[e].timestamp \in Nat
  BY EventsOK, EventFields DEF IInv, TimeOf, Stamps
<1>4. Setters(k) \subseteq Events /\ OnceSetters(k) \subseteq Events
  BY DEF Setters, OnceSetters
<1>5. props[k] = Written(props[k].by, props[k].op, props[k].time)
  BY DEF IInv, TypeOK, Entries, Written
<1>6. CASE Setters(k) # {}
  <2> DEFINE last == Latest(Setters(k))
  <2>1. /\ props[k].op = "set" /\ props[k].by \in Setters(k)
        /\ props[k].time = event[props[k].by].timestamp
        /\ \A d \in Setters(k) : event[d].timestamp <= event[props[k].by].timestamp
    BY <1>2, <1>3, <1>4, <1>6 DEF Resolved
  <2>2. last \in Setters(k) /\ \A d \in Setters(k) : event[d].timestamp <= event[last].timestamp
    BY <2>1, Zenon DEF Latest
  <2> HIDE DEF last
  <2>3. event[last].timestamp = props[k].time  BY <1>3, <1>4, <2>1, <2>2
  <2>4. Final(k) = Written(last, "set", event[last].timestamp)  BY <1>6 DEF Final, last
  <2>5. NoTies(k) => props[k].by = last  BY <2>1, <2>2, <2>3 DEF NoTies
  <2>6. QED  BY <1>5, <2>1, <2>3, <2>4, <2>5 DEF Written
<1>7. CASE Setters(k) = {} /\ k \in before
  BY <1>2, <1>7 DEF Resolved, Final
<1>8. CASE Setters(k) = {} /\ k \notin before /\ OnceSetters(k) # {}
  <2> DEFINE first == Earliest(OnceSetters(k))
  <2>1. /\ props[k].op = "set_once" /\ props[k].by \in OnceSetters(k)
        /\ props[k].time = event[props[k].by].timestamp
        /\ \A d \in OnceSetters(k) : event[d].timestamp >= event[props[k].by].timestamp
    BY <1>2, <1>3, <1>4, <1>8 DEF Resolved
  <2>2. first \in OnceSetters(k)
        /\ \A d \in OnceSetters(k) : event[d].timestamp >= event[first].timestamp
    BY <2>1, Zenon DEF Earliest
  <2> HIDE DEF first
  <2>3. event[first].timestamp = props[k].time  BY <1>3, <1>4, <2>1, <2>2
  <2>4. Final(k) = Written(first, "set_once", event[first].timestamp)
    BY <1>8 DEF Final, first
  <2>5. NoTies(k) => props[k].by = first  BY <2>1, <2>2, <2>3 DEF NoTies
  <2>6. QED  BY <1>5, <2>1, <2>3, <2>4, <2>5 DEF Written
<1>9. CASE Setters(k) = {} /\ k \notin before /\ OnceSetters(k) = {}
  BY <1>2, <1>9 DEF Resolved, Final
<1>10. QED  BY <1>6, <1>7, <1>8, <1>9

\* What a team with locking stores of a person that existed is a function of the events.
THEOREM Determined == Spec => []SameOutcome
<1>1. IInv => SameOutcome
  BY ResolvedIsFinal DEF SameOutcome, IInv, PropertiesResolved
<1>2. QED  BY <1>1, InductiveInvariant, PTL
=============================================================================
