-------------------------- MODULE PropertyUpdates --------------------------
(***************************************************************************)
(* calculateUpdate of properties-updater.ts: how the $set and $set_once of *)
(* an event change the properties of a person or a group.                  *)
(*                                                                         *)
(* A property is kept with its metadata: the event that wrote its value,   *)
(* properties_last_operation and properties_last_updated_at.  A property   *)
(* without metadata counts as set at the epoch, and so does the metadata   *)
(* of a property that does not exist.                                      *)
(***************************************************************************)
EXTENDS Naturals

CONSTANTS Keys, Events, NoEvent, Before

Epoch == 0
Stamps == Nat \ {Epoch}

Operations == {"set", "set_once"}
Entries == [by : Events \cup {NoEvent, Before}, op : Operations, time : Nat]

\* Mutant of Written: the value is written without its metadata.
WrittenWithoutTime(e, op, time) == [by |-> e, op |-> "set", time |-> Epoch]

Written(e, op, time) == [by |-> e, op |-> op, time |-> time]
Absent == Written(NoEvent, "set", Epoch)
\* A property that was there before any metadata was kept.
Unstamped == Written(Before, "set", Epoch)

Exists(entry) == entry.by # NoEvent

OnceApplies(entry, ts) == ~Exists(entry) \/ (entry.op = "set_once" /\ entry.time > ts)

\* Mutant of SetApplies: a $set does not take precedence over a later $set_once.
SetAppliesByTime(entry, writtenOnce, ts) ==
    (~Exists(entry) /\ ~writtenOnce) \/ entry.time < ts

\* entry is the property before the update; writtenOnce says that the update's
\* own $set_once has just created or replaced it.
SetApplies(entry, writtenOnce, ts) ==
    \/ ~Exists(entry) /\ ~writtenOnce
    \/ entry.op = "set_once"
    \/ entry.time < ts

\* The properties after event e, with timestamp ts, has set the keys of set and
\* set_once the keys of once.
CalculateUpdate(props, e, set, once, ts) ==
    [k \in Keys |->
        LET writtenOnce == k \in once /\ OnceApplies(props[k], ts)
        IN IF k \in set /\ SetApplies(props[k], writtenOnce, ts) THEN Written(e, "set", ts)
           ELSE IF writtenOnce THEN Written(e, "set_once", ts)
           ELSE props[k]]
=============================================================================
