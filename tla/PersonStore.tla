---------------------------- MODULE PersonStore ----------------------------
(***************************************************************************)
(* What the person tables promise to the rest of PostHog: every distinct   *)
(* id that has been seen belongs to one person, a person exists for as     *)
(* long as it has distinct ids, and persons only ever grow together.       *)
(* Each operation is one atomic step; PersonIdentity shows that the        *)
(* statements, locks, races and retries of the plugin server's alias and   *)
(* merge code amount to these steps.                                       *)
(***************************************************************************)
CONSTANTS DistinctIds, Persons, NoPerson

VARIABLES
    persons,     \* rows of posthog_person
    identified,  \* the persons whose is_identified is true
    personOf     \* posthog_persondistinctid: distinct id -> person

storeVars == <<persons, identified, personOf>>

StoreType ==
    /\ persons \subseteq Persons
    /\ identified \subseteq persons
    /\ personOf \in [DistinctIds -> Persons \cup {NoPerson}]

\* The foreign key of posthog_persondistinctid: a distinct id is assigned to
\* an existing person.
References == \A d \in DistinctIds : personOf[d] # NoPerson => personOf[d] \in persons

\* No person is left behind without a distinct id: nothing could reach it.
NoOrphans == \A p \in persons : \E d \in DistinctIds : personOf[d] = p

Consistent == StoreType /\ References /\ NoOrphans

-----------------------------------------------------------------------------
\* A new person appears with all of its distinct ids at once.
Create(p, ids) ==
    /\ p \in Persons \ persons
    /\ ids # {}
    /\ \A d \in ids : personOf[d] = NoPerson
    /\ persons' = persons \cup {p}
    /\ identified' \in {identified, identified \cup {p}}
    /\ personOf' = [d \in DistinctIds |-> IF d \in ids THEN p ELSE personOf[d]]

\* A new distinct id joins an existing person.
Attach(p, d) ==
    /\ p \in persons
    /\ personOf[d] = NoPerson
    /\ personOf' = [personOf EXCEPT ![d] = p]
    /\ UNCHANGED <<persons, identified>>

\* Every distinct id of source moves to target, and source disappears.
Merge(source, target) ==
    /\ source \in persons
    /\ target \in persons \ {source}
    /\ persons' = persons \ {source}
    /\ identified' \in {(identified \ {source}) \cup {target},
                        identified \ {source, target}}
    /\ personOf' = [d \in DistinctIds |->
                      IF personOf[d] = source THEN target ELSE personOf[d]]

Identify(p) ==
    /\ p \in persons
    /\ identified' = identified \cup {p}
    /\ UNCHANGED <<persons, personOf>>

Next ==
    \/ \E p \in Persons, ids \in SUBSET DistinctIds : Create(p, ids)
    \/ \E p \in Persons, d \in DistinctIds : Attach(p, d)
    \/ \E p, q \in Persons : Merge(p, q)
    \/ \E p \in Persons : Identify(p)

Spec == Consistent /\ [][Next]_storeVars

-----------------------------------------------------------------------------
\* Distinct ids that once belonged to the same person belong to the same
\* person ever after (nothing but an explicit split, which Django does, may
\* tear them apart), and an assigned distinct id never becomes unassigned.
Together(d, e) == personOf[d] = personOf[e] /\ personOf[d] # NoPerson

NeverSplit ==
    [][\A d, e \in DistinctIds : Together(d, e) => Together(d, e)']_storeVars
=============================================================================
