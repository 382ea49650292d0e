-------------------------- MODULE MCPersonIdentity --------------------------
(* Small instances of PersonIdentity for TLC. *)
EXTENDS PersonIdentity, TLC

CONSTANTS a, b, c, generic, w1, w2, t1, t2, t3, t4

Alias(prev, id) == [event |-> "$create_alias", prev |-> prev, id |-> id, worker |-> w1]
Identify(prev, id) == [event |-> "$identify", prev |-> prev, id |-> id, worker |-> w1]
Plain(id, w) == [event |-> "other", prev |-> id, id |-> id, worker |-> w]

Together3(j1, j2, j3) == (t1 :> j1) @@ (t2 :> j2) @@ (t3 :> j3)

\* Merges that chain and close a ring, an $identify among them.
RingOfMerges == {Together3(Alias(a, b), Alias(b, c), Identify(c, a))}

\* Merges, or creations, of the same two distinct ids in opposite orders, while an
\* event on the other worker needs one of them.
Crossing == {Together3(Identify(a, b), Alias(b, a), Plain(b, w2))}

\* Two merges of one person into different persons.
SameSource == {Together3(Alias(a, b), Identify(a, c), Plain(a, w1))}

\* Plain events of one distinct id, one behind the other's isNewPerson, while an
\* $identify gives it a person or is refused.
PlainEvents ==
    {Together3(Plain(a, w1), Plain(a, w1), j) : j \in {Identify(a, b), Identify(a, generic)}}

AllScenarios == RingOfMerges \cup Crossing \cup SameSource \cup PlainEvents

\* Empty tables, and tables where each distinct id of ids has a person of its
\* own (one assignment of persons for each: they are interchangeable).
Alone(ids) ==
    CHOOSE owner \in [DistinctIds -> Persons \cup {NoPerson}] :
        /\ \A d \in DistinctIds : owner[d] # NoPerson <=> d \in ids
        /\ \A d, e \in ids : d # e => owner[d] # owner[e]
Strangers == {Alone({a, b, c})}
SomeStrangers == {Alone({}), Alone({a, b}), Alone({a, b, c})}

\* An $identify that reads its anonymous person while another $identify is about
\* to identify that person.
TwoIdentifies == {(t1 :> Identify(a, b)) @@ (t2 :> Identify(c, a))}

\* Two pairs of crossing merges over the same two persons, on two workers.
On(j, w) == [j EXCEPT !.worker = w]
TwoPairs ==
    {(t1 :> Alias(a, b)) @@ (t2 :> Alias(a, b))
        @@ (t3 :> On(Alias(b, a), w2)) @@ (t4 :> On(Alias(b, a), w2))}
=============================================================================
