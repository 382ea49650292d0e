------------------------ MODULE MCPersonProperties ------------------------
(* Small instances of PersonProperties for TLC. *)
EXTENDS PersonProperties

CONSTANTS k1, e1, e2, e3

\* Three events on one key, in any combination of $set and $set_once.  Their
\* timestamps are in order, with and without ties (the events are interchangeable,
\* and are handled in every order); sent_at is the earliest or the latest of them.
Kinds == {<<{k1}, {}>>, <<{}, {k1}>>, <<{k1}, {k1}>>}
Orders == {[e \in Events |-> IF e = e1 THEN 1 ELSE IF e = e2 THEN second ELSE third] :
              second \in 1 .. 2, third \in 2 .. 3}
AnyThree ==
    {[e \in Events |-> [set |-> kind[e][1], once |-> kind[e][2],
                        timestamp |-> ts[e], sentAt |-> sent]] :
        kind \in [Events -> Kinds], ts \in Orders, sent \in {1, 3}}
=============================================================================
