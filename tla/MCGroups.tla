----------------------------- MODULE MCGroups -----------------------------
(* Small instances of Groups for TLC. *)
EXTENDS Groups

CONSTANTS k1, g1, a, b, c, w1, w2, e1, e2, e3

\* Two tasks of one worker and one of another.
TwoWorkers == [e \in Events |-> IF e = e3 THEN w2 ELSE w1]

Event(types, key, set, ts) == [types |-> types, key |-> key, set |-> set, timestamp |-> ts]

\* Events with one or two groups, of more group types than there are indexes; the
\* workers, and the tasks of one worker, are given the same types or different ones.
TypesOf(types1, types2, types3) ==
    [e \in Events |-> IF e = e1 THEN types1 ELSE IF e = e2 THEN types2 ELSE types3]
Mentions == {[e \in Events |-> Event(TypesOf(s1, s2, s3)[e], NoKey, {}, 1)] :
                s1 \in {<<a>>, <<a, b>>}, s2 \in {<<b>>, <<a, b>>},
                s3 \in {<<b>>, <<b, c>>, <<c>>}}

\* $groupidentify events, of the same group or not, with and without properties, in
\* any order of their timestamps and with ties.
Identifies == {[e \in Events |-> Event(types[e], g1, set[e], ts[e])] :
                  types \in [Events -> {<<a>>, <<b>>}],
                  set \in {[e \in Events |-> {k1}], [e \in Events |-> IF e = e2 THEN {} ELSE {k1}]},
                  ts \in [Events -> 1 .. 2]}
Both == Mentions \cup Identifies
===========================================================================
