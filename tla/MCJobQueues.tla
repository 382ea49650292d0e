----------------------------- MODULE MCJobQueues -----------------------------
(* Small instances of JobQueues for TLC. *)
EXTENDS JobQueues

CONSTANTS s1, s2

\* Two servers with either queue, one with both.
SomeDeployments ==
    {[queues |-> {q}, servers |-> {s1, s2}] : q \in {"graphile", "s3"}}
    \cup {[queues |-> {"graphile", "s3"}, servers |-> {s2}]}
=============================================================================
