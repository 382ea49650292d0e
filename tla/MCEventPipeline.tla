--------------------------- MODULE MCEventPipeline ---------------------------
(* Small instances of EventPipeline for TLC. *)
EXTENDS EventPipeline

\* With one slot and a threshold of one the first two messages find too few tasks
\* waiting to pause the queue; each later one may, as may the end of each processEvent,
\* and a resume starts one loop.
ASSUME LoopsSuffice ==
    \A load \in Loads :
        Cardinality(Loops) > Cardinality(Messages) - 2
                             + Cardinality({m \in Messages : load[m] = "event"})

EventsOnly == [Messages -> {"event"}]

\* Events that overlap in every way, and snapshots, each with a job that is still in the
\* list when they have paused the queue; a message that ends a loop among others.
SomeLoads ==
    {<<"event", "event", "job", "job">>, <<"job", "snapshot", "snapshot", "job">>,
     <<"event", "bad", "event", "job">>}
=============================================================================
