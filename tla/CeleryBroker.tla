----------------------------- MODULE CeleryBroker -----------------------------
(***************************************************************************)
(* The Broker of the plugin server's main thread (utils/celery/broker.ts): *)
(* receive loops that BRPOP messages from a Redis list and hand them to a  *)
(* callback, and the operations that pause, resume and disconnect them.    *)
(*                                                                         *)
(* The code between two awaits runs alone on the thread, so the module     *)
(* gives one operator for each of these stretches; EventPipeline composes  *)
(* them with what the callback does.  One subscription, as CeleryQueue has *)
(* it.                                                                     *)
(***************************************************************************)
EXTENDS Naturals, Sequences, FiniteSets

CONSTANTS Messages,   \* 1 .. N, in the order in which they are pushed
          Loops,      \* identifies the promises of channels; an ended loop's is used again
          Fragile     \* the loops whose BRPOP may fail

ASSUME BrokerConstants ==
    /\ Messages \subseteq Nat
    /\ Loops \subseteq Nat
    /\ Fragile \subseteq Loops

VARIABLES
    list,               \* the Redis list, next message first
    loop,               \* what the receive loop behind each promise is doing
    channels,           \* Broker.channels
    paused, closing,    \* Broker.paused, Broker.closing
    awaited             \* the channels disconnect's Promise.all waits for

broker == <<list, loop, channels, paused, closing, awaited>>

\* A loop waits for its next tick (or the 50 ms of receiveSlow), or for BRPOP.
\* One that resolved its promise is "off"; one that met an error in receiveOne
\* or in the callback is "dead", and its promise is never settled.
LoopStates == {"off", "tick", "brpop", "dead"}

BrokerType ==
    /\ list \in Seq(Messages)
    /\ loop \in [Loops -> LoopStates]
    /\ channels \in SUBSET Loops
    /\ paused \in BOOLEAN
    /\ closing \in BOOLEAN
    /\ awaited \in SUBSET Loops

\* Nothing refers to the promise any more.
FreeLoops == {l \in Loops \ (channels \cup awaited) : loop[l] = "off"}

\* new Promise((resolve) => this.receiveFast(...)), on the first free identifier.
NewLoop(l) == l \in FreeLoops /\ \A k \in FreeLoops : l <= k

BrokerInit ==
    /\ list = <<>>
    /\ \E l \in Loops :
          /\ \A k \in Loops : l <= k
          /\ loop = [k \in Loops |-> IF k = l THEN "tick" ELSE "off"]
          /\ channels = {l}
    /\ paused = FALSE
    /\ closing = FALSE
    /\ awaited = {}

-----------------------------------------------------------------------------
\* The stretches of receiveOneOnNextTick: up to the await of BRPOP, ...
Tick(l) ==
    /\ loop[l] = "tick"
    /\ loop' = [loop EXCEPT ![l] = IF closing \/ paused THEN "off" ELSE "brpop"]
    /\ UNCHANGED <<list, channels, paused, closing, awaited>>

\* ... after five seconds without a message, ...
ReceiveNothing(l) ==
    /\ loop[l] = "brpop"
    /\ list = <<>>
    /\ loop' = [loop EXCEPT ![l] = "tick"]
    /\ UNCHANGED <<list, channels, paused, closing, awaited>>

\* ... when it fails, which the catch block only logs, ...
ReceiveFails(l) ==
    /\ l \in Fragile
    /\ loop[l] = "brpop"
    /\ loop' = [loop EXCEPT ![l] = "dead"]
    /\ UNCHANGED <<list, channels, paused, closing, awaited>>

\* ... and with one: whatever paused and closing say by now, the message has left
\* the list and the callback runs.
Receives(l, m) ==
    /\ loop[l] = "brpop"
    /\ list # <<>>
    /\ m = Head(list)
    /\ list' = Tail(list)

\* Neither caller in the code waits for the promise that pause returns.
Pause ==
    /\ paused' = TRUE
    /\ channels' = IF paused THEN channels ELSE {}

\* Mutants of Resume: the loops are expected to have survived; paused stays set.
ResumeWithoutLoop ==
    /\ paused' = FALSE
    /\ UNCHANGED <<loop, channels>>
ResumeStillPaused == UNCHANGED <<paused, loop, channels>>

Resume ==
    \/ /\ paused
       /\ paused' = FALSE
       /\ \E l \in Loops :
             /\ NewLoop(l)
             /\ loop' = [loop EXCEPT ![l] = "tick"]
             /\ channels' = channels \cup {l}
    \/ /\ ~paused
       /\ UNCHANGED <<paused, loop, channels>>

\* Mutant of Disconnect: the loops are not told.
DisconnectQuietly ==
    /\ awaited' = channels
    /\ UNCHANGED <<list, loop, channels, paused, closing>>

Disconnect ==
    /\ closing' = TRUE
    /\ awaited' = channels
    /\ UNCHANGED <<list, loop, channels, paused>>

Disconnected == \A l \in awaited : loop[l] = "off"
=============================================================================
