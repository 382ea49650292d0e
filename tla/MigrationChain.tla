---------------------------- MODULE MigrationChain ----------------------------
(***************************************************************************)
(* What the chain of async migrations promises, whoever starts, stops,     *)
(* repeats or rolls back what: the operations of a migration are reached   *)
(* one after the other, the first one only when the migration before it    *)
(* has been completed, and a required migration is completed only when all *)
(* of them have been reached.                                              *)
(***************************************************************************)
EXTENDS Naturals

CONSTANTS Last,         \* the migrations are 1 .. Last, each depends on the one before
          Length,       \* the number of operations of each
          Needed        \* the migrations this instance requires

VARIABLES reached,      \* how many operations of a migration have ever been executed
          completed     \* the migrations that have ever been completed

Chain == 1 .. Last

ChainInit ==
    /\ reached = [m \in Chain |-> 0]
    /\ completed = {}

Reach(m) ==
    /\ m = 1 \/ m - 1 \in completed
    /\ reached[m] < Length[m]
    /\ reached' = [reached EXCEPT ![m] = @ + 1]
    /\ UNCHANGED completed

Complete(m) ==
    /\ m \in Needed => reached[m] = Length[m]
    /\ completed' = completed \cup {m}
    /\ UNCHANGED reached

ChainNext == \E m \in Chain : Reach(m) \/ Complete(m)

ChainSpec == ChainInit /\ [][ChainNext]_<<reached, completed>>
=============================================================================
