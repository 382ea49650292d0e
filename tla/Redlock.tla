-------------------------------- MODULE Redlock --------------------------------
(***************************************************************************)
(* startRedlock: the servers of a cluster compete for one key in Redis     *)
(* with a time to live.  A server tries to get the key, extends it at half *)
(* of its time to live, and releases it when it is stopped.  One step is a *)
(* command in Redis, or the code between two awaits or timers.             *)
(*                                                                         *)
(* External: the redlock library makes a LockError of every failure, the   *)
(* lost connection included, and releases a key by comparing its value;    *)
(* the commands of one connection are executed and answered in order.      *)
(***************************************************************************)
EXTENDS Naturals, FiniteSets

CONSTANTS Servers,
          Faulty,       \* servers that may be late to extend the lock, or be cut off Redis
          NoServer

ASSUME RedlockConstants == Faulty \subseteq Servers /\ NoServer \notin Servers

VARIABLES
    key,        \* the server whose lock is in Redis, or NoServer
    token,      \* per server, what carries the value of its key: the variable lock,
                \* the unlock command sent
    stage,      \* per server: timers and commands of tryToGetTheLock, extendLock
    stop,       \* per server: how far its stop is
    late        \* history: servers whose key expired since they last got it

redlockVars == <<key, token, stage, stop, late>>

Carriers == {"lock", "unlock"}
LockStages == {"waiting", "locking", "granted", "holding", "extending", "off"}
StopStages == {"up", "unlocking", "quitting", "closed", "stopped", "aborted", "dead"}

RedlockType ==
    /\ key \in Servers \cup {NoServer}
    /\ token \in [Servers -> SUBSET Carriers]
    /\ stage \in [Servers -> LockStages]
    /\ stop \in [Servers -> StopStages]
    /\ late \in SUBSET Servers

RedlockInit ==
    /\ key = NoServer
    /\ token = [s \in Servers |-> {}]
    /\ stage = [s \in Servers |-> "waiting"]
    /\ stop = [s \in Servers |-> "up"]
    /\ late = {}

Up(s) == stop[s] = "up"
At(s, l) == stage' = [stage EXCEPT ![s] = l]
StopAt(s, l) == stop' = [stop EXCEPT ![s] = l]

\* A timer is set, or nothing more happens when the server has been stopped.
Then(s, l) == At(s, IF Up(s) THEN l ELSE "off")

-----------------------------------------------------------------------------
(* Getting the lock *)

\* The timer of tryToGetTheLock, which does not ask whether the server was stopped.
TryLock(s) ==
    /\ stage[s] = "waiting"
    /\ stop[s] \in {"up", "quitting"}
    /\ At(s, "locking")
    /\ UNCHANGED <<key, token, stop, late>>

\* Mutant of KeyFree: SET without NX.
KeyTaken == TRUE

KeyFree == key = NoServer

Grant(s) ==
    /\ stage[s] = "locking"
    /\ KeyFree
    /\ key' = s
    /\ token' = [token EXCEPT ![s] = {}]
    /\ late' = late \ {s}
    /\ At(s, "granted")
    /\ UNCHANGED stop

\* Mutant of Refuse: only the first attempt counts.
RefuseForGood(s) ==
    /\ stage[s] = "locking"
    /\ ~KeyFree \/ s \in Faulty
    /\ At(s, "off")
    /\ UNCHANGED <<key, token, stop, late>>

\* LockError: again after a tenth of the time to live.
Refuse(s) ==
    /\ stage[s] = "locking"
    /\ ~KeyFree \/ s \in Faulty
    /\ Then(s, "waiting")
    /\ UNCHANGED <<key, token, stop, late>>

\* The answer is lost: an error for the server, the key stays.
LoseReply(s) ==
    /\ stage[s] = "granted"
    /\ s \in Faulty
    /\ Then(s, "waiting")
    /\ UNCHANGED <<key, token, stop, late>>

\* The answer; the key may have expired on the way.  onLock is called, also after
\* a stop.
GotLock(s) ==
    /\ stage[s] = "granted"
    /\ token' = IF key = s THEN [token EXCEPT ![s] = @ \cup {"lock"}] ELSE token
    /\ Then(s, "holding")
    /\ UNCHANGED <<key, stop, late>>

\* extendLock.
ExtendStart(s) ==
    /\ stage[s] = "holding"
    /\ At(s, "extending")
    /\ UNCHANGED <<key, token, stop, late>>

Extended(s) ==
    /\ stage[s] = "extending"
    /\ "lock" \in token[s]
    /\ Then(s, "holding")
    /\ UNCHANGED <<key, token, stop, late>>

\* tryToGetTheLock again; onUnlock is not called.
ExtendFails(s) ==
    /\ stage[s] = "extending"
    /\ "lock" \notin token[s] \/ s \in Faulty
    /\ At(s, "waiting")
    /\ UNCHANGED <<key, token, stop, late>>

\* Nobody extends or releases the key: its server is dead, has been stopped before
\* it knew of the lock, or does not know of it.
Abandoned ==
    /\ key # NoServer
    /\ stage[key] \notin {"granted", "holding", "extending"}
    /\ stop[key] # "unlocking"

Expire ==
    /\ key # NoServer
    /\ Abandoned \/ key \in Faulty
    /\ late' = late \cup {key}
    /\ token' = [token EXCEPT ![key] = {}]
    /\ key' = NoServer
    /\ UNCHANGED <<stage, stop>>

-----------------------------------------------------------------------------
(* Stopping *)

\* The timer is cleared and lock.unlock called, with the lock of the moment.
StopLock(s) ==
    /\ Up(s)
    /\ StopAt(s, "unlocking")
    /\ At(s, IF stage[s] \in {"waiting", "holding"} THEN "off" ELSE stage[s])
    /\ token' = IF "lock" \in token[s]
                THEN [token EXCEPT ![s] = @ \cup {"unlock"}] ELSE token
    /\ UNCHANGED <<key, late>>

\* The unlock command comes after those sent before; it does nothing when the value
\* has changed.
Unlock(s) ==
    /\ stop[s] = "unlocking"
    /\ stage[s] \notin {"locking", "extending"}
    /\ IF "unlock" \in token[s]
       THEN key' = NoServer /\ token' = [token EXCEPT ![s] = {}]
       ELSE UNCHANGED <<key, token>>
    /\ StopAt(s, "quitting")
    /\ UNCHANGED <<stage, late>>

\* redis.quit, after the answers to the commands sent before; onUnlock is called.
Close(s) ==
    /\ stop[s] = "quitting"
    /\ stage[s] \in {"waiting", "off"}
    /\ StopAt(s, "closed")
    /\ At(s, "off")
    /\ UNCHANGED <<key, token, late>>

\* The process dies.
Die(s) ==
    /\ stop[s] # "dead"
    /\ StopAt(s, "dead")
    /\ At(s, "off")
    /\ token' = [token EXCEPT ![s] = {}]
    /\ UNCHANGED <<key, late>>

\* What goes on by itself.
LockStep(s) ==
    \/ TryLock(s) \/ Grant(s) \/ Refuse(s) \/ LoseReply(s)
    \/ ExtendStart(s) \/ Extended(s) \/ ExtendFails(s) \/ Unlock(s)
=============================================================================
