-------------------------------- MODULE PluginVMs --------------------------------
(***************************************************************************)
(* The virtual machines of one plugin config in a worker thread:           *)
(* setupPlugins, LazyPluginVM, loadPlugin, teardownPlugins, loadSchedule.  *)
(* Configs are independent but for the maps that setupPlugins assigns.     *)
(* A step is the code between two awaits.  A promise that is resolved      *)
(* resumes those who await it in the same step.                            *)
(*                                                                         *)
(* Django saves the config and publishes a reload: after the save, or,     *)
(* when an enclosing transaction holds the save back, before its commit.   *)
(* A message that is published may be lost: no thread has subscribed when  *)
(* the first configs are read, and a connection may be down.               *)
(*                                                                         *)
(* External: the code of a plugin may fail whenever it is run.             *)
(***************************************************************************)
EXTENDS Naturals, FiniteSets

CONSTANTS MaxReloads,       \* reloads, the one of the start included
          MaxSetupRetries,  \* MAX_SETUP_RETRIES
          Transacted        \* the saves that are made in a transaction

ASSUME PluginVMConstants == MaxReloads \in Nat \ {0} /\ MaxSetupRetries \in Nat \ {0}

Reloads == 1 .. MaxReloads
VMs == Reloads              \* a VM has the number of the reload that made it
Versions == Reloads
NoVM == 0

VARIABLES
    row,        \* posthog_pluginconfig: updated_at and enabled
    draft,      \* the row as an open transaction has written it
    disabling,  \* VMs whose disablePlugin is under way: nobody waits for it
    reload,     \* per save and its reload: what it is at
    new,        \* per reload: the config it has read and its VM
    config,     \* server.pluginConfigs
    vm,         \* per VM: what it is at
    tries,      \* per VM: totalInitAttemptsCounter
    tearing,    \* VMs a teardownPlugins waits for
    waits,      \* VMs a loadSchedule waits for
    scheduled,  \* pluginSchedule: the VM whose tasks it lists
    missed,     \* history: no reload has been waiting to read the row since it was saved
    overlapped, \* history: two reloads have overlapped
    stale,      \* history: a loadSchedule has ended after its config was replaced
    zombies     \* history: VMs torn down while an attempt failed; VMs of disabled configs

django == <<row, draft, disabling, missed>>
vars == <<django, reload, new, config, vm, tries, tearing, waits, scheduled,
          overlapped, stale, zombies>>
vmVars == <<vm, tries, tearing, waits, scheduled>>

Rows == [version : Versions, enabled : BOOLEAN]
NoDraft == [version |-> 0, enabled |-> FALSE]
NoConfig == [vm |-> NoVM, version |-> 0]
Configs == [vm : VMs \cup {NoVM}, version : Versions \cup {0}]
ReloadStages == {"none", "saved", "asked", "lost", "reading", "loading", "done"}
VMStages == {"none", "new", "init", "retry", "loaded", "failed", "ended"}

TypeOK ==
    /\ row \in Rows /\ draft \in Rows \cup {NoDraft}
    /\ disabling \in SUBSET VMs /\ missed \in BOOLEAN
    /\ reload \in [Reloads -> ReloadStages]
    /\ new \in [Reloads -> Configs] /\ config \in Configs
    /\ vm \in [VMs -> VMStages]
    /\ tries \in [VMs -> 1 .. MaxSetupRetries]
    /\ tearing \in SUBSET VMs /\ waits \in SUBSET VMs
    /\ scheduled \in VMs \cup {NoVM}
    /\ overlapped \in BOOLEAN /\ stale \in BOOLEAN /\ zombies \in SUBSET VMs

Init ==
    /\ row = [version |-> 1, enabled |-> TRUE] /\ draft = NoDraft
    /\ disabling = {} /\ missed = FALSE
    /\ reload = [r \in Reloads |-> IF r = 1 THEN "asked" ELSE "none"]
    /\ new = [r \in Reloads |-> NoConfig] /\ config = NoConfig
    /\ vm = [v \in VMs |-> "none"]
    /\ tries = [v \in VMs |-> 1]
    /\ tearing = {} /\ waits = {} /\ scheduled = NoVM
    /\ overlapped = FALSE /\ stale = FALSE /\ zombies = {}

-----------------------------------------------------------------------------
(* Django *)

\* The next version of the config.
NextVersion(r) == reload[r] = "none" /\ \A q \in 1 .. r - 1 : reload[q] # "none"

Asked == \E r \in Reloads : reload[r] = "asked"

\* The row is saved and unlocked; post_save is still to publish.
Save ==
    \E r \in Reloads, e \in BOOLEAN :
        /\ NextVersion(r) /\ r \notin Transacted /\ draft = NoDraft
        /\ row' = [version |-> r, enabled |-> e]
        /\ reload' = [reload EXCEPT ![r] = "saved"]
        /\ missed' = ~Asked
        /\ UNCHANGED <<draft, disabling, new, config, vmVars, overlapped, stale, zombies>>

\* reload_plugins_on_workers: Redis delivers the message to who has subscribed.
Publish ==
    \E r \in Reloads, s \in {"asked", "lost"} :
        /\ reload[r] = "saved"
        /\ reload' = [reload EXCEPT ![r] = s]
        /\ missed' = (missed /\ s = "lost")
        /\ UNCHANGED <<row, draft, disabling, new, config, vmVars, overlapped, stale, zombies>>

\* Inside a transaction post_save publishes what nobody sees yet.
SaveInTransaction ==
    \E r \in Reloads, e \in BOOLEAN, s \in {"asked", "lost"} :
        /\ NextVersion(r) /\ r \in Transacted /\ draft = NoDraft
        /\ draft' = [version |-> r, enabled |-> e]
        /\ reload' = [reload EXCEPT ![r] = s]
        /\ missed' = (missed /\ s = "lost")
        /\ UNCHANGED <<row, disabling, new, config, vmVars, overlapped, stale, zombies>>

\* The transaction commits, or rolls back.
EndTransaction ==
    /\ draft # NoDraft /\ draft' = NoDraft
    /\ \/ row' = draft /\ missed' = ~Asked
       \/ UNCHANGED <<row, missed>>
    /\ UNCHANGED <<disabling, reload, new, config, vmVars, overlapped, stale, zombies>>

-----------------------------------------------------------------------------
(* setupPlugins *)

\* loadPluginsFromDB: the rows of configs that are enabled.
StartReload(r) ==
    /\ reload[r] = "asked"
    /\ reload' = [reload EXCEPT ![r] = "reading"]
    /\ new' = [new EXCEPT ![r].version = IF row.enabled THEN row.version ELSE 0]
    /\ overlapped' = (overlapped \/ \E q \in Reloads : reload[q] \in {"reading", "loading"})
    /\ UNCHANGED <<django, config, vmVars, stale, zombies>>

\* Mutant of Unchanged: a config that is known is kept.
KnownUnchanged(r) == config # NoConfig

\* updated_at is the one of before.
Unchanged(r) == config # NoConfig /\ config.version = new[r].version

Unresolved(v) == vm[v] \in {"new", "init"}

\* Mutant of Torn: the retry timer is left.
TornLeaves(stages, v) == stages

\* clearRetryTimeoutIfExists; a VM that has not been loaded needs no more.
Torn(stages, v) == IF vm[v] \in {"retry", "failed"} THEN [stages EXCEPT ![v] = "ended"] ELSE stages

\* A VM is made, and the one before is torn down, up to the await.
Replace(r) ==
    LET prev == config.vm
        made == [vm EXCEPT ![r] = "new"]
    IN  /\ new' = [new EXCEPT ![r].vm = r]
        /\ IF prev = NoVM
           THEN vm' = made /\ UNCHANGED tearing
           ELSE /\ vm' = Torn(made, prev)
                /\ tearing' = IF Unresolved(prev) \/ vm[prev] = "loaded"
                              THEN tearing \cup {prev} ELSE tearing

\* The loop of setupPlugins over the rows.
SetUp(r) ==
    /\ reload[r] = "reading"
    /\ reload' = [reload EXCEPT ![r] = "loading"]
    /\ \/ /\ new[r] = NoConfig
          /\ UNCHANGED <<new, vm, tearing>>
       \/ /\ new[r] # NoConfig /\ Unchanged(r)
          /\ new' = [new EXCEPT ![r] = config]
          /\ UNCHANGED <<vm, tearing>>
       \/ /\ new[r] # NoConfig /\ ~Unchanged(r)
          /\ Replace(r)
    /\ UNCHANGED <<django, config, tries, waits, scheduled, overlapped, stale, zombies>>

\* loadPlugin has ended: the maps are assigned and loadSchedule is called.
FinishReload(r) ==
    LET v == new[r].vm IN
    /\ reload[r] = "loading"
    /\ v = r => vm[v] # "new"
    /\ reload' = [reload EXCEPT ![r] = "done"]
    /\ config' = new[r]
    /\ waits' = IF v # NoVM /\ Unresolved(v) THEN waits \cup {v} ELSE waits
    /\ scheduled' = IF v # NoVM /\ vm[v] = "loaded" THEN v ELSE NoVM
    /\ zombies' = IF v = NoVM THEN zombies \cup ({config.vm} \ {NoVM}) ELSE zombies
    /\ UNCHANGED <<django, new, vm, tries, tearing, overlapped, stale>>

-----------------------------------------------------------------------------
(* LazyPluginVM *)

\* resolve: those who wait for the VM go on with it, or with null.
Resolve(v, stage, result) ==
    /\ vm' = [vm EXCEPT ![v] = stage]
    /\ scheduled' = IF v \in waits THEN result ELSE scheduled
    /\ stale' = (stale \/ (v \in waits /\ v # config.vm))
    /\ waits' = waits \ {v}
    /\ UNCHANGED <<reload, new, config, overlapped>>

\* loadPlugin has read the code.
Initialize(v) ==
    /\ vm[v] = "new"
    /\ vm' = [vm EXCEPT ![v] = "init"]
    /\ UNCHANGED <<django, reload, new, config, tries, tearing, waits, scheduled,
                   overlapped, stale, zombies>>

\* failInitialization.
LoadFails(v) ==
    /\ vm[v] = "new"
    /\ Resolve(v, IF v \in tearing THEN "ended" ELSE "failed", NoVM)
    /\ tearing' = tearing \ {v}
    /\ UNCHANGED <<django, tries, zombies>>

InitSucceeds(v) ==
    /\ vm[v] = "init"
    /\ Resolve(v, "loaded", v)
    /\ UNCHANGED <<django, tries, tearing, zombies>>

\* Mutant of MayRetry: one attempt more.
MayRetryOnceMore(v) == tries[v] <= MaxSetupRetries

MayRetry(v) == tries[v] < MaxSetupRetries

\* A timer is set; a teardown that waits for the VM ends, having nothing to tear down.
InitFails(v) ==
    /\ vm[v] = "init" /\ MayRetry(v)
    /\ Resolve(v, "retry", NoVM)
    /\ zombies' = IF v \in tearing THEN zombies \cup {v} ELSE zombies
    /\ tearing' = tearing \ {v}
    /\ UNCHANGED <<django, tries>>

\* disablePlugin is called, whatever the config has become, and not awaited.
GiveUp(v) ==
    /\ vm[v] = "init" /\ ~MayRetry(v)
    /\ Resolve(v, IF v \in tearing THEN "ended" ELSE "failed", NoVM)
    /\ tearing' = tearing \ {v}
    /\ disabling' = disabling \cup {v}
    /\ UNCHANGED <<row, draft, missed, tries, zombies>>

\* The UPDATE of disablePlugin, when no transaction has the row locked.
Disable(v) ==
    /\ v \in disabling /\ draft = NoDraft
    /\ row' = [row EXCEPT !.enabled = FALSE]
    /\ disabling' = disabling \ {v}
    /\ UNCHANGED <<draft, missed, reload, new, config, vmVars, overlapped, stale, zombies>>

Retry(v) ==
    /\ vm[v] = "retry"
    /\ vm' = [vm EXCEPT ![v] = "init"]
    /\ tries' = [tries EXCEPT ![v] = @ + 1]
    /\ UNCHANGED <<django, reload, new, config, tearing, waits, scheduled,
                   overlapped, stale, zombies>>

\* teardownPlugin of the plugin has been called.
TeardownRuns(v) ==
    /\ vm[v] = "loaded" /\ v \in tearing
    /\ vm' = [vm EXCEPT ![v] = "ended"]
    /\ tearing' = tearing \ {v}
    /\ UNCHANGED <<django, reload, new, config, tries, waits, scheduled,
                   overlapped, stale, zombies>>

-----------------------------------------------------------------------------
SetupStep(r) == StartReload(r) \/ SetUp(r) \/ FinishReload(r)
VMStep(v) ==
    Initialize(v) \/ LoadFails(v) \/ InitSucceeds(v) \/ InitFails(v) \/ GiveUp(v)
    \/ Retry(v) \/ TeardownRuns(v)

DjangoStep == Save \/ Publish \/ SaveInTransaction \/ EndTransaction

Next ==
    \/ DjangoStep
    \/ \E r \in Reloads : SetupStep(r)
    \/ \E v \in VMs : VMStep(v) \/ Disable(v)

Spec == Init /\ [][Next]_vars

\* Awaited calls end and timers fire; nobody has to save a config, publish it, commit,
\* or end a query that is not awaited.
Fairness ==
    /\ \A r \in Reloads : WF_vars(SetupStep(r))
    /\ \A v \in VMs : WF_vars(VMStep(v))

FairSpec == Spec /\ Fairness

-----------------------------------------------------------------------------
(* Properties *)

\* A VM that runs, or will run, is the one of the config, of a reload under way, or
\* about to be torn down: unless reloads have overlapped, it was torn down while an
\* attempt to initialise it failed (the retry is scheduled afterwards), or its config
\* was disabled (nobody tears it down).
NoOrphans ==
    \A v \in VMs \ zombies :
        vm[v] \in {"new", "init", "retry", "loaded"} /\ ~overlapped
        => \/ v = config.vm \/ v \in tearing
           \/ \E r \in Reloads : reload[r] = "loading" /\ new[r].vm = v

\* When no config is saved any more and reloads have not overlapped, the worker gets to
\* run the config that is saved, unless no reload has been published and received since
\* (a message was lost, or came before the commit and was read before it); and in any
\* case the VM of its config is loaded or given up.  Its tasks are in
\* the schedule if it was loaded at the first attempt.
Settled ==
    /\ row.enabled /\ ~missed => config.version = row.version
    /\ config # NoConfig => vm[config.vm] \in {"loaded", "failed"} /\ config.vm \notin tearing
    /\ config # NoConfig /\ vm[config.vm] = "loaded" /\ tries[config.vm] = 1 /\ ~stale
       => scheduled = config.vm

ConfigSettles == <>[](overlapped \/ Settled)
=============================================================================
