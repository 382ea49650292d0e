--------------------------- MODULE PluginVMsProofs ---------------------------
(***************************************************************************)
(* Proofs about PluginVMs, for any number of reloads and any number of     *)
(* attempts to initialise a VM.                                            *)
(***************************************************************************)
EXTENDS PluginVMs, TLAPS

USE PluginVMConstants DEF PluginVMConstants

Active == {"new", "init", "retry", "loaded"}
Busy(r) == reload[r] \in {"reading", "loading"}

\* A VM runs no more, or will be torn down, or is one of those nobody tears down.
Disposed(v) == vm[v] \notin Active \/ v \in tearing \/ v \in zombies

\* A retry is only waited for while attempts are left.
RetryLeft == \A v \in VMs : vm[v] = "retry" => tries[v] < MaxSetupRetries

\* One reload at a time, unless reloads have overlapped.
OneReload == ~overlapped => \A r, q \in Reloads : Busy(r) /\ Busy(q) => r = q

\* When the maps are about to be assigned, the VM they will forget has been torn down.
PreviousTorn ==
    ~overlapped =>
        \A r \in Reloads :
            reload[r] = "loading" =>
                \/ config.vm \in {NoVM, new[r].vm} \/ new[r].vm = NoVM
                \/ Disposed(config.vm)

Inv == TypeOK /\ RetryLeft /\ OneReload /\ PreviousTorn /\ NoOrphans

-----------------------------------------------------------------------------
(* Type correctness *)

TypeInv == TypeOK /\ RetryLeft

LEMMA Constants ==
    /\ Reloads \subseteq Nat \ {0} /\ VMs = Reloads /\ Versions = Reloads
    /\ NoVM \notin VMs /\ 1 \in Reloads
    /\ NoConfig \in Configs
    /\ 1 \in 1 .. MaxSetupRetries
  BY DEF Reloads, VMs, Versions, NoVM, NoConfig, Configs

\* A promise that is resolved leaves the types.
LEMMA ResolveType ==
    ASSUME TypeInv, NEW v \in VMs, NEW stage \in VMStages, NEW result \in VMs \cup {NoVM},
           Resolve(v, stage, result), UNCHANGED tries, stage = "retry" => MayRetry(v),
           UNCHANGED <<row, draft, missed>>, disabling' \in SUBSET VMs,
           tearing' \in SUBSET VMs, zombies' \in SUBSET VMs
    PROVE  TypeInv'
<1>1. vm' = [vm EXCEPT ![v] = stage] /\ vm' \in [VMs -> VMStages]
  BY DEF Resolve, TypeInv, TypeOK
<1>2. scheduled' \in VMs \cup {NoVM} /\ waits' \in SUBSET VMs
  BY DEF Resolve, TypeInv, TypeOK
<1>3. stale' \in BOOLEAN
  BY DEF Resolve
<1>4. RetryLeft'
  BY <1>1 DEF TypeInv, TypeOK, RetryLeft, MayRetry
<1>5. /\ row' \in Rows /\ draft' \in Rows \cup {NoDraft}
      /\ disabling' \in SUBSET VMs /\ missed' \in BOOLEAN
  BY DEF TypeInv, TypeOK
<1> QED BY <1>1, <1>2, <1>3, <1>4, <1>5 DEF Resolve, TypeInv, TypeOK

\* Setting up a config keeps the types.
LEMMA SetUpType ==
    ASSUME TypeInv, NEW r \in Reloads, SetUp(r)
    PROVE  TypeInv'
<1> USE Constants
<1>1. reload' \in [Reloads -> ReloadStages]
  BY DEF SetUp, TypeInv, TypeOK, ReloadStages
<1>2. CASE UNCHANGED <<vm, tearing>>
  <2>1. new' \in [Reloads -> Configs]
    <3>1. CASE new' = new
      BY <3>1 DEF TypeInv, TypeOK
    <3>2. CASE new' = [new EXCEPT ![r] = config]
      BY <3>2 DEF TypeInv, TypeOK
    <3>3. CASE Replace(r)
      <4>1. new[r] \in Configs /\ new' = [new EXCEPT ![r].vm = r]
        BY <3>3 DEF Replace, TypeInv, TypeOK
      <4>2. [new[r] EXCEPT !.vm = r] \in Configs
        BY <4>1 DEF Configs
      <4> QED BY <4>1, <4>2 DEF TypeInv, TypeOK
    <3> QED BY <3>1, <3>2, <3>3 DEF SetUp
  <2> QED BY <1>1, <1>2, <2>1 DEF SetUp, TypeInv, TypeOK, RetryLeft, django
<1>3. CASE Replace(r)
  <2> DEFINE prev == config.vm
             made == [vm EXCEPT ![r] = "new"]
  <2>1. new' \in [Reloads -> Configs]
    <3>1. new[r] \in Configs /\ new' = [new EXCEPT ![r].vm = r]
      BY <1>3 DEF Replace, TypeInv, TypeOK
    <3>2. [new[r] EXCEPT !.vm = r] \in Configs
      BY <3>1 DEF Configs
    <3> QED BY <3>1, <3>2 DEF TypeInv, TypeOK
  <2>2. prev \in VMs \cup {NoVM} /\ made \in [VMs -> VMStages]
    BY DEF TypeInv, TypeOK, Configs, VMStages
  <2>3. \/ prev = NoVM /\ vm' = made /\ tearing' = tearing
        \/ /\ prev \in VMs
           /\ vm' = made \/ vm' = [made EXCEPT ![prev] = "ended"]
           /\ tearing' \in {tearing, tearing \cup {prev}}
    BY <1>3, <2>2 DEF Replace, Torn
  <2> HIDE DEF made, prev
  <2>4. vm' \in [VMs -> VMStages] /\ tearing' \in SUBSET VMs
    <3>1. tearing \in SUBSET VMs
      BY DEF TypeInv, TypeOK
    <3>2. "ended" \in VMStages
      BY DEF VMStages
    <3> QED BY <2>2, <2>3, <3>1, <3>2
  <2>5. \A v \in VMs : vm'[v] = "retry" => vm[v] = "retry"
    BY <2>2, <2>3 DEF made, TypeInv, TypeOK
  <2>6. UNCHANGED <<row, draft, disabling, missed, config, tries, waits, scheduled,
                    overlapped, stale, zombies>>
    BY DEF SetUp, django
  <2> QED BY <1>1, <2>1, <2>4, <2>5, <2>6 DEF TypeInv, TypeOK, RetryLeft
<1> QED BY <1>2, <1>3 DEF SetUp

\* So do the steps of a VM; a retry is waited for only when one is left.
LEMMA VMStepType ==
    ASSUME TypeInv, NEW v \in VMs, VMStep(v)
    PROVE  TypeInv'
<1> USE Constants
<1> TypeOK
  BY DEF TypeInv
<1>1. CASE Initialize(v) \/ TeardownRuns(v)
  <2>1. PICK stage \in VMStages \ {"retry"} : vm' = [vm EXCEPT ![v] = stage]
    BY <1>1 DEF Initialize, TeardownRuns, VMStages
  <2>2. vm' \in [VMs -> VMStages]
    BY <2>1 DEF TypeOK
  <2>3. RetryLeft'
    BY <1>1, <2>1 DEF Initialize, TeardownRuns, TypeInv, TypeOK, RetryLeft
  <2>4. tearing' \in SUBSET VMs
    BY <1>1 DEF Initialize, TeardownRuns, TypeOK
  <2> QED BY <1>1, <2>2, <2>3, <2>4 DEF Initialize, TeardownRuns, TypeInv, TypeOK, django
<1>2. CASE LoadFails(v)
  <2> DEFINE stage == IF v \in tearing THEN "ended" ELSE "failed"
  <2>1. stage \in VMStages \ {"retry"}
    BY DEF VMStages
  <2>2. Resolve(v, stage, NoVM) /\ tries' = tries
    BY <1>2 DEF LoadFails
  <2>3. /\ UNCHANGED <<row, draft, missed>> /\ disabling' \in SUBSET VMs
        /\ tearing' \in SUBSET VMs /\ zombies' \in SUBSET VMs
    BY <1>2 DEF LoadFails, TypeOK, django
  <2> HIDE DEF stage
  <2> QED BY <2>1, <2>2, <2>3, ResolveType
<1>3. CASE InitSucceeds(v)
  <2>1. "loaded" \in VMStages \ {"retry"}
    BY DEF VMStages
  <2>2. Resolve(v, "loaded", v) /\ tries' = tries
    BY <1>3 DEF InitSucceeds
  <2>3. /\ UNCHANGED <<row, draft, missed>> /\ disabling' \in SUBSET VMs
        /\ tearing' \in SUBSET VMs /\ zombies' \in SUBSET VMs
    BY <1>3 DEF InitSucceeds, TypeOK, django
  <2> QED BY <2>1, <2>2, <2>3, ResolveType
<1>4. CASE InitFails(v)
  <2>1. "retry" \in VMStages
    BY DEF VMStages
  <2>2. Resolve(v, "retry", NoVM) /\ tries' = tries /\ MayRetry(v)
    BY <1>4 DEF InitFails
  <2>3. /\ UNCHANGED <<row, draft, missed>> /\ disabling' \in SUBSET VMs
        /\ tearing' \in SUBSET VMs /\ zombies' \in SUBSET VMs
    BY <1>4 DEF InitFails, TypeOK, django
  <2> QED BY <2>1, <2>2, <2>3, ResolveType
<1>5. CASE GiveUp(v)
  <2> DEFINE stage == IF v \in tearing THEN "ended" ELSE "failed"
  <2>1. stage \in VMStages \ {"retry"}
    BY DEF VMStages
  <2>2. Resolve(v, stage, NoVM) /\ tries' = tries
    BY <1>5 DEF GiveUp
  <2>3. /\ UNCHANGED <<row, draft, missed>> /\ disabling' \in SUBSET VMs
        /\ tearing' \in SUBSET VMs /\ zombies' \in SUBSET VMs
    BY <1>5 DEF GiveUp, TypeOK, django
  <2> HIDE DEF stage
  <2> QED BY <2>1, <2>2, <2>3, ResolveType
<1>6. CASE Retry(v)
  <2>1. tries[v] < MaxSetupRetries /\ tries[v] \in 1 .. MaxSetupRetries
    BY <1>6 DEF Retry, TypeInv, RetryLeft, TypeOK
  <2>2. tries[v] + 1 \in 1 .. MaxSetupRetries
    BY <2>1
  <2>3. tries' = [tries EXCEPT ![v] = tries[v] + 1] /\ vm' = [vm EXCEPT ![v] = "init"]
    BY <1>6 DEF Retry
  <2> QED BY <1>6, <2>2, <2>3 DEF Retry, TypeInv, TypeOK, RetryLeft, VMStages, django
<1> QED BY <1>1, <1>2, <1>3, <1>4, <1>5, <1>6 DEF VMStep

\* So do the steps of Django.
LEMMA DjangoStepType ==
    ASSUME TypeInv, DjangoStep
    PROVE  TypeInv'
<1> USE DEF TypeInv, TypeOK, RetryLeft, ReloadStages
<1>1. CASE Save
  BY <1>1 DEF Save, vmVars, Rows, Versions, Asked
<1>2. CASE Publish
  BY <1>2 DEF Publish, vmVars
<1>3. CASE SaveInTransaction
  BY <1>3 DEF SaveInTransaction, vmVars, Rows, Versions
<1>4. CASE EndTransaction
  BY <1>4 DEF EndTransaction, vmVars, Asked
<1> QED BY <1>1, <1>2, <1>3, <1>4 DEF DjangoStep

\* The initial state and every step.
LEMMA TypeInduction == (Init => TypeInv) /\ (TypeInv /\ [Next]_vars => TypeInv')
<1> USE Constants
<1>1. ASSUME Init PROVE TypeInv
  <2>1. "none" \in VMStages /\ "none" # "retry"
    BY DEF VMStages
  <2>2. RetryLeft
    BY <1>1, <2>1 DEF Init, RetryLeft
  <2>3. /\ vm \in [VMs -> VMStages] /\ tries \in [VMs -> 1 .. MaxSetupRetries]
        /\ new \in [Reloads -> Configs] /\ config \in Configs
    BY <1>1, <2>1 DEF Init
  <2>4. row \in Rows /\ reload \in [Reloads -> ReloadStages]
    BY <1>1 DEF Init, Rows, ReloadStages
  <2> QED BY <1>1, <2>2, <2>3, <2>4 DEF Init, TypeInv, TypeOK
<1>2. ASSUME TypeInv, [Next]_vars PROVE TypeInv'
  <2> USE <1>2
  <2>1. CASE DjangoStep
    BY <2>1, DjangoStepType
  <2>2. ASSUME NEW r \in Reloads, StartReload(r) PROVE TypeInv'
    <3> DEFINE n == [new[r] EXCEPT !.version = IF row.enabled THEN row.version ELSE 0]
    <3>1. new[r] \in Configs /\ row.version \in Versions
      BY DEF TypeInv, TypeOK, Rows
    <3>2. n \in Configs
      BY <3>1 DEF Configs
    <3>3. new' = [new EXCEPT ![r] = n]
      BY <2>2 DEF StartReload
    <3> HIDE DEF n
    <3> QED BY <2>2, <3>2, <3>3 DEF StartReload, TypeInv, TypeOK, RetryLeft, vmVars, django,
                                    ReloadStages
  <2>3. ASSUME NEW r \in Reloads, SetUp(r) PROVE TypeInv'
    BY <2>3, SetUpType
  <2>4. ASSUME NEW r \in Reloads, FinishReload(r) PROVE TypeInv'
    <3>1. new[r].vm \in VMs \cup {NoVM} /\ config.vm \in VMs \cup {NoVM}
      BY DEF TypeInv, TypeOK, Configs
    <3> QED BY <2>4, <3>1 DEF FinishReload, TypeInv, TypeOK, RetryLeft, django, ReloadStages
  <2>5. ASSUME NEW v \in VMs, VMStep(v) PROVE TypeInv'
    BY <2>5, VMStepType
  <2>6. ASSUME NEW v \in VMs, Disable(v) PROVE TypeInv'
    BY <2>6 DEF Disable, TypeInv, TypeOK, RetryLeft, vmVars, Rows
  <2>7. CASE UNCHANGED vars
    BY <2>7 DEF vars, django, TypeInv, TypeOK, RetryLeft
  <2> QED BY <2>1, <2>2, <2>3, <2>4, <2>5, <2>6, <2>7 DEF Next, SetupStep
<1> QED BY <1>1, <1>2

\* Every variable keeps its type: in particular no VM is initialised more often than
\* MAX_SETUP_RETRIES times.
THEOREM TypeCorrect == Spec => []TypeOK
<1>1. Spec => []TypeInv
  BY TypeInduction, PTL DEF Spec
<1> QED BY <1>1, PTL DEF TypeInv

-----------------------------------------------------------------------------
(* No orphans *)

\* Why a VM may be active.
Owned(v) ==
    \/ v = config.vm \/ v \in tearing
    \/ \E r \in Reloads : reload[r] = "loading" /\ new[r].vm = v

LEMMA OrphansDef == NoOrphans <=> \A v \in VMs \ zombies : vm[v] \in Active /\ ~overlapped => Owned(v)
  BY DEF NoOrphans, Owned, Active

\* A step of a VM starts no other VM, and disposes of none that it does not end.
LEMMA VMStepKeeps ==
    ASSUME TypeInv, NEW u \in VMs, VMStep(u)
    PROVE  /\ UNCHANGED <<reload, new, config, overlapped>>
           /\ \A v \in VMs : vm'[v] \in Active => vm[v] \in Active
           /\ zombies \subseteq zombies'
           /\ \A v \in tearing \ tearing' : vm'[v] \notin Active \/ v \in zombies'
<1> vm \in [VMs -> VMStages]
  BY DEF TypeInv, TypeOK
<1>1. CASE Initialize(u)
  BY <1>1 DEF Initialize, Active
<1>2. CASE LoadFails(u)
  BY <1>2 DEF LoadFails, Resolve, Active
<1>3. CASE InitSucceeds(u)
  BY <1>3 DEF InitSucceeds, Resolve, Active
<1>4. CASE InitFails(u)
  BY <1>4 DEF InitFails, Resolve, Active
<1>5. CASE GiveUp(u)
  BY <1>5 DEF GiveUp, Resolve, Active
<1>6. CASE Retry(u)
  BY <1>6 DEF Retry, Active
<1>7. CASE TeardownRuns(u)
  BY <1>7 DEF TeardownRuns, Active
<1> QED BY <1>1, <1>2, <1>3, <1>4, <1>5, <1>6, <1>7 DEF VMStep

\* The steps of VMs keep the invariant: what is disposed of stays so.
LEMMA VMStepInv ==
    ASSUME Inv, TypeInv, NEW u \in VMs, VMStep(u)
    PROVE  OneReload' /\ PreviousTorn' /\ NoOrphans'
<1>1. /\ UNCHANGED <<reload, new, config, overlapped>>
      /\ \A v \in VMs : vm'[v] \in Active => vm[v] \in Active
      /\ zombies \subseteq zombies'
      /\ \A v \in tearing \ tearing' : vm'[v] \notin Active \/ v \in zombies'
  BY VMStepKeeps
<1>2. \A v \in VMs : Disposed(v) => Disposed(v)'
  BY <1>1 DEF Disposed
<1>3. config.vm \in VMs \cup {NoVM}
  BY DEF TypeInv, TypeOK, Configs
<1>4. OneReload'
  BY <1>1 DEF Inv, OneReload, Busy
<1>5. PreviousTorn'
  BY <1>1, <1>2, <1>3 DEF Inv, PreviousTorn
<1>6. NoOrphans'
  <2> SUFFICES ASSUME NEW v \in VMs \ zombies', vm'[v] \in Active, ~overlapped' PROVE Owned(v)'
    BY DEF NoOrphans, Owned, Active
  <2>1. Owned(v)
    BY <1>1, OrphansDef DEF Inv
  <2> QED BY <1>1, <2>1 DEF Owned
<1> QED BY <1>4, <1>5, <1>6

\* A reload that starts next to another one is remembered as overlapping.
LEMMA StartInv ==
    ASSUME Inv, TypeInv, NEW r \in Reloads, StartReload(r)
    PROVE  OneReload' /\ PreviousTorn' /\ NoOrphans'
<1>1. /\ reload' = [reload EXCEPT ![r] = "reading"] /\ reload[r] = "asked"
      /\ \A q \in Reloads \ {r} : new'[q] = new[q]
      /\ UNCHANGED <<config, vm, tearing, zombies>>
  BY DEF StartReload, vmVars, Busy, TypeInv, TypeOK
<1>2. \A q \in Reloads : reload'[q] = IF q = r THEN "reading" ELSE reload[q]
  BY <1>1 DEF TypeInv, TypeOK
<1>3. ~overlapped' => ~overlapped /\ \A q \in Reloads : ~Busy(q)
  BY DEF StartReload, Busy
<1>4. OneReload'
  <2> SUFFICES ASSUME ~overlapped', NEW p \in Reloads, NEW q \in Reloads, Busy(p)', Busy(q)'
               PROVE  p = q
    BY DEF OneReload
  <2> QED BY <1>3, <1>2 DEF Busy
<1>5. PreviousTorn'
  <2> SUFFICES ASSUME ~overlapped', NEW q \in Reloads, reload'[q] = "loading" PROVE FALSE
    BY DEF PreviousTorn
  <2> QED BY <1>3, <1>2 DEF Busy
<1>6. NoOrphans'
  <2> SUFFICES ASSUME NEW v \in VMs \ zombies', vm'[v] \in Active, ~overlapped' PROVE Owned(v)'
    BY DEF NoOrphans, Owned, Active
  <2>1. Owned(v)
    BY <1>3, <1>1, OrphansDef DEF Inv
  <2>2. reload'[r] # "loading" /\ reload[r] # "loading"
    BY <1>1, <1>2
  <2> QED BY <1>1, <1>2, <2>1, <2>2 DEF Owned
<1> QED BY <1>4, <1>5, <1>6

\* What replacing a config does to the VM before it.
LEMMA ReplaceDisposes ==
    ASSUME TypeInv, NEW r \in Reloads, Replace(r)
    PROVE  /\ new'[r].vm = r /\ \A q \in Reloads \ {r} : new'[q] = new[q]
           /\ tearing \subseteq tearing'
           /\ \A v \in VMs \ {r} : vm'[v] \in Active => vm[v] \in Active
           /\ \/ config.vm \in {NoVM, r}
              \/ vm'[config.vm] \notin Active
              \/ config.vm \in tearing'
<1> USE Constants
<1> DEFINE prev == config.vm
           made == [vm EXCEPT ![r] = "new"]
<1>1. prev \in VMs \cup {NoVM} /\ new[r] \in Configs /\ vm \in [VMs -> VMStages]
  BY DEF TypeInv, TypeOK, Configs
<1>2. new'[r].vm = r /\ \A q \in Reloads \ {r} : new'[q] = new[q]
  <2>1. new' = [new EXCEPT ![r].vm = r]
    BY DEF Replace
  <2> QED BY <1>1, <2>1 DEF TypeInv, TypeOK, Configs
<1>3. CASE prev = NoVM
  BY <1>1, <1>2, <1>3 DEF Replace, Active
<1>4. CASE prev # NoVM
  <2>1. /\ vm' = Torn(made, prev)
        /\ tearing' = IF Unresolved(prev) \/ vm[prev] = "loaded"
                      THEN tearing \cup {prev} ELSE tearing
    BY <1>4 DEF Replace
  <2>2. vm' = IF vm[prev] \in {"retry", "failed"} THEN [made EXCEPT ![prev] = "ended"] ELSE made
    BY <2>1 DEF Torn
  <2>3. \A v \in VMs \ {r} : vm'[v] = vm[v] \/ vm'[v] = "ended"
    BY <1>1, <2>2
  <2>4. CASE vm[prev] \in {"retry", "failed"}
    BY <1>1, <1>2, <1>4, <2>1, <2>2, <2>3, <2>4 DEF Active
  <2>5. CASE vm[prev] \notin {"retry", "failed"} /\ prev # r
    <3>1. vm'[prev] = vm[prev]
      BY <1>1, <1>4, <2>2, <2>5
    <3> QED BY <1>2, <2>1, <2>3, <2>5, <3>1 DEF Unresolved, Active
  <2>6. CASE prev = r
    BY <1>2, <2>1, <2>3, <2>6 DEF Active
  <2> QED BY <2>4, <2>5, <2>6
<1> QED BY <1>3, <1>4

\* Setting up a config tears down the VM it will replace.
LEMMA SetUpInv ==
    ASSUME Inv, TypeInv, NEW r \in Reloads, SetUp(r)
    PROVE  OneReload' /\ PreviousTorn' /\ NoOrphans'
<1> USE Constants
<1>1. /\ reload[r] = "reading" /\ reload' = [reload EXCEPT ![r] = "loading"]
      /\ UNCHANGED <<config, overlapped, zombies>>
  BY DEF SetUp
<1>2. \A q \in Reloads : reload'[q] = IF q = r THEN "loading" ELSE reload[q]
  BY <1>1 DEF TypeInv, TypeOK
<1>3. /\ \A q \in Reloads \ {r} : new'[q] = new[q]
      /\ tearing \subseteq tearing'
      /\ \A v \in VMs : vm'[v] \in Active => vm[v] \in Active \/ (v = r /\ new'[r].vm = r)
      /\ \/ config.vm \in {NoVM, new'[r].vm} \/ new'[r].vm = NoVM
         \/ vm'[config.vm] \notin Active \/ config.vm \in tearing'
  <2>1. CASE new[r] = NoConfig /\ UNCHANGED <<new, vm, tearing>>
    BY <2>1 DEF NoConfig
  <2>2. CASE new' = [new EXCEPT ![r] = config] /\ UNCHANGED <<vm, tearing>>
    BY <2>2 DEF TypeInv, TypeOK
  <2>3. CASE Replace(r)
    BY <2>3, ReplaceDisposes
  <2> QED BY <2>1, <2>2, <2>3 DEF SetUp
<1>4. OneReload'
  BY <1>1, <1>2 DEF Inv, OneReload, Busy
<1>5. ~overlapped => \A q \in Reloads : reload'[q] = "loading" => q = r
  BY <1>1, <1>2 DEF Inv, OneReload, Busy
<1>6. PreviousTorn'
  BY <1>1, <1>3, <1>5 DEF PreviousTorn, Disposed
<1>7. NoOrphans'
  <2> SUFFICES ASSUME NEW v \in VMs \ zombies', vm'[v] \in Active, ~overlapped' PROVE Owned(v)'
    BY DEF NoOrphans, Owned, Active
  <2>1. CASE v = r /\ new'[r].vm = r
    BY <1>2, <2>1 DEF Owned
  <2>2. CASE vm[v] \in Active
    <3>1. Owned(v)
      BY <1>1, <2>2, OrphansDef DEF Inv
    <3> QED BY <1>1, <1>2, <1>3, <3>1 DEF Owned
  <2> QED BY <1>3, <2>1, <2>2
<1> QED BY <1>4, <1>6, <1>7

\* The maps may forget the VM of before.
LEMMA FinishInv ==
    ASSUME Inv, TypeInv, NEW r \in Reloads, FinishReload(r)
    PROVE  OneReload' /\ PreviousTorn' /\ NoOrphans'
<1> USE Constants
<1>1. /\ reload[r] = "loading" /\ reload' = [reload EXCEPT ![r] = "done"]
      /\ config' = new[r]
      /\ zombies' = IF new[r].vm = NoVM THEN zombies \cup ({config.vm} \ {NoVM}) ELSE zombies
      /\ UNCHANGED <<new, vm, tearing, overlapped>>
  BY DEF FinishReload
<1>2. \A q \in Reloads : reload'[q] = IF q = r THEN "done" ELSE reload[q]
  BY <1>1 DEF TypeInv, TypeOK
<1>3. OneReload'
  BY <1>1, <1>2 DEF Inv, OneReload, Busy
<1>4. ~overlapped => \A q \in Reloads : reload'[q] # "loading"
  BY <1>1, <1>2 DEF Inv, OneReload, Busy
<1>5. PreviousTorn'
  BY <1>1, <1>4 DEF PreviousTorn
<1>6. NoOrphans'
  <2> SUFFICES ASSUME NEW v \in VMs \ zombies', vm'[v] \in Active, ~overlapped' PROVE Owned(v)'
    BY DEF NoOrphans, Owned, Active
  <2>1. v \notin zombies /\ Owned(v)
    BY <1>1, OrphansDef DEF Inv
  <2>2. CASE v = config.vm
    <3>1. new[r].vm # NoVM
      BY <1>1, <2>2
    <3>2. v = new[r].vm \/ Disposed(v)
      BY <1>1, <2>2, <3>1 DEF Inv, PreviousTorn
    <3> QED BY <1>1, <2>1, <3>2 DEF Owned, Disposed
  <2>3. CASE v \in tearing
    BY <1>1, <2>3 DEF Owned
  <2>4. CASE \E q \in Reloads : reload[q] = "loading" /\ new[q].vm = v
    BY <1>1, <1>2, <2>4 DEF Owned
  <2> QED BY <2>1, <2>2, <2>3, <2>4 DEF Owned
<1> QED BY <1>3, <1>5, <1>6

\* Django starts no reload: it only asks for them.
LEMMA DjangoStepInv ==
    ASSUME Inv, TypeInv, DjangoStep
    PROVE  OneReload' /\ PreviousTorn' /\ NoOrphans'
<1>1. /\ UNCHANGED <<new, config, vm, tearing, overlapped, zombies>>
      /\ \A q \in Reloads : Busy(q)' <=> Busy(q)
      /\ \A q \in Reloads : reload'[q] = "loading" <=> reload[q] = "loading"
  BY DEF DjangoStep, Save, Publish, SaveInTransaction, EndTransaction, NextVersion, vmVars,
         Busy, TypeInv, TypeOK
<1>2. OneReload' /\ PreviousTorn'
  BY <1>1 DEF Inv, OneReload, PreviousTorn, Disposed
<1>3. NoOrphans'
  BY <1>1 DEF Inv, NoOrphans
<1> QED BY <1>2, <1>3

\* The invariant holds initially and is kept by every step.
LEMMA Induction == (Init => Inv) /\ (Inv /\ [Next]_vars => Inv')
<1>1. ASSUME Init PROVE Inv
  <2>1. TypeInv
    BY <1>1, TypeInduction
  <2>2. OneReload /\ PreviousTorn
    BY <1>1, Constants DEF Init, OneReload, PreviousTorn, Busy
  <2>3. NoOrphans
    BY <1>1 DEF Init, NoOrphans
  <2> QED BY <2>1, <2>2, <2>3 DEF TypeInv, Inv
<1>2. ASSUME Inv, [Next]_vars PROVE Inv'
  <2>1. TypeInv /\ TypeInv'
    BY <1>2, TypeInduction DEF TypeInv, Inv
  <2>2. OneReload' /\ PreviousTorn' /\ NoOrphans'
    <3>1. CASE DjangoStep
      BY <1>2, <2>1, <3>1, DjangoStepInv
    <3>2. ASSUME NEW r \in Reloads, SetupStep(r) PROVE OneReload' /\ PreviousTorn' /\ NoOrphans'
      BY <1>2, <2>1, <3>2, StartInv, SetUpInv, FinishInv DEF SetupStep
    <3>3. ASSUME NEW v \in VMs, VMStep(v) PROVE OneReload' /\ PreviousTorn' /\ NoOrphans'
      BY <1>2, <2>1, <3>3, VMStepInv
    <3>4. ASSUME NEW v \in VMs, Disable(v) PROVE OneReload' /\ PreviousTorn' /\ NoOrphans'
      BY <1>2, <3>4 DEF Disable, vmVars, Inv, OneReload, PreviousTorn, NoOrphans, Busy, Disposed
    <3>5. CASE UNCHANGED vars
      BY <1>2, <3>5 DEF vars, Inv, OneReload, PreviousTorn, NoOrphans, Busy, Disposed
    <3> QED BY <1>2, <3>1, <3>2, <3>3, <3>4, <3>5 DEF Next
  <2> QED BY <2>1, <2>2 DEF TypeInv, Inv
<1> QED BY <1>1, <1>2

\* Whatever reloads, failures, retries and saves do, a VM that runs or will run is the
\* one of the config, of a reload under way, or about to be torn down, but for the
\* cases that NoOrphans names.
THEOREM NothingOrphaned == Spec => []NoOrphans
<1>1. Inv => NoOrphans
  BY DEF Inv
<1> QED BY <1>1, Induction, PTL DEF Spec
=============================================================================
