--------------------------- MODULE UpgradeStepsProofs ---------------------------
(***************************************************************************)
(* For any patches, and any number of failures and restarts: a step is     *)
(* complete only when the subcloud is upgraded, and what the deploy status *)
(* says of an installation, and the patches of an upgrade that has begun,  *)
(* are so.                                                                 *)
(***************************************************************************)
EXTENDS UpgradeSteps, TLAPS

--------------------------------------------------------------------------------
(* The inductive invariant.                                                *)

IsAt(state, pc) == step.state = state /\ step.pc = pc

\* What RegionOne has applied, for the orchestrator.
Wanted == UNION {In(repo, Effective) : repo \in cached}

\* The patches of the subcloud are those an upgrade needs.
Patched ==
  /\ Committed \subseteq In(sub.repo, Effective)
  /\ In(sub.repo, Effective) \subseteq In(central, Effective)

\* RegionOne only ever applies more, so that the cache, however old, has what
\* is committed and nothing that is no longer applied.
CentralOK ==
  /\ Committed \subseteq In(central, Effective)
  /\ \A repo \in cached : /\ Committed \subseteq In(repo, Effective)
                          /\ In(repo, Effective) \subseteq In(central, Effective)

\* The states of a strategy before the patches are dealt with, or after it ended.
Unprepared ==
  Ended \cup {"pre check", "installing license", "importing load",
             "updating patches"}

\* The patch steps are done, or an upgrade was begun, by whatever strategy.
Begun ==
  sub.upgrade # "none" \/ deploy # "complete" \/ step.state \notin Unprepared

\* Then the patches are there, and nothing takes them away again.  In between,
\* none is applied that is not wanted.
PatchesOK ==
  /\ Begun \/ IsAt("updating patches", "wait") => Patched
  /\ IsAt("updating patches", "upload") =>
       cached # {} /\ In(sub.repo, Effective) \subseteq Wanted

SimplexStates ==
  {"locking controller-0", "upgrading simplex", "migrating data",
   "unlocking controller-0"}

DuplexStates ==
  {"locking controller-1", "upgrading duplex", "unlocking controller-1",
   "swacting to controller-1", "swacting to controller-0",
   "creating VIM upgrade strategy", "applying VIM upgrade strategy"}

\* The states with which every upgrade ends.
LastStates ==
  {"activating upgrade", "completing upgrade", "deleting load", "complete"}

Activated == {"activating", "activation-failed", "activation-complete", "completing"}

\* A simplex subcloud is upgraded by the migration, and by nothing else, so
\* that the disk tells how far it is; the steps and the deploy status are never
\* ahead of the disk.
SimplexOK ==
  sub.mode = "simplex" =>
    /\ step.state \notin DuplexStates
    /\ sub.vim = "none"
    /\ sub.disk = "old" =>
         sub.load = "old" /\ sub.upgrade \in {"none", "starting", "started"}
    /\ sub.disk = "migrated" =>
         /\ sub.load = "new" /\ sub.upgraded = {"controller-0"}
         /\ sub.upgrade \in Activated \cup {"upgrading-hosts", "none"}
    /\ step.state \in LastStates \cup {"unlocking controller-0"} =>
         sub.disk = "migrated"
    /\ step.state = "migrating data" => sub.disk \in {"installed", "migrated"}
    /\ IsAt("migrating data", "reboot") => sub.disk = "migrated"
    /\ step.pc = "install" => /\ step.state = "upgrading simplex"
                              /\ deploy \in {"installing", "install-failed"}
    /\ step.pc = "playbook" => step.state = "migrating data"
    /\ deploy \in {"installed", "migrating-data", "data-migration-failed"} =>
         sub.disk \in {"installed", "migrated"}
    /\ deploy = "migrated" => sub.disk = "migrated"
    /\ deploy = "complete" => Lives

\* A duplex subcloud is never installed anew.  Once its first controller is
\* upgraded the steps go on to the end.
DuplexOK ==
  sub.mode = "duplex" =>
    /\ step.state \notin SimplexStates
    /\ step.pc \notin {"install", "playbook"}
    /\ sub.disk = "old" /\ deploy = "complete"
    /\ sub.upgrade \in Activated => sub.upgraded = Hosts
    /\ step.state \in (DuplexStates \cup LastStates)
                        \ {"locking controller-1", "upgrading duplex"} =>
         \/ sub.upgrade \in Activated \cup {"data-migration-complete",
                                            "upgrading-controllers", "upgrading-hosts"}
         \/ Upgraded

\* A subcloud without its system does not answer.
ReachOK == sub.reach => Lives

CompleteOK == step.state \in {"deleting load", "complete"} => Upgraded /\ deploy = "complete"

Progress == SimplexOK /\ DuplexOK /\ ReachOK /\ CompleteOK

IInv == TypeOK /\ CentralOK /\ PatchesOK /\ Progress

--------------------------------------------------------------------------------
(* Steps.                                                                  *)

StepTyped == step \in [state : StepStates, pc : Pcs]

LEMMA Entered ==
  \A s \in StepStates : Enter(s) => StepTyped' /\ step'.state = s /\ step'.pc = "begin"
BY DEF Enter, StepTyped, Pcs

LEMMA Moved ==
  ASSUME StepTyped
  PROVE  \A pc \in Pcs : At(pc) => StepTyped' /\ step'.state = step.state /\ step'.pc = pc
BY DEF At, StepTyped

LEMMA Where ==
  \A s, pc : step = [state |-> s, pc |-> pc] => IsAt(s, pc)
BY DEF IsAt

LEMMA WhereBegins == \A s : Begins(s) => IsAt(s, "begin")
BY Where DEF Begins

LEMMA WhereWaits == \A s : Waits(s) => IsAt(s, "wait")
BY Where DEF Waits

--------------------------------------------------------------------------------
(* Changes of the subcloud.                                                *)

\* What tells how far an upgrade is, after a step.
Becoming(disk, load, upgrade, upgraded, reach, vim) ==
  /\ sub'.mode = sub.mode /\ sub'.disk = disk /\ sub'.load = load
  /\ sub'.upgrade = upgrade /\ sub'.upgraded = upgraded
  /\ sub'.reach = reach /\ sub'.vim = vim

SubcloudStays ==
  Becoming(sub.disk, sub.load, sub.upgrade, sub.upgraded, sub.reach, sub.vim)

SubTyped == sub \in SubcloudRecords

RepoStays == sub'.repo = sub.repo

LEMMA Unchanged ==
  ASSUME SubTyped, UNCHANGED sub
  PROVE  SubTyped' /\ SubcloudStays /\ RepoStays
BY DEF SubTyped, SubcloudStays, Becoming, RepoStays

LEMMA OtherSet ==
  ASSUME SubTyped, NEW other \in [version : Versions, state : LoadStates],
         sub' = [sub EXCEPT !.other = other]
  PROVE  SubTyped' /\ SubcloudStays /\ RepoStays
BY DEF SubTyped, SubcloudRecords, SubcloudStays, Becoming, RepoStays

LEMMA OtherStateSet ==
  ASSUME SubTyped, NEW state \in LoadStates, sub' = [sub EXCEPT !.other.state = state]
  PROVE  SubTyped' /\ SubcloudStays /\ RepoStays
<1>1. [sub.other EXCEPT !.state = state] \in [version : Versions, state : LoadStates]
  BY DEF SubTyped, SubcloudRecords
<1> QED BY <1>1, OtherSet

LEMMA RepoSet ==
  ASSUME SubTyped, NEW P, NEW state \in RepoStates, sub' = ToState(P, state)
  PROVE  /\ SubTyped' /\ SubcloudStays /\ sub'.patched = sub.patched
         /\ sub'.repo = [p \in Patches |-> IF p \in P THEN state ELSE sub.repo[p]]
<1>1. [p \in Patches |-> IF p \in P THEN state ELSE sub.repo[p]] \in [Patches -> RepoStates]
  BY DEF SubTyped, SubcloudRecords
<1>2. sub' = [sub EXCEPT !.repo = [p \in Patches |-> IF p \in P THEN state ELSE sub.repo[p]]]
  BY DEF ToState
<1> HIDE DEF RepoStates
<1> QED BY <1>1, <1>2 DEF SubTyped, SubcloudRecords, SubcloudStays, Becoming

LEMMA TaskSet ==
  ASSUME SubTyped,
         NEW task \in TaskRecords,
         sub' = [sub EXCEPT !.task = task]
  PROVE  SubTyped' /\ SubcloudStays /\ RepoStays
BY DEF SubTyped, SubcloudRecords, SubcloudStays, Becoming, RepoStays

LEMMA UpgradeSet ==
  ASSUME SubTyped, NEW upgrade \in UpgradeStates, sub' = [sub EXCEPT !.upgrade = upgrade]
  PROVE  /\ SubTyped' /\ RepoStays
         /\ Becoming(sub.disk, sub.load, upgrade, sub.upgraded, sub.reach, sub.vim)
<1> HIDE DEF UpgradeStates
<1> QED BY DEF SubTyped, SubcloudRecords, Becoming, RepoStays

LEMMA VimSet ==
  ASSUME SubTyped,
         NEW vim \in {"none", "building", "ready", "applying", "applied", "failed"},
         sub' = [sub EXCEPT !.vim = vim]
  PROVE  /\ SubTyped' /\ RepoStays
         /\ Becoming(sub.disk, sub.load, sub.upgrade, sub.upgraded, sub.reach, vim)
BY DEF SubTyped, SubcloudRecords, Becoming, RepoStays

LEMMA ReachSet ==
  ASSUME SubTyped, NEW reach \in BOOLEAN, sub' = [sub EXCEPT !.reach = reach]
  PROVE  /\ SubTyped' /\ RepoStays
         /\ Becoming(sub.disk, sub.load, sub.upgrade, sub.upgraded, reach, sub.vim)
BY DEF SubTyped, SubcloudRecords, Becoming, RepoStays

\* An installation, whatever comes of it, leaves a subcloud that does not answer.
LEMMA DiskSet ==
  ASSUME SubTyped, NEW disk \in {"wiped", "installed"}, sub' = Disk(disk)
  PROVE  /\ SubTyped' /\ RepoStays
         /\ sub'.reach => sub.reach /\ disk = sub.disk
         /\ Becoming(disk, sub.load, sub.upgrade, sub.upgraded, sub'.reach, sub.vim)
<1>1. PICK reach \in BOOLEAN :
        /\ sub' = [sub EXCEPT !.disk = disk, !.reach = reach]
        /\ reach => sub.reach /\ disk = sub.disk
  BY DEF Disk, SubTyped, SubcloudRecords
<1> QED BY <1>1 DEF SubTyped, SubcloudRecords, Becoming, RepoStays

LEMMA MigratedSet ==
  ASSUME SubTyped, sub' = Migrated
  PROVE  /\ SubTyped' /\ RepoStays
         /\ Becoming("migrated", "new", "upgrading-hosts", {"controller-0"}, FALSE, sub.vim)
<1>1. NoTask \in TaskRecords
  BY DEF TaskRecords
<1>2. /\ [version |-> "old", state |-> "imported"] \in [version : Versions, state : LoadStates]
      /\ {"controller-0"} \in SUBSET Hosts /\ {} \in SUBSET Hosts
      /\ "new" \in Versions /\ "upgrading-hosts" \in UpgradeStates
  BY DEF Versions, LoadStates, Hosts, UpgradeStates
<1> HIDE DEF NoTask, Versions, LoadStates, Hosts, UpgradeStates
<1> QED BY <1>1, <1>2 DEF Migrated, SubTyped, SubcloudRecords, Becoming, RepoStays

--------------------------------------------------------------------------------
(* What a step other than one of the patches has to show.                  *)

Facts ==
  /\ StepTyped /\ SubTyped /\ deploy \in DeployStates
  /\ sub.mode \in {"simplex", "duplex"}

LEMMA TypeFacts == IInv => Facts
<1>1. SubTyped => sub.mode \in {"simplex", "duplex"}
  BY ConstantsAssumption DEF SubTyped, SubcloudRecords, ConstantsAssumption
<1> QED BY <1>1 DEF IInv, TypeOK, Facts, StepTyped, SubTyped

LEMMA StepStays == StepTyped /\ UNCHANGED step => StepTyped'
BY DEF StepTyped

\* An upgrade begins only where the patches are known to be there.
NothingBegins ==
  /\ RepoStays
  /\ Begun' => Begun
  /\ UNCHANGED step \/ step'.pc = "begin" \/ step'.state # "updating patches"

Good == StepTyped' /\ SubTyped' /\ deploy' \in DeployStates /\ Progress' /\ NothingBegins

\* The states in which nothing has been upgraded, but by an earlier strategy.
EarlyStates ==
  {"none", "failed", "pre check", "installing license", "importing load",
   "updating patches", "finishing patch strategy", "starting upgrade",
   "transferring CA certificate"}
  \cup IF sub.mode = "simplex" THEN {"locking controller-0", "upgrading simplex"}
       ELSE {"locking controller-1", "upgrading duplex"}

\* An operator goes on, or ends, without anything having been upgraded.
StepsEarly ==
  \/ UNCHANGED step
  \/ /\ step'.state \in EarlyStates \cup {step.state}
     /\ step'.pc \notin {"install", "playbook", "reboot"}

\* The steps of most operators.
Calm == SubcloudStays /\ UNCHANGED deploy /\ StepsEarly

LEMMA CalmKeeps ==
  ASSUME IInv, Calm
  PROVE  Progress'
<1>0. /\ SubcloudStays /\ Upgraded' = Upgraded /\ Lives' = Lives /\ deploy' = deploy
      /\ Progress
  BY DEF Calm, SubcloudStays, Becoming, Upgraded, HostsOf, Lives, IInv
<1>1. SimplexOK'
  BY <1>0 DEF Progress, Calm, StepsEarly, SubcloudStays, Becoming, SimplexOK,
     EarlyStates, DuplexStates, LastStates, IsAt
<1>2. DuplexOK'
  BY <1>0 DEF Progress, Calm, StepsEarly, SubcloudStays, Becoming, DuplexOK,
     EarlyStates, SimplexStates, DuplexStates, LastStates
<1>3. ReachOK'
  BY <1>0 DEF Progress, SubcloudStays, Becoming, ReachOK
<1>4. CompleteOK'
  BY <1>0 DEF Progress, Calm, StepsEarly, CompleteOK, EarlyStates
<1> QED BY <1>1, <1>2, <1>3, <1>4 DEF Progress

\* The step of an operator that leaves it to the next one, or to itself.
LEMMA CalmIsGood ==
  ASSUME IInv, Calm, StepTyped', SubTyped', RepoStays,
         \/ UNCHANGED step \/ step'.state \in Unprepared
         \/ step.state \notin Unprepared,
         UNCHANGED step \/ step'.pc = "begin" \/ step'.state # "updating patches"
  PROVE  Good
<1>1. Progress' /\ deploy' \in DeployStates
  BY CalmKeeps, TypeFacts DEF Calm, Facts
<1>2. NothingBegins
  BY DEF NothingBegins, Begun, Calm, SubcloudStays, Becoming
<1> QED BY <1>1, <1>2 DEF Good

--------------------------------------------------------------------------------
(* The steps that leave the progress of the upgrade alone.                 *)

LEMMA CalmSteps ==
  ASSUME IInv,
         \/ InstallLicense \/ TransferCertificate \/ OldLoadDeleted
         \/ WaitForImport \/ WaitForStart
         \/ CollectUpgradeData \/ RecallUpgradeData \/ GivesUp \/ NewStrategy
         \/ Audit \/ Provide \/ CentralApplies
  PROVE  Good
<1>0. StepTyped /\ SubTyped
  BY TypeFacts DEF Facts
<1>1. UNCHANGED <<sub, deploy>>
  BY DEF InstallLicense, TransferCertificate, OldLoadDeleted, WaitForImport,
         WaitForStart, CollectUpgradeData, RecallUpgradeData, GivesUp, NewStrategy,
         Audit, Provide, CentralApplies, Quiet, Asks
<1>2. SubTyped' /\ SubcloudStays /\ RepoStays
  BY <1>0, <1>1, Unchanged
<1> DEFINE Moves ==
      \/ UNCHANGED step
      \/ Raise \/ Enter("pre check") \/ Enter("updating patches")
      \/ Begins("installing license") /\ Enter("importing load")
      \/ Begins("transferring CA certificate") /\ sub.mode = "simplex"
                                               /\ Enter("locking controller-0")
      \/ Begins("transferring CA certificate") /\ sub.mode # "simplex"
                                               /\ Enter("locking controller-1")
      \/ step.state = "importing load" /\ At("import")
      \/ Waits("starting upgrade") /\ Enter("transferring CA certificate")
      \/ step.state = "upgrading simplex" /\ At("enter")
<1>3. Moves
  <2> USE DEF Quiet, Asks
  <2>1. CASE InstallLicense BY <2>1 DEF InstallLicense
  <2>2. CASE TransferCertificate BY <2>2 DEF TransferCertificate
  <2>3. CASE OldLoadDeleted BY <2>3 DEF OldLoadDeleted
  <2>4. CASE WaitForImport BY <2>4 DEF WaitForImport
  <2>5. CASE WaitForStart BY <2>5 DEF WaitForStart
  <2>6. CASE CollectUpgradeData BY <2>6 DEF CollectUpgradeData
  <2>7. CASE RecallUpgradeData BY <2>7 DEF RecallUpgradeData
  <2>8. CASE GivesUp BY <2>8 DEF GivesUp
  <2>9. CASE NewStrategy BY <2>9 DEF NewStrategy
  <2>10. CASE Audit \/ Provide \/ CentralApplies BY <2>10 DEF Audit, Provide, CentralApplies
  <2> QED BY <2>1, <2>2, <2>3, <2>4, <2>5, <2>6, <2>7, <2>8, <2>9, <2>10
<1>4. StepTyped' /\ StepsEarly
  BY <1>0, <1>3, Entered, Moved, StepStays
     DEF Raise, StepsEarly, EarlyStates, Pcs, StepStates, Ended
<1>5. \/ UNCHANGED step \/ step'.state \in Unprepared \/ step.state \notin Unprepared
  <2>1. Waits("starting upgrade") => step.state = "starting upgrade"
    BY WhereWaits, Zenon DEF IsAt
  <2>2. Begins("transferring CA certificate") => step.state = "transferring CA certificate"
    BY WhereBegins, Zenon DEF IsAt
  <2> QED BY <1>0, <1>3, <2>1, <2>2, Entered, Moved
             DEF Raise, Unprepared, StepStates, Ended, Pcs
<1>6. UNCHANGED step \/ step'.pc = "begin" \/ step'.state # "updating patches"
  BY <1>0, <1>3, Entered, Moved DEF Raise, Pcs, StepStates, Ended
<1> QED BY <1>1, <1>2, <1>4, <1>5, <1>6, CalmIsGood DEF Calm

LEMMA LoadSteps ==
  ASSUME IInv, ImportLoad \/ RequestImport
  PROVE  Good
<1>0. StepTyped /\ SubTyped
  BY TypeFacts DEF Facts
<1>1. /\ step.state = "importing load"
      /\ Asks
      /\ Raise \/ Enter("updating patches") \/ At("delete") \/ At("import") \/ At("wait")
      /\ \/ UNCHANGED sub
         \/ sub' = [sub EXCEPT !.other.state = "deleting"]
         \/ \E other \in [version : Versions, state : LoadStates] :
              sub' = [sub EXCEPT !.other = other]
  <2>1. CASE ImportLoad
    BY <2>1, WhereBegins DEF ImportLoad, Quiet, IsAt
  <2>2. CASE RequestImport
    <3>1. [version |-> "new", state |-> "imported"] \in [version : Versions, state : LoadStates]
      BY DEF Versions, LoadStates
    <3>2. [version |-> "new", state |-> "importing"] \in [version : Versions, state : LoadStates]
      BY DEF Versions, LoadStates
    <3> HIDE DEF Versions, LoadStates
    <3> QED BY <2>2, <3>1, <3>2 DEF RequestImport, Quiet
  <2> QED BY <2>1, <2>2
<1>2. SubTyped' /\ SubcloudStays /\ RepoStays
  BY <1>0, <1>1, Unchanged, OtherSet, OtherStateSet DEF LoadStates
<1>3. UNCHANGED deploy
  BY <1>1 DEF Asks
<1>4. StepTyped' /\ StepsEarly /\ step'.state \in Unprepared
      /\ (step'.pc = "begin" \/ step'.state # "updating patches")
  BY <1>0, <1>1, Entered, Moved
     DEF StepsEarly, EarlyStates, Raise, Unprepared, Ended, Pcs, StepStates
<1> QED BY <1>2, <1>3, <1>4, CalmIsGood DEF Calm


--------------------------------------------------------------------------------
(* The operators that take the upgrade further.                            *)

LEMMA StartUpgradeGood ==
  ASSUME IInv, StartUpgrade
  PROVE  Good
<1>0. Facts /\ Progress
  BY TypeFacts DEF IInv
<1>1. /\ IsAt("starting upgrade", "begin")
      /\ deploy' = deploy
      /\ \/ UNCHANGED sub /\ (Raise \/ Enter("transferring CA certificate"))
         \/ /\ At("wait") /\ sub' = [sub EXCEPT !.upgrade = "starting"]
            /\ sub.reach /\ sub.load = "old" /\ sub.upgrade = "none"
  BY WhereBegins DEF StartUpgrade, Quiet, Asks, Answers
<1>2. /\ SubTyped' /\ RepoStays
      /\ \/ SubcloudStays
         \/ /\ Becoming(sub.disk, sub.load, "starting", sub.upgraded, sub.reach, sub.vim)
            /\ sub.reach /\ sub.load = "old" /\ sub.upgrade = "none"
  BY <1>0, <1>1, Unchanged, UpgradeSet DEF Facts, UpgradeStates
<1>3. /\ StepTyped'
      /\ step'.state \in {"failed", "starting upgrade", "transferring CA certificate"}
      /\ step'.pc \in {"begin", "wait"}
  BY <1>0, <1>1, Entered, Moved
     DEF Facts, Raise, Ended, IsAt, Pcs, StepStates
<1>4. SimplexOK'
  BY <1>0, <1>1, <1>2, <1>3
     DEF Progress, SimplexOK, SubcloudStays, Becoming, DuplexStates, LastStates,
         Activated,
         IsAt, Lives, ReachOK
<1>5. DuplexOK'
  BY <1>0, <1>1, <1>2, <1>3
     DEF Progress, DuplexOK, SubcloudStays, Becoming, SimplexStates, DuplexStates,
         LastStates, Activated, Upgraded, HostsOf, IsAt
<1>6. ReachOK'
  BY <1>0, <1>1, <1>2, <1>3 DEF Progress, ReachOK, SubcloudStays, Becoming, Lives
<1>7. CompleteOK'
  BY <1>0, <1>1, <1>2, <1>3
     DEF Progress, SimplexOK, DuplexOK, CompleteOK, SubcloudStays, Becoming,
         LastStates, Upgraded, HostsOf,
         DuplexStates, Activated, IsAt, Facts
<1>8. NothingBegins
  BY <1>0, <1>1, <1>2, <1>3
     DEF NothingBegins, Begun, SubcloudStays, Becoming, IsAt, Unprepared, Ended
<1>9. deploy' \in DeployStates
  BY <1>0, <1>1, <1>2, <1>3 DEF Facts, DeployStates, Auditable
<1> QED BY <1>2, <1>3, <1>4, <1>5, <1>6, <1>7, <1>8, <1>9 DEF Good, Progress

\* Where the operators of a host go on.
AfterHost(state) ==
  IF state = "locking controller-0" THEN "upgrading simplex"
  ELSE IF state = "locking controller-1" THEN "upgrading duplex"
  ELSE IF state \in {"unlocking controller-0", "swacting to controller-0"}
  THEN "activating upgrade"
  ELSE IF state = "unlocking controller-1" THEN "swacting to controller-1"
  ELSE "creating VIM upgrade strategy"

LEMMA HostStateFacts ==
  ASSUME NEW state, NEW op \in {"lock", "unlock", "swact"}, NEW host \in Hosts, NEW next,
         NEW done, NEW accepts, HostState(state, op, host, next, done, accepts)
  PROVE  /\ step.state = state
         /\ deploy' = deploy
         /\ Raise \/ At("wait") \/ Enter(next)
         /\ \/ UNCHANGED sub
            \/ \E task \in [op : {"lock", "unlock", "swact"}, host : Hosts] :
                 sub' = [sub EXCEPT !.task = task]
<1>1. step.state = state
  BY WhereBegins, WhereWaits, Zenon DEF HostState, IsAt
<1>2. deploy' = deploy
  BY DEF HostState, Quiet, Asks
<1>3. Raise \/ At("wait") \/ Enter(next)
  BY Zenon DEF HostState
<1>4. UNCHANGED sub \/ sub' = [sub EXCEPT !.task = [op |-> op, host |-> host]]
  BY Zenon DEF HostState
<1>5. [op |-> op, host |-> host] \in [op : {"lock", "unlock", "swact"}, host : Hosts]
  OBVIOUS
<1> QED BY <1>1, <1>2, <1>3, <1>4, <1>5, Zenon

LEMMA HostFacts ==
  ASSUME HostOperators
  PROVE  \E state \in {"locking controller-0", "locking controller-1",
                       "unlocking controller-0", "unlocking controller-1",
                       "swacting to controller-1", "swacting to controller-0"} :
           /\ step.state = state
           /\ deploy' = deploy
           /\ Raise \/ At("wait") \/ Enter(AfterHost(state))
           /\ UNCHANGED sub
              \/ \E task \in [op : {"lock", "unlock", "swact"}, host : Hosts] :
                    sub' = [sub EXCEPT !.task = task]
<1> USE HostStateFacts DEF AfterHost, Hosts
<1>1. CASE Lock("controller-0", "locking controller-0", "upgrading simplex")
  BY <1>1 DEF Lock
<1>2. CASE Lock("controller-1", "locking controller-1", "upgrading duplex")
  BY <1>2 DEF Lock
<1>3. CASE Unlock("controller-0", "unlocking controller-0", "activating upgrade")
  BY <1>3 DEF Unlock
<1>4. CASE Unlock("controller-1", "unlocking controller-1", "swacting to controller-1")
  BY <1>4 DEF Unlock
<1>5. CASE Swact("controller-1", "swacting to controller-1", "creating VIM upgrade strategy")
  BY <1>5 DEF Swact
<1>6. CASE Swact("controller-0", "swacting to controller-0", "activating upgrade")
  BY <1>6 DEF Swact
<1> QED BY <1>1, <1>2, <1>3, <1>4, <1>5, <1>6 DEF HostOperators

LEMMA HostGood ==
  ASSUME IInv, HostOperators
  PROVE  Good
<1>0. Facts /\ Progress
  BY TypeFacts DEF IInv
<1>1. \E state \in {"locking controller-0", "locking controller-1", "unlocking controller-0",
                "unlocking controller-1", "swacting to controller-1",
                "swacting to controller-0"} :
        /\ step.state = state
        /\ deploy' = deploy
        /\ Raise \/ At("wait") \/ Enter(AfterHost(state))
        /\ UNCHANGED sub
           \/ \E task \in [op : {"lock", "unlock", "swact"}, host : Hosts] :
                 sub' = [sub EXCEPT !.task = task]
  BY HostFacts
<1>2. SubTyped' /\ SubcloudStays /\ RepoStays
  BY <1>0, <1>1, Unchanged, TaskSet DEF Facts, TaskRecords
<1>3. /\ StepTyped'
      /\ step.state \notin Unprepared
      /\ \/ step'.state \in {"failed", step.state}
         \/ step.state = "locking controller-0" /\ step'.state = "upgrading simplex"
         \/ step.state = "locking controller-1" /\ step'.state = "upgrading duplex"
         \/ step.state = "unlocking controller-0" /\ step'.state = "activating upgrade"
         \/ step.state = "unlocking controller-1" /\ step'.state = "swacting to controller-1"
         \/ step.state = "swacting to controller-1"
            /\ step'.state = "creating VIM upgrade strategy"
         \/ step.state = "swacting to controller-0" /\ step'.state = "activating upgrade"
      /\ step'.pc \in {"begin", "wait"}
  BY <1>0, <1>1, Entered, Moved
     DEF Facts, Raise, Ended, IsAt, Pcs, StepStates, AfterHost, Unprepared
<1>4. SimplexOK'
  BY <1>0, <1>1, <1>2, <1>3
     DEF Progress, SimplexOK, SubcloudStays, Becoming, DuplexStates, LastStates,
         Activated,
         IsAt, Lives, ReachOK
<1>5. DuplexOK'
  BY <1>0, <1>1, <1>2, <1>3
     DEF Progress, DuplexOK, SubcloudStays, Becoming, SimplexStates, DuplexStates,
         LastStates, Activated, Upgraded, HostsOf, IsAt
<1>6. ReachOK'
  BY <1>0, <1>1, <1>2, <1>3 DEF Progress, ReachOK, SubcloudStays, Becoming, Lives
<1>7. CompleteOK'
  BY <1>0, <1>1, <1>2, <1>3
     DEF Progress, SimplexOK, DuplexOK, CompleteOK, SubcloudStays, Becoming,
         LastStates, Upgraded, HostsOf,
         DuplexStates, Activated, IsAt, Facts
<1>8. NothingBegins
  BY <1>0, <1>1, <1>2, <1>3
     DEF NothingBegins, Begun, SubcloudStays, Becoming, IsAt, Unprepared, Ended
<1>9. deploy' \in DeployStates
  BY <1>0, <1>1, <1>2, <1>3 DEF Facts, DeployStates, Auditable
<1> QED BY <1>2, <1>3, <1>4, <1>5, <1>6, <1>7, <1>8, <1>9 DEF Good, Progress

LEMMA DuplexGood ==
  ASSUME IInv, UpgradeDuplex \/ WaitForDuplex
  PROVE  Good
<1>0. Facts /\ Progress
  BY TypeFacts DEF IInv
<1>1. /\ step.state = "upgrading duplex"
      /\ deploy' = deploy
      /\ \/ UNCHANGED sub /\ Raise
         \/ /\ UNCHANGED sub /\ sub.upgrade = "data-migration-complete"
            /\ Enter("unlocking controller-1")
         \/ At("wait") /\ sub' = [sub EXCEPT !.upgrade = "data-migration"]
            /\ sub.upgrade = "started"
  BY WhereBegins, WhereWaits, Where DEF UpgradeDuplex, WaitForDuplex, Quiet, Asks, IsAt
<1>2. /\ SubTyped' /\ RepoStays
      /\ \/ SubcloudStays
         \/ /\ Becoming(sub.disk, sub.load, "data-migration", sub.upgraded, sub.reach, sub.vim)
            /\ sub.upgrade = "started"
            /\ step'.state = step.state
  BY <1>0, <1>1, Unchanged, UpgradeSet, Moved DEF Facts, UpgradeStates, Pcs
<1>3. /\ StepTyped'
      /\ \/ step'.state \in {"failed", "upgrading duplex"}
         \/ SubcloudStays /\ step'.state = "unlocking controller-1"
            /\ sub.upgrade = "data-migration-complete"
      /\ step'.pc \in {"begin", "wait"}
  BY <1>0, <1>1, Unchanged, Entered, Moved
     DEF Facts, Raise, Ended, IsAt, Pcs, StepStates
<1>4. SimplexOK'
  BY <1>0, <1>1, <1>2, <1>3
     DEF Progress, SimplexOK, SubcloudStays, Becoming, DuplexStates, LastStates,
         Activated,
         IsAt, Lives, ReachOK
<1>5. DuplexOK'
  BY <1>0, <1>1, <1>2, <1>3
     DEF Progress, DuplexOK, SubcloudStays, Becoming, SimplexStates, DuplexStates,
         LastStates, Activated, Upgraded, HostsOf, IsAt
<1>6. ReachOK'
  BY <1>0, <1>1, <1>2, <1>3 DEF Progress, ReachOK, SubcloudStays, Becoming, Lives
<1>7. CompleteOK'
  BY <1>0, <1>1, <1>2, <1>3
     DEF Progress, SimplexOK, DuplexOK, CompleteOK, SubcloudStays, Becoming,
         LastStates, Upgraded, HostsOf,
         DuplexStates, Activated, IsAt, Facts
<1>8. NothingBegins
  BY <1>0, <1>1, <1>2, <1>3
     DEF NothingBegins, Begun, SubcloudStays, Becoming, IsAt, Unprepared, Ended
<1>9. deploy' \in DeployStates
  BY <1>0, <1>1, <1>2, <1>3 DEF Facts, DeployStates, Auditable
<1> QED BY <1>2, <1>3, <1>4, <1>5, <1>6, <1>7, <1>8, <1>9 DEF Good, Progress

LEMMA VimStrategyGood ==
  ASSUME IInv, CreateVimStrategy \/ WaitForVimStrategy \/ ApplyVimStrategy \/ WaitForVim
  PROVE  Good
<1>0. Facts /\ Progress
  BY TypeFacts DEF IInv
<1>1. /\ step.state \in {"creating VIM upgrade strategy", "applying VIM upgrade strategy"}
      /\ deploy' = deploy
      /\ Raise \/ At("wait") \/ Enter("applying VIM upgrade strategy")
         \/ Enter("swacting to controller-0")
      /\ UNCHANGED sub \/ sub' = [sub EXCEPT !.vim = "building"]
         \/ sub' = [sub EXCEPT !.vim = IF @ = "ready" THEN "applying" ELSE @]
  BY WhereBegins, WhereWaits, Where DEF CreateVimStrategy, WaitForVimStrategy,
     ApplyVimStrategy,
         WaitForVim, Quiet, Asks, IsAt
<1>2. /\ SubTyped' /\ RepoStays
      /\ Becoming(sub.disk, sub.load, sub.upgrade, sub.upgraded, sub.reach, sub'.vim)
  <2>1. \E vim \in {"none", "building", "ready", "applying", "applied", "failed"} :
          UNCHANGED sub \/ sub' = [sub EXCEPT !.vim = vim]
    BY <1>0, <1>1 DEF Facts, SubTyped, SubcloudRecords
  <2> QED BY <1>0, <2>1, Unchanged, VimSet DEF Facts, SubcloudStays, Becoming
<1>3. /\ StepTyped'
      /\ step'.state \in {"failed", "creating VIM upgrade strategy",
                         "applying VIM upgrade strategy", "swacting to controller-0"}
      /\ step'.pc \in {"begin", "wait"}
  BY <1>0, <1>1, Entered, Moved
     DEF Facts, Raise, Ended, IsAt, Pcs, StepStates
<1>4. SimplexOK'
  BY <1>0, <1>1, <1>2, <1>3
     DEF Progress, SimplexOK, SubcloudStays, Becoming, DuplexStates, LastStates,
         Activated,
         IsAt, Lives, ReachOK
<1>5. DuplexOK'
  BY <1>0, <1>1, <1>2, <1>3
     DEF Progress, DuplexOK, SubcloudStays, Becoming, SimplexStates, DuplexStates,
         LastStates, Activated, Upgraded, HostsOf, IsAt
<1>6. ReachOK'
  BY <1>0, <1>1, <1>2, <1>3 DEF Progress, ReachOK, SubcloudStays, Becoming, Lives
<1>7. CompleteOK'
  BY <1>0, <1>1, <1>2, <1>3
     DEF Progress, SimplexOK, DuplexOK, CompleteOK, SubcloudStays, Becoming,
         LastStates, Upgraded, HostsOf,
         DuplexStates, Activated, IsAt, Facts
<1>8. NothingBegins
  BY <1>0, <1>1, <1>2, <1>3
     DEF NothingBegins, Begun, SubcloudStays, Becoming, IsAt, Unprepared, Ended
<1>9. deploy' \in DeployStates
  BY <1>0, <1>1, <1>2, <1>3 DEF Facts, DeployStates, Auditable
<1> QED BY <1>2, <1>3, <1>4, <1>5, <1>6, <1>7, <1>8, <1>9 DEF Good, Progress

LEMMA ActivationGood ==
  ASSUME IInv, BeginActivation \/ Activate \/ WaitForActivation
  PROVE  Good
<1>0. Facts /\ Progress
  BY TypeFacts DEF IInv
<1>1. /\ step.state = "activating upgrade"
      /\ deploy' = deploy
      /\ UNCHANGED step \/ Raise \/ At("activate") \/ At("wait") \/ Enter("completing upgrade")
      /\ \/ UNCHANGED sub
         \/ /\ sub' = [sub EXCEPT !.upgrade = "activating"]
            /\ UNCHANGED step \/ At("wait")
            /\ \/ sub.upgraded = HostsOf /\ sub.upgrade = "upgrading-hosts"
               \/ sub.upgrade = "activation-failed"
  BY WhereBegins, WhereWaits, Where DEF BeginActivation, Activate, WaitForActivation,
         Activatable, AllUpgraded, Activating, Quiet, Asks, IsAt
<1>2. /\ SubTyped' /\ RepoStays
      /\ \/ SubcloudStays
         \/ /\ Becoming(sub.disk, sub.load, "activating", sub.upgraded, sub.reach, sub.vim)
            /\ step'.state = step.state
            /\ \/ sub.upgraded = HostsOf /\ sub.upgrade = "upgrading-hosts"
               \/ sub.upgrade = "activation-failed"
  BY <1>0, <1>1, Unchanged, UpgradeSet, Moved DEF Facts, UpgradeStates, Pcs
<1>3. /\ StepTyped'
      /\ step'.state \in {"failed", "activating upgrade", "completing upgrade"}
      /\ UNCHANGED step \/ step'.pc \in {"begin", "wait", "activate"}
  BY <1>0, <1>1, StepStays, Entered, Moved
     DEF Facts, Raise, Ended, IsAt, Pcs, StepStates
<1>4. SimplexOK'
  BY <1>0, <1>1, <1>2, <1>3
     DEF Progress, SimplexOK, SubcloudStays, Becoming, DuplexStates, LastStates,
         Activated,
         IsAt, Lives, ReachOK
<1>5. DuplexOK'
  BY <1>0, <1>1, <1>2, <1>3
     DEF Progress, DuplexOK, SubcloudStays, Becoming, SimplexStates, DuplexStates,
         LastStates, Activated, Upgraded, HostsOf, IsAt
<1>6. ReachOK'
  BY <1>0, <1>1, <1>2, <1>3 DEF Progress, ReachOK, SubcloudStays, Becoming, Lives
<1>7. CompleteOK'
  BY <1>0, <1>1, <1>2, <1>3
     DEF Progress, SimplexOK, DuplexOK, CompleteOK, SubcloudStays, Becoming,
         LastStates, Upgraded, HostsOf,
         DuplexStates, Activated, IsAt, Facts
<1>8. NothingBegins
  BY <1>0, <1>1, <1>2, <1>3
     DEF NothingBegins, Begun, SubcloudStays, Becoming, IsAt, Unprepared, Ended
<1>9. deploy' \in DeployStates
  BY <1>0, <1>1, <1>2, <1>3 DEF Facts, DeployStates, Auditable
<1> QED BY <1>2, <1>3, <1>4, <1>5, <1>6, <1>7, <1>8, <1>9 DEF Good, Progress

LEMMA CompletionGood ==
  ASSUME IInv, CompleteUpgrade \/ WaitForCompletion
  PROVE  Good
<1>0. Facts /\ Progress
  BY TypeFacts DEF IInv
<1>1. /\ step.state = "completing upgrade"
      /\ \/ /\ Enter("deleting load") /\ deploy' = "complete" /\ UNCHANGED sub
            /\ sub.upgrade = "none"
         \/ Raise /\ UNCHANGED <<deploy, sub>>
         \/ /\ At("wait") /\ UNCHANGED deploy
            /\ sub.upgrade = "activation-complete"
            /\ sub' = [sub EXCEPT !.upgrade = "completing"]
  BY WhereBegins, WhereWaits, Where DEF CompleteUpgrade, WaitForCompletion, Finalize,
     IsAt
<1>2. /\ SubTyped' /\ RepoStays
      /\ \/ /\ SubcloudStays /\ deploy' = "complete" /\ sub.upgrade = "none"
            /\ step'.state = "deleting load"
         \/ SubcloudStays /\ deploy' = deploy /\ step'.state = "failed"
         \/ /\ Becoming(sub.disk, sub.load, "completing", sub.upgraded, sub.reach, sub.vim)
            /\ sub.upgrade = "activation-complete" /\ deploy' = deploy
            /\ step'.state = step.state
  BY <1>0, <1>1, Unchanged, UpgradeSet, Entered, Moved
     DEF Facts, UpgradeStates, Pcs, StepStates, Ended, Raise
<1>3. StepTyped' /\ step'.pc \in {"begin", "wait"}
  BY <1>0, <1>1, Entered, Moved
     DEF Facts, Raise, Ended, Pcs, StepStates
<1>4. SimplexOK'
  BY <1>0, <1>1, <1>2, <1>3
     DEF Progress, SimplexOK, SubcloudStays, Becoming, DuplexStates, LastStates,
         Activated,
         IsAt, Lives, ReachOK
<1>5. DuplexOK'
  BY <1>0, <1>1, <1>2, <1>3
     DEF Progress, DuplexOK, SubcloudStays, Becoming, SimplexStates, DuplexStates,
         LastStates, Activated, Upgraded, HostsOf, IsAt
<1>6. ReachOK'
  BY <1>0, <1>1, <1>2, <1>3 DEF Progress, ReachOK, SubcloudStays, Becoming, Lives
<1>7. CompleteOK'
  BY <1>0, <1>1, <1>2, <1>3
     DEF Progress, SimplexOK, DuplexOK, CompleteOK, SubcloudStays, Becoming,
         LastStates, Upgraded, HostsOf,
         DuplexStates, Activated, IsAt, Facts
<1>8. NothingBegins
  BY <1>0, <1>1, <1>2, <1>3
     DEF NothingBegins, Begun, SubcloudStays, Becoming, IsAt, Unprepared, Ended
<1>9. deploy' \in DeployStates
  BY <1>0, <1>1, <1>2, <1>3 DEF Facts, DeployStates, Auditable
<1> QED BY <1>2, <1>3, <1>4, <1>5, <1>6, <1>7, <1>8, <1>9 DEF Good, Progress

LEMMA DeleteLoadGood ==
  ASSUME IInv, DeleteLoad \/ LoadIsDeleted
  PROVE  Good
<1>0. Facts /\ Progress
  BY TypeFacts DEF IInv
<1>1. /\ step.state = "deleting load"
      /\ deploy' = deploy
      /\ Raise \/ Enter("complete") \/ At("wait")
      /\ UNCHANGED sub \/ sub' = [sub EXCEPT !.other.state = "deleting"]
  BY WhereBegins, WhereWaits, Where DEF DeleteLoad, LoadIsDeleted, Quiet, Asks, IsAt
<1>2. SubTyped' /\ SubcloudStays /\ RepoStays
  BY <1>0, <1>1, Unchanged, OtherStateSet DEF Facts, LoadStates
<1>3. /\ StepTyped'
      /\ step'.state \in {"failed", "deleting load", "complete"}
      /\ step'.pc \in {"begin", "wait"}
  BY <1>0, <1>1, Entered, Moved
     DEF Facts, Raise, Ended, IsAt, Pcs, StepStates
<1>4. SimplexOK'
  BY <1>0, <1>1, <1>2, <1>3
     DEF Progress, SimplexOK, SubcloudStays, Becoming, DuplexStates, LastStates,
         Activated,
         IsAt, Lives, ReachOK
<1>5. DuplexOK'
  BY <1>0, <1>1, <1>2, <1>3
     DEF Progress, DuplexOK, SubcloudStays, Becoming, SimplexStates, DuplexStates,
         LastStates, Activated, Upgraded, HostsOf, IsAt
<1>6. ReachOK'
  BY <1>0, <1>1, <1>2, <1>3 DEF Progress, ReachOK, SubcloudStays, Becoming, Lives
<1>7. CompleteOK'
  BY <1>0, <1>1, <1>2, <1>3
     DEF Progress, SimplexOK, DuplexOK, CompleteOK, SubcloudStays, Becoming,
         LastStates, Upgraded, HostsOf,
         DuplexStates, Activated, IsAt, Facts
<1>8. NothingBegins
  BY <1>0, <1>1, <1>2, <1>3
     DEF NothingBegins, Begun, SubcloudStays, Becoming, IsAt, Unprepared, Ended
<1>9. deploy' \in DeployStates
  BY <1>0, <1>1, <1>2, <1>3 DEF Facts, DeployStates, Auditable
<1> QED BY <1>2, <1>3, <1>4, <1>5, <1>6, <1>7, <1>8, <1>9 DEF Good, Progress

--------------------------------------------------------------------------------
(* The installation and the migration of a simplex subcloud.               *)

LEMMA BeginInstallGood ==
  ASSUME IInv, BeginInstall
  PROVE  Good
<1>0. Facts /\ Progress
  BY TypeFacts DEF IInv
<1>1. /\ IsAt("upgrading simplex", "begin")
      /\ UNCHANGED sub
      /\ \/ /\ sub.reach /\ sub.load = "new"
            /\ Enter("migrating data") /\ deploy' = deploy
         \/ (Raise \/ At("collect") \/ At("recall")) /\ deploy' = deploy
         \/ Raise /\ deploy' = "pre-install-failed"
  BY WhereBegins, WhereWaits, Where DEF BeginInstall, LookUp, NewLoadActive, Answers
<1>2. SubTyped' /\ SubcloudStays /\ RepoStays
  BY <1>0, <1>1, Unchanged DEF Facts
<1>3. /\ StepTyped' /\ step'.pc \in {"begin", "collect", "recall"}
      /\ \/ /\ sub.reach /\ sub.load = "new"
            /\ step'.state = "migrating data" /\ deploy' = deploy
         \/ step'.state \in {"failed", "upgrading simplex"} /\ deploy' = deploy
         \/ step'.state = "failed" /\ deploy' = "pre-install-failed"
  BY <1>0, <1>1, Entered, Moved
     DEF Facts, Raise, Ended, IsAt, Pcs, StepStates
<1>4. SimplexOK'
  BY <1>0, <1>1, <1>2, <1>3
     DEF Progress, SimplexOK, SubcloudStays, Becoming, DuplexStates, LastStates,
         Activated,
         IsAt, Lives, ReachOK
<1>5. DuplexOK'
  BY <1>0, <1>1, <1>2, <1>3
     DEF Progress, DuplexOK, SubcloudStays, Becoming, SimplexStates, DuplexStates,
         LastStates, Activated, Upgraded, HostsOf, IsAt
<1>6. ReachOK'
  BY <1>0, <1>1, <1>2, <1>3 DEF Progress, ReachOK, SubcloudStays, Becoming, Lives
<1>7. CompleteOK'
  BY <1>0, <1>1, <1>2, <1>3
     DEF Progress, SimplexOK, DuplexOK, CompleteOK, SubcloudStays, Becoming,
         LastStates, Upgraded, HostsOf,
         DuplexStates, Activated, IsAt, Facts
<1>8. NothingBegins
  BY <1>0, <1>1, <1>2, <1>3
     DEF NothingBegins, Begun, SubcloudStays, Becoming, IsAt, Unprepared, Ended
<1>9. deploy' \in DeployStates
  BY <1>0, <1>1, <1>2, <1>3 DEF Facts, DeployStates, Auditable
<1> QED BY <1>2, <1>3, <1>4, <1>5, <1>6, <1>7, <1>8, <1>9 DEF Good, Progress

LEMMA PreparationGood ==
  ASSUME IInv, EnterInstall \/ PrepareInstall
  PROVE  Good
<1>0. Facts /\ Progress
  BY TypeFacts DEF IInv
<1>1. /\ step.state = "upgrading simplex"
      /\ UNCHANGED sub
      /\ \/ At("prep") /\ deploy' = "pre-install"
         \/ At("install") /\ deploy' = "installing"
         \/ Raise /\ deploy' \in {"pre-install-failed", deploy}
  BY WhereBegins, WhereWaits, Where DEF EnterInstall, PrepareInstall, IsAt
<1>2. SubTyped' /\ SubcloudStays /\ RepoStays
  BY <1>0, <1>1, Unchanged DEF Facts
<1>3. /\ StepTyped'
      /\ \/ step'.state = "upgrading simplex" /\ step'.pc = "prep" /\ deploy' = "pre-install"
         \/ step'.state = "upgrading simplex" /\ step'.pc = "install" /\ deploy' = "installing"
         \/ /\ step'.state = "failed" /\ step'.pc = "begin"
            /\ deploy' \in {"pre-install-failed", deploy}
  BY <1>0, <1>1, Entered, Moved
     DEF Facts, Raise, Ended, IsAt, Pcs, StepStates
<1>4. SimplexOK'
  BY <1>0, <1>1, <1>2, <1>3
     DEF Progress, SimplexOK, SubcloudStays, Becoming, DuplexStates, LastStates,
         Activated,
         IsAt, Lives, ReachOK
<1>5. DuplexOK'
  BY <1>0, <1>1, <1>2, <1>3
     DEF Progress, DuplexOK, SubcloudStays, Becoming, SimplexStates, DuplexStates,
         LastStates, Activated, Upgraded, HostsOf, IsAt
<1>6. ReachOK'
  BY <1>0, <1>1, <1>2, <1>3 DEF Progress, ReachOK, SubcloudStays, Becoming, Lives
<1>7. CompleteOK'
  BY <1>0, <1>1, <1>2, <1>3
     DEF Progress, SimplexOK, DuplexOK, CompleteOK, SubcloudStays, Becoming,
         LastStates, Upgraded, HostsOf,
         DuplexStates, Activated, IsAt, Facts
<1>8. NothingBegins
  BY <1>0, <1>1, <1>2, <1>3
     DEF NothingBegins, Begun, SubcloudStays, Becoming, IsAt, Unprepared, Ended
<1>9. deploy' \in DeployStates
  BY <1>0, <1>1, <1>2, <1>3 DEF Facts, DeployStates, Auditable
<1> QED BY <1>2, <1>3, <1>4, <1>5, <1>6, <1>7, <1>8, <1>9 DEF Good, Progress

LEMMA InstallGood ==
  ASSUME IInv, Install
  PROVE  Good
<1>0. Facts /\ Progress
  BY TypeFacts DEF IInv
<1>1. /\ IsAt("upgrading simplex", "install")
      /\ \/ /\ Enter("migrating data") \/ Raise
            /\ deploy' = "installed" /\ sub' = Disk("installed")
         \/ /\ Raise /\ deploy' = "install-failed"
            /\ UNCHANGED sub \/ sub' = Disk("wiped")
  BY WhereBegins, WhereWaits, Where DEF Install
<1>2. /\ SubTyped' /\ RepoStays
      /\ \/ SubcloudStays /\ deploy' = "install-failed" /\ step'.state = "failed"
         \/ /\ Becoming("wiped", sub.load, sub.upgrade, sub.upgraded, sub'.reach, sub.vim)
            /\ sub'.reach => sub.reach /\ sub.disk = "wiped"
            /\ deploy' = "install-failed" /\ step'.state = "failed"
         \/ /\ Becoming("installed", sub.load, sub.upgrade, sub.upgraded, sub'.reach, sub.vim)
            /\ sub'.reach => sub.reach /\ sub.disk = "installed"
            /\ deploy' = "installed" /\ step'.state \in {"failed", "migrating data"}
  BY <1>0, <1>1, Unchanged, DiskSet, Entered DEF Facts, Raise, StepStates, Ended
<1>3. StepTyped' /\ step'.pc = "begin"
  BY <1>0, <1>1, Entered, Moved
     DEF Facts, Raise, Ended, IsAt, Pcs, StepStates
<1>4. SimplexOK'
  BY <1>0, <1>1, <1>2, <1>3
     DEF Progress, SimplexOK, SubcloudStays, Becoming, DuplexStates, LastStates,
         Activated,
         IsAt, Lives, ReachOK
<1>5. DuplexOK'
  BY <1>0, <1>1, <1>2, <1>3
     DEF Progress, DuplexOK, SubcloudStays, Becoming, SimplexStates, DuplexStates,
         LastStates, Activated, Upgraded, HostsOf, IsAt
<1>6. ReachOK'
  BY <1>0, <1>1, <1>2, <1>3 DEF Progress, ReachOK, SubcloudStays, Becoming, Lives
<1>7. CompleteOK'
  BY <1>0, <1>1, <1>2, <1>3
     DEF Progress, SimplexOK, DuplexOK, CompleteOK, SubcloudStays, Becoming,
         LastStates, Upgraded, HostsOf,
         DuplexStates, Activated, IsAt, Facts
<1>8. NothingBegins
  BY <1>0, <1>1, <1>2, <1>3
     DEF NothingBegins, Begun, SubcloudStays, Becoming, IsAt, Unprepared, Ended
<1>9. deploy' \in DeployStates
  BY <1>0, <1>1, <1>2, <1>3 DEF Facts, DeployStates, Auditable
<1> QED BY <1>2, <1>3, <1>4, <1>5, <1>6, <1>7, <1>8, <1>9 DEF Good, Progress

LEMMA MigrationBeginsGood ==
  ASSUME IInv, BeginMigration
  PROVE  Good
<1>0. Facts /\ Progress
  BY TypeFacts DEF IInv
<1>1. /\ IsAt("migrating data", "begin")
      /\ UNCHANGED sub
      /\ \/ /\ deploy \in {"migrated", "complete"} /\ deploy' = deploy
            /\ Enter("unlocking controller-0")
         \/ Raise /\ deploy' = "data-migration-failed"
         \/ At("playbook") /\ deploy' = "migrating-data"
  BY WhereBegins, WhereWaits, Where DEF BeginMigration
<1>2. SubTyped' /\ SubcloudStays /\ RepoStays
  BY <1>0, <1>1, Unchanged DEF Facts
<1>3. /\ StepTyped'
      /\ \/ /\ deploy \in {"migrated", "complete"} /\ deploy' = deploy
            /\ step'.state = "unlocking controller-0" /\ step'.pc = "begin"
         \/ step'.state = "failed" /\ step'.pc = "begin" /\ deploy' = "data-migration-failed"
         \/ step'.state = "migrating data" /\ step'.pc = "playbook" /\ deploy' = "migrating-data"
  BY <1>0, <1>1, Entered, Moved
     DEF Facts, Raise, Ended, IsAt, Pcs, StepStates
<1>4. SimplexOK'
  BY <1>0, <1>1, <1>2, <1>3
     DEF Progress, SimplexOK, SubcloudStays, Becoming, DuplexStates, LastStates,
         Activated,
         IsAt, Lives, ReachOK
<1>5. DuplexOK'
  BY <1>0, <1>1, <1>2, <1>3
     DEF Progress, DuplexOK, SubcloudStays, Becoming, SimplexStates, DuplexStates,
         LastStates, Activated, Upgraded, HostsOf, IsAt
<1>6. ReachOK'
  BY <1>0, <1>1, <1>2, <1>3 DEF Progress, ReachOK, SubcloudStays, Becoming, Lives
<1>7. CompleteOK'
  BY <1>0, <1>1, <1>2, <1>3
     DEF Progress, SimplexOK, DuplexOK, CompleteOK, SubcloudStays, Becoming,
         LastStates, Upgraded, HostsOf,
         DuplexStates, Activated, IsAt, Facts
<1>8. NothingBegins
  BY <1>0, <1>1, <1>2, <1>3
     DEF NothingBegins, Begun, SubcloudStays, Becoming, IsAt, Unprepared, Ended
<1>9. deploy' \in DeployStates
  BY <1>0, <1>1, <1>2, <1>3 DEF Facts, DeployStates, Auditable
<1> QED BY <1>2, <1>3, <1>4, <1>5, <1>6, <1>7, <1>8, <1>9 DEF Good, Progress

LEMMA MigrateGood ==
  ASSUME IInv, Migrate
  PROVE  Good
<1>0. Facts /\ Progress
  BY TypeFacts DEF IInv
<1>1. /\ IsAt("migrating data", "playbook")
      /\ \/ At("reboot") /\ sub' = Migrated /\ deploy' = deploy
         \/ Raise /\ deploy' = "data-migration-failed" /\ UNCHANGED sub
  BY WhereBegins, WhereWaits, Where DEF Migrate
<1>2. /\ SubTyped' /\ RepoStays
      /\ \/ /\ Becoming("migrated", "new", "upgrading-hosts", {"controller-0"}, FALSE, sub.vim)
            /\ step'.state = "migrating data" /\ deploy' = deploy
         \/ SubcloudStays /\ step'.state = "failed" /\ deploy' = "data-migration-failed"
  BY <1>0, <1>1, Unchanged, MigratedSet, Entered, Moved
     DEF Facts, Raise, StepStates, Ended, Pcs, IsAt
<1>3. StepTyped' /\ step'.pc \in {"begin", "reboot"}
  BY <1>0, <1>1, Entered, Moved
     DEF Facts, Raise, Ended, IsAt, Pcs, StepStates
<1>4. SimplexOK'
  BY <1>0, <1>1, <1>2, <1>3
     DEF Progress, SimplexOK, SubcloudStays, Becoming, DuplexStates, LastStates,
         Activated,
         IsAt, Lives, ReachOK
<1>5. DuplexOK'
  BY <1>0, <1>1, <1>2, <1>3
     DEF Progress, DuplexOK, SubcloudStays, Becoming, SimplexStates, DuplexStates,
         LastStates, Activated, Upgraded, HostsOf, IsAt
<1>6. ReachOK'
  BY <1>0, <1>1, <1>2, <1>3 DEF Progress, ReachOK, SubcloudStays, Becoming, Lives
<1>7. CompleteOK'
  BY <1>0, <1>1, <1>2, <1>3
     DEF Progress, SimplexOK, DuplexOK, CompleteOK, SubcloudStays, Becoming,
         LastStates, Upgraded, HostsOf,
         DuplexStates, Activated, IsAt, Facts
<1>8. NothingBegins
  BY <1>0, <1>1, <1>2, <1>3
     DEF NothingBegins, Begun, SubcloudStays, Becoming, IsAt, Unprepared, Ended
<1>9. deploy' \in DeployStates
  BY <1>0, <1>1, <1>2, <1>3 DEF Facts, DeployStates, Auditable
<1> QED BY <1>2, <1>3, <1>4, <1>5, <1>6, <1>7, <1>8, <1>9 DEF Good, Progress

LEMMA RebootGood ==
  ASSUME IInv, WaitForReboot \/ RebootTimesOut
  PROVE  Good
<1>0. Facts /\ Progress
  BY TypeFacts DEF IInv
<1>1. /\ IsAt("migrating data", "reboot")
      /\ UNCHANGED sub
      /\ \/ Enter("unlocking controller-0") /\ deploy' = "migrated"
         \/ Raise /\ deploy' \in {"data-migration-failed", deploy}
  BY WhereBegins, WhereWaits, Where DEF WaitForReboot, RebootTimesOut, Reboots
<1>2. SubTyped' /\ SubcloudStays /\ RepoStays
  BY <1>0, <1>1, Unchanged DEF Facts
<1>3. /\ StepTyped' /\ step'.pc = "begin"
      /\ \/ step'.state = "unlocking controller-0" /\ deploy' = "migrated"
         \/ step'.state = "failed" /\ deploy' \in {"data-migration-failed", deploy}
  BY <1>0, <1>1, Entered, Moved
     DEF Facts, Raise, Ended, IsAt, Pcs, StepStates
<1>4. SimplexOK'
  BY <1>0, <1>1, <1>2, <1>3
     DEF Progress, SimplexOK, SubcloudStays, Becoming, DuplexStates, LastStates,
         Activated,
         IsAt, Lives, ReachOK
<1>5. DuplexOK'
  BY <1>0, <1>1, <1>2, <1>3
     DEF Progress, DuplexOK, SubcloudStays, Becoming, SimplexStates, DuplexStates,
         LastStates, Activated, Upgraded, HostsOf, IsAt
<1>6. ReachOK'
  BY <1>0, <1>1, <1>2, <1>3 DEF Progress, ReachOK, SubcloudStays, Becoming, Lives
<1>7. CompleteOK'
  BY <1>0, <1>1, <1>2, <1>3
     DEF Progress, SimplexOK, DuplexOK, CompleteOK, SubcloudStays, Becoming,
         LastStates, Upgraded, HostsOf,
         DuplexStates, Activated, IsAt, Facts
<1>8. NothingBegins
  BY <1>0, <1>1, <1>2, <1>3
     DEF NothingBegins, Begun, SubcloudStays, Becoming, IsAt, Unprepared, Ended
<1>9. deploy' \in DeployStates
  BY <1>0, <1>1, <1>2, <1>3 DEF Facts, DeployStates, Auditable
<1> QED BY <1>2, <1>3, <1>4, <1>5, <1>6, <1>7, <1>8, <1>9 DEF Good, Progress

--------------------------------------------------------------------------------
(* The pre-check.                                                          *)

DuplexGoesOn ==
  sub.upgrade \in {"data-migration-complete", "upgrading-controllers",
                   "upgrading-hosts", "activation-failed", "activation-complete"}

\* Where the pre-check goes on, and by what it knows that it may.
Choice ==
  \/ Raise /\ deploy' = deploy
  \/ Enter("installing license") /\ deploy' = deploy
  \/ /\ deploy \in PreInstallFailures \cup {"data-migration-failed"}
     /\ Enter("upgrading simplex") /\ deploy' = deploy
  \/ deploy = "installed" /\ Enter("migrating data") /\ deploy' = deploy
  \/ deploy = "migrated" /\ Enter("activating upgrade") /\ deploy' = deploy
  \/ /\ deploy = "data-migration-failed" /\ sub.reach
     /\ sub.mode = "simplex"
     /\ Enter("activating upgrade") /\ deploy' = "migrated"
  \/ /\ sub.mode # "simplex" /\ DuplexGoesOn
     /\ \E s \in {"unlocking controller-1", "swacting to controller-1",
                  "creating VIM upgrade strategy", "activating upgrade",
                  "swacting to controller-0", "completing upgrade"} : Enter(s)
     /\ deploy' = deploy

LEMMA OfflineFacts ==
  ASSUME Offline, UNCHANGED deploy
  PROVE  Choice
<1>1. \/ Raise
      \/ /\ deploy \in PreInstallFailures \cup {"data-migration-failed"}
         /\ Enter("upgrading simplex")
      \/ deploy = "installed" /\ Enter("migrating data")
      \/ deploy = "migrated" /\ Enter("activating upgrade")
  BY Zenon DEF Offline
<1> QED BY <1>1 DEF Choice

LEMMA SimplexFacts ==
  ASSUME SimplexOnline, Answers, sub.mode = "simplex"
  PROVE  Choice
<1>1. \/ deploy \in PreInstallFailures /\ Enter("upgrading simplex") /\ UNCHANGED deploy
      \/ deploy = "migrated" /\ Enter("activating upgrade") /\ UNCHANGED deploy
      \/ /\ deploy = "data-migration-failed"
         /\ Enter("activating upgrade") /\ deploy' = "migrated"
      \/ Enter("installing license") /\ UNCHANGED deploy
  BY Zenon DEF SimplexOnline
<1> QED BY <1>1 DEF Choice, Answers

LEMMA DuplexFacts ==
  ASSUME DuplexOnline, UNCHANGED deploy, sub.mode # "simplex"
  PROVE  Choice
<1>1. \/ Raise \/ Enter("installing license")
      \/ /\ DuplexGoesOn
         /\ \/ Enter(IF "controller-1" \in sub.locked THEN "unlocking controller-1"
                     ELSE IF ActiveIs0 THEN "swacting to controller-1"
                     ELSE "creating VIM upgrade strategy")
            \/ Enter("creating VIM upgrade strategy")
            \/ Enter(IF ActiveIs0 THEN "activating upgrade" ELSE "swacting to controller-0")
            \/ Enter("completing upgrade")
  BY Zenon DEF DuplexOnline, DuplexGoesOn
<1> QED BY <1>1 DEF Choice

LEMMA PreCheckFacts == PreCheck => Choice
<1> SUFFICES ASSUME PreCheck
             PROVE  Choice
  OBVIOUS
<1>1. CASE Offline /\ UNCHANGED deploy
  BY <1>1, OfflineFacts
<1>2. CASE Raise /\ UNCHANGED deploy
  BY <1>2 DEF Choice
<1>3. CASE Answers /\ sub.mode = "simplex" /\ SimplexOnline
  BY <1>3, SimplexFacts
<1>4. CASE sub.mode # "simplex" /\ DuplexOnline /\ UNCHANGED deploy
  BY <1>4, DuplexFacts
<1> QED BY <1>1, <1>2, <1>3, <1>4 DEF PreCheck

LEMMA PreCheckGood ==
  ASSUME IInv, PreCheck
  PROVE  Good
<1>0. Facts /\ Progress
  BY TypeFacts DEF IInv
<1>1. IsAt("pre check", "begin") /\ UNCHANGED sub /\ Choice
  BY PreCheckFacts, WhereBegins DEF PreCheck
<1>2. SubTyped' /\ SubcloudStays /\ RepoStays
  BY <1>0, <1>1, Unchanged DEF Facts
<1>3. /\ StepTyped' /\ step'.pc = "begin"
      /\ \/ step'.state \in {"failed", "installing license"} /\ deploy' = deploy
         \/ /\ deploy \in PreInstallFailures \cup {"data-migration-failed"}
            /\ step'.state = "upgrading simplex" /\ deploy' = deploy
         \/ deploy = "installed" /\ step'.state = "migrating data" /\ deploy' = deploy
         \/ deploy = "migrated" /\ step'.state = "activating upgrade" /\ deploy' = deploy
         \/ /\ deploy = "data-migration-failed" /\ sub.reach
            /\ step'.state = "activating upgrade" /\ deploy' = "migrated"
            /\ sub.mode = "simplex"
         \/ /\ sub.mode # "simplex" /\ DuplexGoesOn
            /\ step'.state \in {"unlocking controller-1", "swacting to controller-1",
                              "creating VIM upgrade strategy", "activating upgrade",
                              "swacting to controller-0", "completing upgrade"}
            /\ deploy' = deploy
  BY <1>0, <1>1, Entered
     DEF Facts, Raise, Ended, StepStates, PreInstallFailures, Choice
<1>4. SimplexOK'
  BY <1>0, <1>1, <1>2, <1>3
     DEF PreInstallFailures, Progress, SimplexOK, SubcloudStays, Becoming,
         DuplexStates, LastStates, Activated,
         IsAt, Lives, ReachOK
<1>5. DuplexOK'
  BY <1>0, <1>1, <1>2, <1>3
     DEF PreInstallFailures, DuplexGoesOn, Progress, DuplexOK, SubcloudStays,
         Becoming, SimplexStates, DuplexStates,
         LastStates, Activated, Upgraded, HostsOf, IsAt
<1>6. ReachOK'
  BY <1>0, <1>1, <1>2, <1>3 DEF Progress, ReachOK, SubcloudStays, Becoming, Lives
<1>7. CompleteOK'
  BY <1>0, <1>1, <1>2, <1>3
     DEF Progress, SimplexOK, DuplexOK, CompleteOK, SubcloudStays, Becoming,
         LastStates, Upgraded, HostsOf,
         DuplexStates, Activated, IsAt, Facts
<1>8. NothingBegins
  BY <1>0, <1>1, <1>2, <1>3
     DEF PreInstallFailures, DuplexGoesOn, NothingBegins, Begun, SubcloudStays,
         Becoming, IsAt, Unprepared, Ended
<1>9. deploy' \in DeployStates
  BY <1>0, <1>1, <1>2, <1>3 DEF Facts, DeployStates, Auditable
<1> QED BY <1>2, <1>3, <1>4, <1>5, <1>6, <1>7, <1>8, <1>9 DEF Good, Progress

--------------------------------------------------------------------------------
(* The subcloud, and the death of a process.                               *)

LEMMA FirstHostSet ==
  ASSUME SubTyped,
         sub' = [sub EXCEPT !.upgrade = "data-migration-complete",
                            !.upgraded = @ \cup {"controller-1"}]
  PROVE  /\ SubTyped' /\ RepoStays
         /\ Becoming(sub.disk, sub.load, "data-migration-complete", sub'.upgraded,
                     sub.reach, sub.vim)
<1>1. /\ "data-migration-complete" \in UpgradeStates
      /\ sub.upgraded \cup {"controller-1"} \in SUBSET Hosts
  BY DEF SubTyped, SubcloudRecords, UpgradeStates, Hosts
<1> HIDE DEF UpgradeStates, Hosts
<1> QED BY <1>1 DEF SubTyped, SubcloudRecords, Becoming, RepoStays

LEMMA CompletedSet ==
  ASSUME SubTyped,
         sub' = [sub EXCEPT !.upgrade = "none", !.load = "new",
                            !.other = [version |-> "old", state |-> "imported"]]
  PROVE  /\ SubTyped' /\ RepoStays
         /\ Becoming(sub.disk, "new", "none", sub.upgraded, sub.reach, sub.vim)
<1>1. /\ "none" \in UpgradeStates /\ "new" \in Versions
      /\ [version |-> "old", state |-> "imported"] \in [version : Versions, state : LoadStates]
  BY DEF UpgradeStates, Versions, LoadStates
<1> HIDE DEF UpgradeStates, Versions, LoadStates
<1> QED BY <1>1 DEF SubTyped, SubcloudRecords, Becoming, RepoStays

LEMMA VimAppliedSet ==
  ASSUME SubTyped,
         sub' = [sub EXCEPT !.vim = "applied", !.upgraded = Hosts, !.locked = {},
                            !.upgrade = IF @ = "upgrading-controllers"
                                        THEN "upgrading-hosts" ELSE @]
  PROVE  /\ SubTyped' /\ RepoStays
         /\ Becoming(sub.disk, sub.load, sub'.upgrade, Hosts, sub.reach, sub'.vim)
         /\ \/ sub'.upgrade = sub.upgrade
            \/ sub.upgrade = "upgrading-controllers" /\ sub'.upgrade = "upgrading-hosts"
<1> DEFINE upgrade == IF sub.upgrade = "upgrading-controllers" THEN "upgrading-hosts"
                      ELSE sub.upgrade
<1>1. upgrade \in UpgradeStates
  BY DEF SubTyped, SubcloudRecords, UpgradeStates
<1>2. sub' = [sub EXCEPT !.vim = "applied", !.upgraded = Hosts, !.locked = {},
                         !.upgrade = upgrade]
  OBVIOUS
<1>3. \/ upgrade = sub.upgrade
      \/ sub.upgrade = "upgrading-controllers" /\ upgrade = "upgrading-hosts"
  OBVIOUS
<1> HIDE DEF upgrade, UpgradeStates, Hosts
<1> QED BY <1>1, <1>2, <1>3 DEF SubTyped, SubcloudRecords, Becoming, RepoStays

\* A task that is done: an unlocked host goes on with its upgrade.
LEMMA DoneSet ==
  ASSUME SubTyped, sub.task # NoTask, sub' = Done(sub.task)
  PROVE  /\ SubTyped' /\ RepoStays
         /\ Becoming(sub.disk, sub.load, sub'.upgrade, sub.upgraded, sub'.reach, sub.vim)
         /\ sub'.reach => sub.reach
         /\ \/ sub'.upgrade = sub.upgrade
            \/ sub.upgrade = "data-migration-complete"
               /\ sub'.upgrade = "upgrading-controllers"
<1>0. NoTask \in TaskRecords
  BY DEF TaskRecords
<1>1. CASE sub' = [sub EXCEPT !.task = NoTask, !.locked = @ \cup {sub.task.host}]
                  /\ sub.task.host \in Hosts
  <2>1. sub.locked \cup {sub.task.host} \in SUBSET Hosts
    BY <1>1 DEF SubTyped, SubcloudRecords
  <2> HIDE DEF Hosts, NoTask
  <2> QED BY <1>0, <1>1, <2>1 DEF SubTyped, SubcloudRecords, Becoming, RepoStays
<1>2. CASE sub' = [sub EXCEPT !.task = NoTask, !.locked = @ \ {sub.task.host},
                              !.reach = sub.mode = "duplex" /\ @,
                              !.upgrade = IF @ = "data-migration-complete"
                                          THEN "upgrading-controllers" ELSE @]
  <2> DEFINE upgrade == IF sub.upgrade = "data-migration-complete"
                        THEN "upgrading-controllers" ELSE sub.upgrade
             reach == sub.mode = "duplex" /\ sub.reach
             locked == sub.locked \ {sub.task.host}
  <2>1. upgrade \in UpgradeStates /\ reach \in BOOLEAN /\ locked \in SUBSET Hosts
        /\ (reach => sub.reach)
    BY DEF SubTyped, SubcloudRecords, UpgradeStates
  <2>2. sub' = [sub EXCEPT !.task = NoTask, !.locked = locked, !.reach = reach,
                           !.upgrade = upgrade]
    BY <1>2
  <2>3. \/ upgrade = sub.upgrade
        \/ sub.upgrade = "data-migration-complete" /\ upgrade = "upgrading-controllers"
    OBVIOUS
  <2> HIDE DEF upgrade, reach, locked, UpgradeStates, Hosts, NoTask
  <2> QED BY <1>0, <2>1, <2>2, <2>3 DEF SubTyped, SubcloudRecords, Becoming, RepoStays
<1>3. CASE sub' = [sub EXCEPT !.task = NoTask, !.active = sub.task.host]
           /\ sub.task.host \in Hosts
  <2> HIDE DEF Hosts, NoTask
  <2> QED BY <1>0, <1>3 DEF SubTyped, SubcloudRecords, Becoming, RepoStays
<1>4. sub.task \in [op : {"lock", "unlock", "swact"}, host : Hosts]
  BY DEF SubTyped, SubcloudRecords, TaskRecords
<1>5. sub.task.op \in {"lock", "unlock", "swact"} /\ sub.task.host \in Hosts
  BY <1>4
<1>6. CASE sub.task.op = "lock"
  BY <1>1, <1>5, <1>6, Zenon DEF Done
<1>7. CASE sub.task.op = "unlock"
  BY <1>2, <1>7, Zenon DEF Done
<1>8. CASE sub.task.op = "swact"
  BY <1>3, <1>5, <1>8, Zenon DEF Done
<1> QED BY <1>5, <1>6, <1>7, <1>8

LEMMA RestartGood ==
  ASSUME IInv, OrchestratorRestarts
  PROVE  Good
<1>0. Facts /\ Progress
  BY TypeFacts DEF IInv
<1>1. /\ deploy' = deploy
      /\ At("begin")
      /\ \/ UNCHANGED sub
         \/ step.pc = "install" /\ (sub' = Disk("wiped") \/ sub' = Disk("installed"))
         \/ step.pc = "playbook" /\ sub' = Migrated
  <2>1. \/ sub' \in {sub, Disk("wiped"), Disk("installed")} /\ step.pc = "install"
        \/ sub' \in {sub, Migrated} /\ step.pc = "playbook"
        \/ sub' \in {sub}
    BY Zenon DEF OrchestratorRestarts
  <2>2. deploy' = deploy /\ At("begin")
    BY DEF OrchestratorRestarts
  <2> QED BY <2>1, <2>2
<1>2. /\ SubTyped' /\ RepoStays
      /\ \/ SubcloudStays
         \/ /\ step.pc = "install"
            /\ \E disk \in {"wiped", "installed"} :
                 /\ Becoming(disk, sub.load, sub.upgrade, sub.upgraded, sub'.reach, sub.vim)
                 /\ sub'.reach => sub.reach /\ sub.disk = disk
         \/ /\ step.pc = "playbook"
            /\ Becoming("migrated", "new", "upgrading-hosts", {"controller-0"}, FALSE, sub.vim)
  BY <1>0, <1>1, Unchanged, DiskSet, MigratedSet DEF Facts
<1>3. StepTyped' /\ step'.state = step.state /\ step'.pc = "begin"
  BY <1>0, <1>1, Moved DEF Facts, Pcs
<1>4. SimplexOK'
  BY <1>0, <1>1, <1>2, <1>3
     DEF Progress, SimplexOK, SubcloudStays, Becoming, DuplexStates, LastStates,
         Activated,
         IsAt, Lives, ReachOK
<1>5. DuplexOK'
  BY <1>0, <1>1, <1>2, <1>3
     DEF Progress, DuplexOK, SubcloudStays, Becoming, SimplexStates, DuplexStates,
         LastStates, Activated, Upgraded, HostsOf, IsAt
<1>6. ReachOK'
  BY <1>0, <1>1, <1>2, <1>3 DEF Progress, ReachOK, SubcloudStays, Becoming, Lives
<1>7. CompleteOK'
  BY <1>0, <1>1, <1>2, <1>3
     DEF Progress, SimplexOK, DuplexOK, CompleteOK, SubcloudStays, Becoming,
         LastStates, Upgraded, HostsOf,
         DuplexStates, Activated, IsAt, Facts
<1>8. NothingBegins
  BY <1>0, <1>1, <1>2, <1>3
     DEF Progress, SimplexOK, DuplexOK, Facts, NothingBegins, Begun, SubcloudStays,
         Becoming, IsAt, Unprepared, Ended
<1>9. deploy' \in DeployStates
  BY <1>0, <1>1, <1>2, <1>3 DEF Facts, DeployStates, Auditable
<1> QED BY <1>2, <1>3, <1>4, <1>5, <1>6, <1>7, <1>8, <1>9 DEF Good, Progress

LEMMA ManagerGood ==
  ASSUME IInv, ManagerRestarts
  PROVE  Good
<1>0. Facts /\ Progress
  BY TypeFacts DEF IInv
<1>1. /\ UNCHANGED <<step, sub>>
      /\ \/ deploy' = deploy
         \/ deploy = "pre-install" /\ deploy' = "pre-install-failed"
         \/ deploy = "installing" /\ deploy' = "install-failed"
         \/ deploy = "migrating-data" /\ deploy' = "data-migration-failed"
  <2>1. UNCHANGED <<step, sub>> /\ deploy' = Repaired(deploy)
    BY DEF ManagerRestarts
  <2>2. \/ Repaired(deploy) = deploy
        \/ deploy = "pre-install" /\ Repaired(deploy) = "pre-install-failed"
        \/ deploy = "installing" /\ Repaired(deploy) = "install-failed"
        \/ deploy = "migrating-data" /\ Repaired(deploy) = "data-migration-failed"
    BY Zenon DEF Repaired
  <2> QED BY <2>1, <2>2
<1>2. SubTyped' /\ SubcloudStays /\ RepoStays
  BY <1>0, <1>1, Unchanged DEF Facts
<1>3. StepTyped' /\ UNCHANGED step
  BY <1>0, <1>1, StepStays DEF Facts
<1>4. SimplexOK'
  BY <1>0, <1>1, <1>2, <1>3
     DEF Progress, SimplexOK, SubcloudStays, Becoming, DuplexStates, LastStates,
         Activated,
         IsAt, Lives, ReachOK
<1>5. DuplexOK'
  BY <1>0, <1>1, <1>2, <1>3
     DEF Progress, DuplexOK, SubcloudStays, Becoming, SimplexStates, DuplexStates,
         LastStates, Activated, Upgraded, HostsOf, IsAt
<1>6. ReachOK'
  BY <1>0, <1>1, <1>2, <1>3 DEF Progress, ReachOK, SubcloudStays, Becoming, Lives
<1>7. CompleteOK'
  BY <1>0, <1>1, <1>2, <1>3
     DEF Progress, SimplexOK, DuplexOK, CompleteOK, SubcloudStays, Becoming,
         LastStates, Upgraded, HostsOf,
         DuplexStates, Activated, IsAt, Facts
<1>8. NothingBegins
  BY <1>0, <1>1, <1>2, <1>3
     DEF NothingBegins, Begun, SubcloudStays, Becoming, IsAt, Unprepared, Ended
<1>9. deploy' \in DeployStates
  BY <1>0, <1>1, <1>2, <1>3 DEF Facts, DeployStates, Auditable
<1> QED BY <1>2, <1>3, <1>4, <1>5, <1>6, <1>7, <1>8, <1>9 DEF Good, Progress

LEMMA ReachGood ==
  ASSUME IInv, Outage \/ (Lives /\ Recovers)
  PROVE  Good
<1>0. Facts /\ Progress
  BY TypeFacts DEF IInv
<1>1. /\ UNCHANGED <<step, deploy>>
      /\ \/ sub' = [sub EXCEPT !.reach = FALSE]
         \/ Lives /\ sub' = [sub EXCEPT !.reach = TRUE]
  BY DEF Outage, Recovers, Becomes, Fails
<1>2. /\ SubTyped' /\ RepoStays
      /\ \E reach \in BOOLEAN :
           /\ Becoming(sub.disk, sub.load, sub.upgrade, sub.upgraded, reach, sub.vim)
           /\ reach => Lives
  BY <1>0, <1>1, ReachSet DEF Facts
<1>3. StepTyped' /\ UNCHANGED step
  BY <1>0, <1>1, StepStays DEF Facts
<1>4. SimplexOK'
  BY <1>0, <1>1, <1>2, <1>3
     DEF Progress, SimplexOK, SubcloudStays, Becoming, DuplexStates, LastStates,
         Activated,
         IsAt, Lives, ReachOK
<1>5. DuplexOK'
  BY <1>0, <1>1, <1>2, <1>3
     DEF Progress, DuplexOK, SubcloudStays, Becoming, SimplexStates, DuplexStates,
         LastStates, Activated, Upgraded, HostsOf, IsAt
<1>6. ReachOK'
  BY <1>0, <1>1, <1>2, <1>3 DEF Progress, ReachOK, SubcloudStays, Becoming, Lives
<1>7. CompleteOK'
  BY <1>0, <1>1, <1>2, <1>3
     DEF Progress, SimplexOK, DuplexOK, CompleteOK, SubcloudStays, Becoming,
         LastStates, Upgraded, HostsOf,
         DuplexStates, Activated, IsAt, Facts
<1>8. NothingBegins
  BY <1>0, <1>1, <1>2, <1>3
     DEF NothingBegins, Begun, SubcloudStays, Becoming, IsAt, Unprepared, Ended
<1>9. deploy' \in DeployStates
  BY <1>0, <1>1, <1>2, <1>3 DEF Facts, DeployStates, Auditable
<1> QED BY <1>2, <1>3, <1>4, <1>5, <1>6, <1>7, <1>8, <1>9 DEF Good, Progress

LEMMA LoadsGood ==
  ASSUME IInv, Loads
  PROVE  Good
<1>0. Facts /\ Progress
  BY TypeFacts DEF IInv
<1>1. /\ UNCHANGED <<step, deploy>>
      /\ \/ \E state \in LoadStates : sub' = [sub EXCEPT !.other.state = state]
         \/ sub' = [sub EXCEPT !.other = NoLoad]
  BY DEF Loads, Becomes, Fails, LoadStates
<1>2. SubTyped' /\ SubcloudStays /\ RepoStays
  <2>1. NoLoad \in [version : Versions, state : LoadStates]
    BY DEF NoLoad, Versions, LoadStates
  <2> QED BY <1>0, <1>1, <2>1, OtherSet, OtherStateSet DEF Facts
<1>3. StepTyped' /\ UNCHANGED step
  BY <1>0, <1>1, StepStays DEF Facts
<1>4. SimplexOK'
  BY <1>0, <1>1, <1>2, <1>3
     DEF Progress, SimplexOK, SubcloudStays, Becoming, DuplexStates, LastStates,
         Activated,
         IsAt, Lives, ReachOK
<1>5. DuplexOK'
  BY <1>0, <1>1, <1>2, <1>3
     DEF Progress, DuplexOK, SubcloudStays, Becoming, SimplexStates, DuplexStates,
         LastStates, Activated, Upgraded, HostsOf, IsAt
<1>6. ReachOK'
  BY <1>0, <1>1, <1>2, <1>3 DEF Progress, ReachOK, SubcloudStays, Becoming, Lives
<1>7. CompleteOK'
  BY <1>0, <1>1, <1>2, <1>3
     DEF Progress, SimplexOK, DuplexOK, CompleteOK, SubcloudStays, Becoming,
         LastStates, Upgraded, HostsOf,
         DuplexStates, Activated, IsAt, Facts
<1>8. NothingBegins
  BY <1>0, <1>1, <1>2, <1>3
     DEF NothingBegins, Begun, SubcloudStays, Becoming, IsAt, Unprepared, Ended
<1>9. deploy' \in DeployStates
  BY <1>0, <1>1, <1>2, <1>3 DEF Facts, DeployStates, Auditable
<1> QED BY <1>2, <1>3, <1>4, <1>5, <1>6, <1>7, <1>8, <1>9 DEF Good, Progress

LEMMA UpgradesGood ==
  ASSUME IInv, Lives, Upgrades
  PROVE  Good
<1>0. Facts /\ Progress
  BY TypeFacts DEF IInv
<1>1. /\ UNCHANGED <<step, deploy>> /\ Lives
      /\ \/ sub.upgrade = "starting" /\ sub' = [sub EXCEPT !.upgrade = "started"]
         \/ sub.upgrade = "starting" /\ sub' = [sub EXCEPT !.upgrade = "none"]
         \/ /\ sub.upgrade = "data-migration"
            /\ sub' = [sub EXCEPT !.upgrade = "data-migration-complete",
                                  !.upgraded = @ \cup {"controller-1"}]
         \/ /\ sub.upgrade = "data-migration"
            /\ sub' = [sub EXCEPT !.upgrade = "data-migration-failed"]
         \/ sub.upgrade = "activating" /\ sub' = [sub EXCEPT !.upgrade = "activation-complete"]
         \/ sub.upgrade = "activating" /\ sub' = [sub EXCEPT !.upgrade = "activation-failed"]
         \/ /\ sub.upgrade = "completing"
            /\ sub' = [sub EXCEPT !.upgrade = "none", !.load = "new",
                                  !.other = [version |-> "old", state |-> "imported"]]
  BY DEF Upgrades, Becomes, Fails
<1>2. /\ SubTyped' /\ RepoStays
      /\ \/ /\ sub.upgrade = "starting"
            /\ \E upgrade \in {"started", "none"} :
                 Becoming(sub.disk, sub.load, upgrade, sub.upgraded, sub.reach, sub.vim)
         \/ /\ sub.upgrade = "data-migration"
            /\ Becoming(sub.disk, sub.load, "data-migration-complete", sub'.upgraded,
                        sub.reach, sub.vim)
         \/ /\ sub.upgrade = "data-migration"
            /\ Becoming(sub.disk, sub.load, "data-migration-failed", sub.upgraded,
                        sub.reach, sub.vim)
         \/ /\ sub.upgrade = "activating"
            /\ \E upgrade \in {"activation-complete", "activation-failed"} :
                 Becoming(sub.disk, sub.load, upgrade, sub.upgraded, sub.reach, sub.vim)
         \/ /\ sub.upgrade = "completing"
            /\ Becoming(sub.disk, "new", "none", sub.upgraded, sub.reach, sub.vim)
  BY <1>0, <1>1, UpgradeSet, FirstHostSet, CompletedSet DEF Facts, UpgradeStates
<1>3. StepTyped' /\ UNCHANGED step
  BY <1>0, <1>1, StepStays DEF Facts
<1>4. SimplexOK'
  BY <1>0, <1>1, <1>2, <1>3
     DEF Progress, SimplexOK, SubcloudStays, Becoming, DuplexStates, LastStates,
         Activated,
         IsAt, Lives, ReachOK
<1>5. DuplexOK'
  BY <1>0, <1>1, <1>2, <1>3
     DEF Progress, DuplexOK, SubcloudStays, Becoming, SimplexStates, DuplexStates,
         LastStates, Activated, Upgraded, HostsOf, IsAt
<1>6. ReachOK'
  BY <1>0, <1>1, <1>2, <1>3 DEF Progress, ReachOK, SubcloudStays, Becoming, Lives
<1>7. CompleteOK'
  BY <1>0, <1>1, <1>2, <1>3
     DEF Progress, SimplexOK, DuplexOK, CompleteOK, SubcloudStays, Becoming,
         LastStates, Upgraded, HostsOf,
         DuplexStates, Activated, IsAt, Facts
<1>8. NothingBegins
  BY <1>0, <1>1, <1>2, <1>3
     DEF NothingBegins, Begun, SubcloudStays, Becoming, IsAt, Unprepared, Ended
<1>9. deploy' \in DeployStates
  BY <1>0, <1>1, <1>2, <1>3 DEF Facts, DeployStates, Auditable
<1> QED BY <1>2, <1>3, <1>4, <1>5, <1>6, <1>7, <1>8, <1>9 DEF Good, Progress

LEMMA TasksGood ==
  ASSUME IInv, Tasks
  PROVE  Good
<1>0. Facts /\ Progress
  BY TypeFacts DEF IInv
<1>1. /\ UNCHANGED <<step, deploy>>
      /\ sub' = Done(sub.task) \/ sub' = [sub EXCEPT !.task = NoTask]
  BY DEF Tasks, Becomes, Fails
<1>2. /\ SubTyped' /\ RepoStays
      /\ Becoming(sub.disk, sub.load, sub'.upgrade, sub.upgraded, sub'.reach, sub.vim)
      /\ sub'.reach => sub.reach
      /\ \/ sub'.upgrade = sub.upgrade
         \/ sub.upgrade = "data-migration-complete" /\ sub'.upgrade = "upgrading-controllers"
  <2>1. sub.task # NoTask
    BY DEF Tasks
  <2>2. CASE sub' = Done(sub.task)
    BY <1>0, <2>1, <2>2, DoneSet DEF Facts
  <2>3. CASE sub' = [sub EXCEPT !.task = NoTask]
    <3>1. NoTask \in TaskRecords
      BY DEF TaskRecords
    <3> QED BY <1>0, <2>3, <3>1, TaskSet DEF Facts, SubcloudStays, Becoming
  <2> QED BY <1>1, <2>2, <2>3
<1>3. StepTyped' /\ UNCHANGED step
  BY <1>0, <1>1, StepStays DEF Facts
<1>4. SimplexOK'
  BY <1>0, <1>1, <1>2, <1>3
     DEF Progress, SimplexOK, SubcloudStays, Becoming, DuplexStates, LastStates,
         Activated,
         IsAt, Lives, ReachOK
<1>5. DuplexOK'
  BY <1>0, <1>1, <1>2, <1>3
     DEF Progress, DuplexOK, SubcloudStays, Becoming, SimplexStates, DuplexStates,
         LastStates, Activated, Upgraded, HostsOf, IsAt
<1>6. ReachOK'
  BY <1>0, <1>1, <1>2, <1>3 DEF Progress, ReachOK, SubcloudStays, Becoming, Lives
<1>7. CompleteOK'
  BY <1>0, <1>1, <1>2, <1>3
     DEF Progress, SimplexOK, DuplexOK, CompleteOK, SubcloudStays, Becoming,
         LastStates, Upgraded, HostsOf,
         DuplexStates, Activated, IsAt, Facts
<1>8. NothingBegins
  BY <1>0, <1>1, <1>2, <1>3
     DEF NothingBegins, Begun, SubcloudStays, Becoming, IsAt, Unprepared, Ended
<1>9. deploy' \in DeployStates
  BY <1>0, <1>1, <1>2, <1>3 DEF Facts, DeployStates, Auditable
<1> QED BY <1>2, <1>3, <1>4, <1>5, <1>6, <1>7, <1>8, <1>9 DEF Good, Progress

LEMMA VimGood ==
  ASSUME IInv, Vim
  PROVE  Good
<1>0. Facts /\ Progress
  BY TypeFacts DEF IInv
<1>1. /\ UNCHANGED <<step, deploy>>
      /\ sub.vim # "none"
      /\ \/ \E vim \in {"ready", "failed"} : sub' = [sub EXCEPT !.vim = vim]
         \/ sub' = [sub EXCEPT !.vim = "applied", !.upgraded = Hosts, !.locked = {},
                               !.upgrade = IF @ = "upgrading-controllers"
                                           THEN "upgrading-hosts" ELSE @]
  BY DEF Vim, Becomes, Fails
<1>2. /\ SubTyped' /\ RepoStays /\ sub.vim # "none"
      /\ \/ Becoming(sub.disk, sub.load, sub.upgrade, sub.upgraded, sub.reach, sub'.vim)
         \/ /\ Becoming(sub.disk, sub.load, sub'.upgrade, Hosts, sub.reach, sub'.vim)
            /\ \/ sub'.upgrade = sub.upgrade
               \/ sub.upgrade = "upgrading-controllers" /\ sub'.upgrade = "upgrading-hosts"
  BY <1>0, <1>1, VimSet, VimAppliedSet DEF Facts, Becoming
<1>3. StepTyped' /\ UNCHANGED step
  BY <1>0, <1>1, StepStays DEF Facts
<1>4. SimplexOK'
  BY <1>0, <1>1, <1>2, <1>3
     DEF Progress, SimplexOK, SubcloudStays, Becoming, DuplexStates, LastStates,
         Activated,
         IsAt, Lives, ReachOK
<1>5. DuplexOK'
  BY <1>0, <1>1, <1>2, <1>3
     DEF Progress, DuplexOK, SubcloudStays, Becoming, SimplexStates, DuplexStates,
         LastStates, Activated, Upgraded, HostsOf, IsAt
<1>6. ReachOK'
  BY <1>0, <1>1, <1>2, <1>3 DEF Progress, ReachOK, SubcloudStays, Becoming, Lives
<1>7. CompleteOK'
  BY <1>0, <1>1, <1>2, <1>3
     DEF Progress, SimplexOK, DuplexOK, CompleteOK, SubcloudStays, Becoming,
         LastStates, Upgraded, HostsOf,
         DuplexStates, Activated, IsAt, Facts
<1>8. NothingBegins
  BY <1>0, <1>1, <1>2, <1>3
     DEF NothingBegins, Begun, SubcloudStays, Becoming, IsAt, Unprepared, Ended
<1>9. deploy' \in DeployStates
  BY <1>0, <1>1, <1>2, <1>3 DEF Facts, DeployStates, Auditable
<1> QED BY <1>2, <1>3, <1>4, <1>5, <1>6, <1>7, <1>8, <1>9 DEF Good, Progress

--------------------------------------------------------------------------------
(* RegionOne, its cache, what is kept and seen, and the counters.          *)

KeptTyped == kept \in [install : BOOLEAN, upgrade : BOOLEAN, iso : BOOLEAN]

SeenTyped == seen \in {"offline", "out-of-sync", "in-sync"}

CountsTyped == faults \in 0..MaxFaults /\ restarts \in 0..MaxRestarts

RegionOneStep ==
  \/ /\ UNCHANGED central
     /\ \/ UNCHANGED cached \/ ReadCentral
        \/ cached' = {} /\ (At("begin") \/ Enter("pre check"))
  \/ /\ UNCHANGED cached
     /\ \E p \in In(central, {"available"}) : central' = [central EXCEPT ![p] = "applied"]

Around == RegionOneStep /\ KeptTyped' /\ SeenTyped' /\ CountsTyped'

LEMMA AroundSteps ==
  ASSUME IInv, Next
  PROVE  Around
<1>0. KeptTyped /\ SeenTyped /\ CountsTyped /\ MaxFaults \in Nat /\ MaxRestarts \in Nat
  BY ConstantsAssumption DEF IInv, TypeOK, KeptTyped, SeenTyped, CountsTyped,
     ConstantsAssumption
<1> USE DEF Around, RegionOneStep, KeptTyped, SeenTyped, CountsTyped, Quiet, Asks,
            regionOne, Fault
<1>1. CASE PreCheck
  BY <1>0, <1>1 DEF PreCheck
<1>2. CASE InstallLicense
  BY <1>0, <1>2 DEF InstallLicense
<1>3. CASE TransferCertificate
  BY <1>0, <1>3 DEF TransferCertificate
<1>4. CASE ImportLoad
  BY <1>0, <1>4 DEF ImportLoad
<1>5. CASE OldLoadDeleted
  BY <1>0, <1>5 DEF OldLoadDeleted
<1>6. CASE RequestImport
  BY <1>0, <1>6 DEF RequestImport
<1>7. CASE WaitForImport
  BY <1>0, <1>7 DEF WaitForImport
<1>8. CASE PatchOperators
  BY <1>0, <1>8 DEF PatchOperators, ComparePatches, UploadPatch, ApplyPatches,
         AwaitHosts, DeletePatches, CommitPatches
<1>9. CASE StartUpgrade
  BY <1>0, <1>9 DEF StartUpgrade
<1>10. CASE WaitForStart
  BY <1>0, <1>10 DEF WaitForStart
<1>11. CASE HostOperators
  BY <1>0, <1>11 DEF HostOperators, Lock, Unlock, Swact, HostState
<1>12. CASE UpgradeDuplex
  BY <1>0, <1>12 DEF UpgradeDuplex
<1>13. CASE WaitForDuplex
  BY <1>0, <1>13 DEF WaitForDuplex
<1>14. CASE BeginInstall
  BY <1>0, <1>14 DEF BeginInstall
<1>15. CASE CollectUpgradeData
  BY <1>0, <1>15 DEF CollectUpgradeData
<1>16. CASE RecallUpgradeData
  BY <1>0, <1>16 DEF RecallUpgradeData
<1>17. CASE EnterInstall
  BY <1>0, <1>17 DEF EnterInstall
<1>18. CASE PrepareInstall
  <2>1. UNCHANGED <<kept, seen, central, cached, restarts>>
    BY <1>18 DEF PrepareInstall
  <2>2. UNCHANGED faults \/ Fault
    BY <1>18, Zenon DEF PrepareInstall, Quiet, Asks
  <2> QED BY <1>0, <2>1, <2>2
<1>19. CASE Install
  <2>1. UNCHANGED <<kept, seen, central, cached, restarts>>
    BY <1>19 DEF Install
  <2>2. UNCHANGED faults \/ Fault
    BY <1>19, Zenon DEF Install, Quiet, Asks
  <2> QED BY <1>0, <2>1, <2>2
<1>20. CASE BeginMigration
  BY <1>0, <1>20 DEF BeginMigration
<1>21. CASE Migrate
  <2>1. UNCHANGED <<kept, seen, central, cached, restarts>>
    BY <1>21 DEF Migrate
  <2>2. UNCHANGED faults \/ Fault
    BY <1>21, Zenon DEF Migrate, Quiet, Asks
  <2> QED BY <1>0, <2>1, <2>2
<1>22. CASE WaitForReboot
  BY <1>0, <1>22 DEF WaitForReboot
<1>23. CASE RebootTimesOut
  BY <1>0, <1>23 DEF RebootTimesOut
<1>24. CASE CreateVimStrategy
  BY <1>0, <1>24 DEF CreateVimStrategy
<1>25. CASE WaitForVimStrategy
  BY <1>0, <1>25 DEF WaitForVimStrategy
<1>26. CASE ApplyVimStrategy
  BY <1>0, <1>26 DEF ApplyVimStrategy
<1>27. CASE WaitForVim
  BY <1>0, <1>27 DEF WaitForVim
<1>28. CASE BeginActivation
  BY <1>0, <1>28 DEF BeginActivation
<1>29. CASE Activate
  <2>1. UNCHANGED <<kept, seen, central, cached, restarts>>
    BY <1>29 DEF Activate
  <2>2. UNCHANGED faults \/ Fault
    BY <1>29, Zenon DEF Activate, Quiet, Asks
  <2> QED BY <1>0, <2>1, <2>2
<1>30. CASE WaitForActivation
  BY <1>0, <1>30 DEF WaitForActivation
<1>31. CASE CompleteUpgrade
  BY <1>0, <1>31 DEF CompleteUpgrade
<1>32. CASE WaitForCompletion
  BY <1>0, <1>32 DEF WaitForCompletion
<1>33. CASE DeleteLoad
  BY <1>0, <1>33 DEF DeleteLoad
<1>34. CASE LoadIsDeleted
  BY <1>0, <1>34 DEF LoadIsDeleted
<1>35. CASE GivesUp
  <2>1. UNCHANGED <<kept, seen, central, cached, restarts>>
    BY <1>35 DEF GivesUp
  <2>2. UNCHANGED faults \/ Fault
    BY <1>35, Zenon DEF GivesUp, Quiet, Asks
  <2> QED BY <1>0, <2>1, <2>2
<1>36. CASE OrchestratorRestarts
  <2>1. /\ UNCHANGED <<kept, seen, faults, central>> /\ cached' = {} /\ At("begin")
        /\ restarts < MaxRestarts /\ restarts' = restarts + 1
    BY <1>36, Zenon DEF OrchestratorRestarts, Restarts
  <2>2. CountsTyped'
    BY <1>0, <2>1
  <2>3. KeptTyped' /\ SeenTyped'
    BY <1>0, <2>1
  <2> QED BY <2>1, <2>2, <2>3, Zenon
<1>37. CASE ManagerRestarts
  BY <1>0, <1>37 DEF ManagerRestarts, Restarts
<1>38. CASE Audit
  BY <1>0, <1>38 DEF Audit
<1>39. CASE NewStrategy
  BY <1>0, <1>39 DEF NewStrategy
<1>40. CASE Provide
  BY <1>0, <1>40 DEF Provide
<1>41. CASE CentralApplies
  BY <1>0, <1>41 DEF CentralApplies
<1>42. CASE Subcloud
  <2>1. \E changed : Becomes(changed) \/ Fails(changed)
    BY <1>42, Zenon DEF Subcloud, Loads, Upgrades, Tasks, Vim, Recovers
  <2>2. UNCHANGED <<kept, seen, central, cached, restarts>> /\ (UNCHANGED faults \/ Fault)
    BY <2>1, Zenon DEF Becomes, Fails
  <2> QED BY <1>0, <2>2
<1>43. CASE Outage
  BY <1>0, <1>43 DEF Outage, Fails
<1> QED BY <1>1, <1>2, <1>3, <1>4, <1>5, <1>6, <1>7, <1>8, <1>9, <1>10, <1>11, <1>12,
           <1>13, <1>14, <1>15, <1>16, <1>17, <1>18, <1>19, <1>20, <1>21, <1>22,
           <1>23, <1>24, <1>25, <1>26, <1>27, <1>28, <1>29, <1>30, <1>31, <1>32,
           <1>33, <1>34, <1>35, <1>36, <1>37, <1>38, <1>39, <1>40, <1>41, <1>42, <1>43
           DEF Next, Operator

--------------------------------------------------------------------------------
(* The patches.                                                            *)

\* The patches the subcloud has, and those that RegionOne has.
Has == In(sub.repo, Effective)

CentralHas == In(central, Effective)

RegionOneTyped == {central} \cup cached \subseteq [Patches -> RepoStates]

LEMMA CentralKeeps ==
  ASSUME CentralOK, RegionOneTyped, RegionOneStep
  PROVE  CentralOK' /\ RegionOneTyped' /\ CentralHas \subseteq CentralHas'
<1>1. CASE UNCHANGED central
  <2>1. cached' \subseteq cached \cup {central}
    BY <1>1 DEF RegionOneStep, ReadCentral
  <2> QED BY <1>1, <2>1 DEF CentralOK, RegionOneTyped, CentralHas
<1>2. CASE /\ UNCHANGED cached
           /\ \E p \in In(central, {"available"}) : central' = [central EXCEPT ![p] = "applied"]
  <2>1. PICK p \in In(central, {"available"}) : central' = [central EXCEPT ![p] = "applied"]
    BY <1>2
  <2>2. central' \in [Patches -> RepoStates] /\ p \in Patches
    BY <2>1 DEF RegionOneTyped, RepoStates, In
  <2>3. CentralHas \subseteq CentralHas'
    BY <2>1, <2>2 DEF CentralHas, In, Effective, RegionOneTyped
  <2>4. RegionOneTyped'
    BY <1>2, <2>2 DEF RegionOneTyped
  <2> QED BY <1>2, <2>3, <2>4 DEF CentralOK, CentralHas
<1> QED BY <1>1, <1>2 DEF RegionOneStep

\* What is wanted has what is committed, and nothing RegionOne has not.
LEMMA WantedFacts ==
  ASSUME CentralOK
  PROVE  (cached # {} => Committed \subseteq Wanted) /\ Wanted \subseteq CentralHas
BY DEF CentralOK, Wanted, CentralHas

LEMMA WantedNow == InCentral(Effective) = Wanted'
BY DEF InCentral, Wanted

\* What the patches are after some of them were brought to a state.
LEMMA HasAfter ==
  ASSUME SubTyped, NEW P, NEW state \in RepoStates, sub' = ToState(P, state)
  PROVE  /\ state \in Effective => Has' = Has \cup (P \cap Patches)
         /\ state \notin Effective => Has' = Has \ P
<1>1. sub'.repo = [p \in Patches |-> IF p \in P THEN state ELSE sub.repo[p]]
  BY RepoSet
<1>2. \A p \in Patches : sub'.repo[p] = IF p \in P THEN state ELSE sub.repo[p]
  BY <1>1
<1> QED BY <1>2 DEF Has, In

LEMMA PatchesStay ==
  ASSUME IInv, NothingBegins, RegionOneStep, StepTyped'
  PROVE  PatchesOK'
<1>0. CentralOK' /\ CentralHas \subseteq CentralHas' /\ Has' = Has /\ StepTyped
  BY CentralKeeps, TypeFacts DEF IInv, TypeOK, RegionOneTyped, Facts, NothingBegins,
     RepoStays, Has
<1>1. Patched => Patched'
  BY <1>0 DEF Patched, Has, CentralHas
<1>2. Begun' \/ IsAt("updating patches", "wait")' => Patched'
  BY <1>1 DEF IInv, PatchesOK, NothingBegins, IsAt
<1>3. ASSUME IsAt("updating patches", "upload")'
      PROVE  cached' # {} /\ Has' \subseteq Wanted'
  <2>1. UNCHANGED step /\ IsAt("updating patches", "upload")
    BY <1>3 DEF NothingBegins, IsAt
  <2>2. cached # {} /\ Has \subseteq Wanted
    BY <2>1 DEF IInv, PatchesOK, Has
  <2>3. ~ (At("begin") \/ Enter("pre check"))
    BY <1>0, <1>3, Moved, Entered DEF IsAt, Pcs, StepStates
  <2>4. UNCHANGED cached
    BY <2>2, <2>3 DEF RegionOneStep, ReadCentral
  <2> QED BY <1>0, <2>2, <2>4 DEF Wanted
<1> QED BY <1>2, <1>3 DEF PatchesOK, Has

\* What a patch operator does: it compares, or applies, or changes nothing of
\* what the subcloud has.
LEMMA PatchFacts ==
  ASSUME IInv, PatchOperators
  PROVE  /\ Calm /\ StepTyped' /\ SubTyped' /\ RegionOneStep /\ UNCHANGED central
         /\ \/ /\ IsAt("updating patches", "begin") /\ IsAt("updating patches", "upload")'
               /\ cached' # {} /\ Has' \subseteq Wanted'
               /\ Has \cap Wanted' \subseteq Has' /\ Has' \subseteq Has
            \/ /\ IsAt("updating patches", "upload") /\ UNCHANGED <<step, cached>>
               /\ Has' = Has
            \/ /\ IsAt("updating patches", "upload") /\ IsAt("updating patches", "wait")'
               /\ UNCHANGED cached
               /\ Wanted \subseteq Has' /\ Has \subseteq Has' /\ Has' \subseteq Has \cup Wanted
            \/ /\ \/ IsAt("updating patches", "wait")
                  \/ step.state = "finishing patch strategy"
               /\ step'.state \in {"finishing patch strategy", "starting upgrade"}
               /\ Has' = Has
            \/ step'.state = "failed" /\ Has' = Has
<1>0. Facts
  BY TypeFacts
<1>1. UNCHANGED deploy /\ RegionOneStep /\ UNCHANGED central
  BY DEF PatchOperators, ComparePatches, UploadPatch, ApplyPatches, AwaitHosts,
         DeletePatches, CommitPatches, Quiet, Asks, regionOne, RegionOneStep
<1>2. /\ UNCHANGED step \/ Raise \/ At("upload") \/ At("wait") \/ At("commit")
         \/ Enter("finishing patch strategy") \/ Enter("starting upgrade")
      /\ UNCHANGED sub \/ \E P, state : state \in RepoStates /\ sub' = ToState(P, state)
  BY DEF PatchOperators, ComparePatches, UploadPatch, ApplyPatches,
         AwaitHosts, DeletePatches, CommitPatches, RepoStates
<1>3. SubTyped' /\ SubcloudStays
  BY <1>0, <1>2, Unchanged, RepoSet DEF Facts
<1>4. StepTyped' /\ StepsEarly
  BY <1>0, <1>2, Entered, Moved, StepStays
     DEF Facts, StepsEarly, EarlyStates, Raise, Ended, Pcs, StepStates
<1>5. UNCHANGED sub => Has' = Has
  BY DEF Has
<1>6. Raise => step'.state = "failed"
  BY Entered DEF Raise, StepStates, Ended
<1>7. CASE ComparePatches
  <2>1. CASE Raise /\ UNCHANGED sub
    BY <1>1, <1>3, <1>4, <1>5, <1>6, <2>1 DEF Calm
  <2>2. CASE /\ At("upload") /\ In(sub.repo, {"committed"}) \ Wanted' = {}
             /\ sub' = ToState(In(sub.repo, {"applied"}) \ Wanted', "available")
    <3>1. Has' = Has \ (In(sub.repo, {"applied"}) \ Wanted')
      BY <1>0, <2>2, HasAfter DEF Facts, RepoStates, Effective
    <3>2. Has' \subseteq Wanted' /\ Has \cap Wanted' \subseteq Has' /\ Has' \subseteq Has
      BY <2>2, <3>1 DEF Has, In, Effective
    <3>3. cached' # {}
      BY <1>7 DEF ComparePatches, ReadCentral
    <3>4. IsAt("updating patches", "begin") /\ IsAt("updating patches", "upload")'
      <4>1. IsAt("updating patches", "begin")
        BY <1>7, WhereBegins DEF ComparePatches
      <4> QED BY <1>0, <2>2, <4>1, Moved DEF IsAt, Facts, Pcs
    <3> QED BY <1>1, <1>3, <1>4, <3>2, <3>3, <3>4 DEF Calm
  <2> QED BY <1>7, <2>1, <2>2, WantedNow DEF ComparePatches
<1>8. CASE \E p \in Patches : UploadPatch(p)
  <2>1. PICK p \in Patches : UploadPatch(p)
    BY <1>8
  <2>2. /\ IsAt("updating patches", "upload") /\ UNCHANGED <<step, cached>>
        /\ sub' = ToState({p}, "available") /\ p \in In(sub.repo, {"absent"})
    BY <2>1, Where DEF UploadPatch, Missing, regionOne
  <2>3. Has' = Has \ {p}
    BY <1>0, <2>2, HasAfter DEF Facts, RepoStates, Effective
  <2>4. Has' = Has
    BY <2>2, <2>3 DEF Has, In, Effective
  <2> QED BY <1>1, <1>3, <1>4, <2>2, <2>4 DEF Calm
<1>9. CASE ApplyPatches
  <2>1. /\ IsAt("updating patches", "upload") /\ UNCHANGED cached /\ At("wait")
        /\ sub' = ToState(In(sub.repo, {"available"}) \cap Wanted', "applied")
        /\ Wanted' \cap In(sub.repo, {"absent"}) = {}
    BY <1>9, Where, WantedNow DEF ApplyPatches, Missing, regionOne
  <2>2. Wanted' = Wanted
    BY <2>1 DEF Wanted
  <2>3. Has' = Has \cup (In(sub.repo, {"available"}) \cap Wanted \cap Patches)
    BY <1>0, <2>1, <2>2, HasAfter DEF Facts, RepoStates, Effective
  <2>4. Wanted \subseteq Patches /\ sub.repo \in [Patches -> RepoStates]
    BY <1>0 DEF Wanted, In, Facts, SubTyped, SubcloudRecords
  <2>5. Wanted \subseteq Has'
    BY <2>1, <2>2, <2>3, <2>4 DEF Has, In, Effective, RepoStates
  <2>6. IsAt("updating patches", "wait")'
    BY <1>0, <2>1, Moved DEF IsAt, Facts, Pcs
  <2> QED BY <1>1, <1>3, <1>4, <2>1, <2>3, <2>5, <2>6 DEF Calm
<1>10. CASE AwaitHosts
  <2>1. IsAt("updating patches", "wait") /\ Enter("finishing patch strategy") /\ UNCHANGED sub
    BY <1>10, WhereWaits DEF AwaitHosts
  <2>2. step'.state = "finishing patch strategy"
    BY <2>1, Entered DEF StepStates
  <2> QED BY <1>1, <1>3, <1>4, <1>5, <2>1, <2>2 DEF Calm
<1>11. CASE DeletePatches
  <2>1. CASE Raise /\ UNCHANGED sub
    BY <1>1, <1>3, <1>4, <1>5, <1>6, <2>1 DEF Calm
  <2>2. CASE /\ At("commit")
             /\ sub' = ToState(In(sub.repo, {"available"}) \ sub.patched, "absent")
    <3>1. IsAt("finishing patch strategy", "begin")
      BY <1>11, WhereBegins DEF DeletePatches
    <3>2. Has' = Has \ (In(sub.repo, {"available"}) \ sub.patched)
      BY <1>0, <2>2, HasAfter DEF Facts, RepoStates, Effective
    <3>4. Has' = Has
      BY <3>2 DEF Has, In, Effective
    <3>3. step'.state = "finishing patch strategy"
      BY <1>0, <2>2, <3>1, Moved DEF IsAt, Facts, Pcs
    <3> QED BY <1>1, <1>3, <1>4, <3>1, <3>3, <3>4 DEF Calm, IsAt
  <2> QED BY <1>11, <2>1, <2>2 DEF DeletePatches
<1>12. CASE CommitPatches
  <2>1. /\ IsAt("finishing patch strategy", "commit") /\ Enter("starting upgrade")
        /\ sub' = ToState(In(sub.repo, {"applied"}) \cap sub.patched
                                              \cap InCentral({"committed"}), "committed")
    BY <1>12, Where DEF CommitPatches
  <2> DEFINE P == In(sub.repo, {"applied"}) \cap sub.patched \cap InCentral({"committed"})
  <2>4. sub' = ToState(P, "committed") /\ P \subseteq Has
    BY <2>1 DEF Has, In, Effective
  <2>5. P \cap Patches \subseteq Has
    BY <2>4
  <2>2. Has' = Has
    <3> HIDE DEF P
    <3> QED BY <1>0, <2>4, <2>5, HasAfter DEF Facts, RepoStates, Effective
  <2>3. step'.state = "starting upgrade"
    BY <2>1, Entered DEF StepStates
  <2> QED BY <1>1, <1>3, <1>4, <2>1, <2>2, <2>3 DEF Calm, IsAt
<1> QED BY <1>7, <1>8, <1>9, <1>10, <1>11, <1>12 DEF PatchOperators

LEMMA PatchSteps ==
  ASSUME IInv, PatchOperators
  PROVE  /\ StepTyped' /\ SubTyped' /\ deploy' \in DeployStates
         /\ Progress' /\ PatchesOK'
<1>1. /\ CentralOK' /\ CentralHas' = CentralHas /\ CentralOK
      /\ UNCHANGED deploy /\ sub'.upgrade = sub.upgrade
  BY PatchFacts, CentralKeeps
     DEF IInv, TypeOK, RegionOneTyped, CentralHas, Calm, SubcloudStays, Becoming
<1>2. (Begun \/ IsAt("updating patches", "wait") => Patched)
      /\ (IsAt("updating patches", "upload") => cached # {} /\ Has \subseteq Wanted)
  BY DEF IInv, PatchesOK, Has
<1>3. /\ (cached # {} => Committed \subseteq Wanted) /\ Wanted \subseteq CentralHas
  BY <1>1, WantedFacts
<1>4. /\ (cached' # {} => Committed \subseteq Wanted') /\ Wanted' \subseteq CentralHas'
  BY <1>1 DEF CentralOK, Wanted, CentralHas
<1>5. Patched <=> Committed \subseteq Has /\ Has \subseteq CentralHas
  BY DEF Patched, Has, CentralHas
<1>6. Patched' <=> Committed \subseteq Has' /\ Has' \subseteq CentralHas'
  BY DEF Patched, Has, CentralHas
<1>7. UNCHANGED cached => Wanted' = Wanted
  BY DEF Wanted
<1>8. PatchesOK'
  <2>1. Begun' \/ IsAt("updating patches", "wait")' => Patched'
    BY <1>1, <1>2, <1>3, <1>4, <1>5, <1>6, PatchFacts DEF Begun, IsAt, Unprepared, Ended
  <2>2. IsAt("updating patches", "upload")' => cached' # {} /\ Has' \subseteq Wanted'
    BY <1>2, <1>7, PatchFacts DEF IsAt
  <2> QED BY <2>1, <2>2 DEF PatchesOK, Has
<1> QED BY <1>1, <1>8, PatchFacts, CalmKeeps, TypeFacts DEF Facts

--------------------------------------------------------------------------------
(* The invariant.                                                          *)

LEMMA InitInv == Init => IInv
<1> SUFFICES ASSUME Init
             PROVE  IInv
  OBVIOUS
<1>1. PICK mode \in Modes, iso \in BOOLEAN, repo \in NewRepos :
        /\ kept = [install |-> ~iso, upgrade |-> FALSE, iso |-> iso]
        /\ sub = NewSubcloud(mode, IF iso THEN [version |-> "older", state |-> "imported"]
                                   ELSE NoLoad, repo)
  BY DEF Init
<1> DEFINE other == IF iso THEN [version |-> "older", state |-> "imported"] ELSE NoLoad
<1>2. other \in [version : Versions, state : LoadStates]
  BY DEF NoLoad, Versions, LoadStates
<1>3. repo \in [Patches -> RepoStates]
  <2>1. \A states : states[1] \in RepoStates /\ states[2] \in RepoStates
                    => NewRepo(states) \in [Patches -> RepoStates]
    BY DEF NewRepo
  <2>2. /\ <<"absent", "absent">>[1] = "absent" /\ <<"absent", "absent">>[2] = "absent"
        /\ <<"absent", "applied">>[1] = "absent" /\ <<"absent", "applied">>[2] = "applied"
        /\ <<"applied", "committed">>[1] = "applied"
        /\ <<"applied", "committed">>[2] = "committed"
    OBVIOUS
  <2>3. {"absent", "applied", "committed"} \subseteq RepoStates
    BY DEF RepoStates
  <2> HIDE DEF NewRepo, RepoStates
  <2>4. /\ NewRepo(<<"absent", "absent">>) \in [Patches -> RepoStates]
        /\ NewRepo(<<"absent", "applied">>) \in [Patches -> RepoStates]
        /\ NewRepo(<<"applied", "committed">>) \in [Patches -> RepoStates]
    BY <2>1, <2>2, <2>3
  <2> QED BY <2>4, Zenon DEF NewRepos
<1>4. /\ sub = NewSubcloud(mode, other, repo)
      /\ In(repo, Effective) \subseteq Patches
      /\ NoTask \in TaskRecords
  BY <1>1 DEF In, TaskRecords
<1>5. /\ sub \in SubcloudRecords
      /\ sub.mode \in {"simplex", "duplex"} /\ sub.reach /\ sub.load = "old"
      /\ sub.upgrade = "none" /\ sub.vim = "none" /\ sub.disk = "old"
  <2>1. mode \in {"simplex", "duplex"} /\ "controller-0" \in Hosts
        /\ "old" \in Versions /\ "none" \in UpgradeStates
    BY ConstantsAssumption DEF ConstantsAssumption, Hosts, Versions, UpgradeStates
  <2> HIDE DEF other, Versions, UpgradeStates, LoadStates, Hosts, RepoStates, NoTask
  <2> QED BY <1>2, <1>3, <1>4, <2>1 DEF NewSubcloud, SubcloudRecords
<1>6. /\ step.state = "none" /\ step.pc = "begin" /\ StepTyped /\ deploy = "complete"
      /\ seen = "out-of-sync" /\ cached = {} /\ faults = 0 /\ restarts = 0
  BY DEF Init, StepTyped, StepStates, Ended, Pcs
<1>7. central \in [Patches -> RepoStates] /\ Committed \subseteq In(central, Effective)
  BY ConstantsAssumption DEF Init, RepoStates, ConstantsAssumption, In, Effective
<1>8. TypeOK
  BY <1>1, <1>5, <1>6, <1>7, ConstantsAssumption
     DEF TypeOK, StepTyped, DeployStates, Auditable, ConstantsAssumption
<1>9. CentralOK
  BY <1>6, <1>7 DEF CentralOK
<1>10. PatchesOK
  BY <1>5, <1>6 DEF PatchesOK, Begun, Unprepared, Ended, IsAt
<1>11. Progress
  BY <1>5, <1>6
     DEF Progress, SimplexOK, DuplexOK, ReachOK, CompleteOK, DuplexStates,
         SimplexStates,
         LastStates, Activated, IsAt, Lives
<1> QED BY <1>8, <1>9, <1>10, <1>11 DEF IInv

LEMMA StepsGood ==
  ASSUME IInv, Next, ~PatchOperators
  PROVE  Good
<1>1. CASE Operator
  BY <1>1, CalmSteps, LoadSteps, StartUpgradeGood, HostGood, DuplexGood,
     VimStrategyGood,
     ActivationGood, CompletionGood, DeleteLoadGood, BeginInstallGood, PreparationGood,
     InstallGood, MigrationBeginsGood, MigrateGood, RebootGood, PreCheckGood
     DEF Operator
<1>2. CASE Subcloud
  BY <1>2, LoadsGood, UpgradesGood, TasksGood, VimGood, ReachGood DEF Subcloud
<1> QED BY <1>1, <1>2, RestartGood, ManagerGood, CalmSteps, ReachGood DEF Next

LEMMA NextInv ==
  ASSUME IInv, Next
  PROVE  IInv'
<1>1. Around
  BY AroundSteps
<1>2. CentralOK' /\ RegionOneTyped'
  BY <1>1, CentralKeeps DEF IInv, TypeOK, RegionOneTyped, Around
<1>3. StepTyped' /\ SubTyped' /\ deploy' \in DeployStates /\ Progress' /\ PatchesOK'
  <2>1. CASE PatchOperators
    BY <2>1, PatchSteps
  <2>2. CASE ~PatchOperators
    BY <1>1, <2>2, StepsGood, PatchesStay DEF Good, Around
  <2> QED BY <2>1, <2>2
<1>4. TypeOK'
  BY <1>1, <1>2, <1>3
     DEF TypeOK, Around, StepTyped, SubTyped, RegionOneTyped, KeptTyped, SeenTyped,
         CountsTyped
<1> QED BY <1>2, <1>3, <1>4 DEF IInv

LEMMA StutterInv ==
  ASSUME IInv, UNCHANGED vars
  PROVE  IInv'
<1>1. UNCHANGED <<step, deploy, kept, seen, sub, central, cached, faults, restarts>>
  BY DEF vars, regionOne
<1>2. TypeOK' /\ CentralOK'
  BY <1>1 DEF IInv, TypeOK, CentralOK
<1>3. PatchesOK'
  BY <1>1 DEF IInv, PatchesOK, Begun, Patched, IsAt, Wanted
<1>4. Progress'
  BY <1>1 DEF IInv, Progress, SimplexOK, DuplexOK, ReachOK, CompleteOK, IsAt, Lives,
              Upgraded, HostsOf
<1> QED BY <1>2, <1>3, <1>4 DEF IInv

LEMMA InvHolds == Spec => []IInv
<1>1. IInv /\ [Next]_vars => IInv'
  BY NextInv, StutterInv
<1> QED BY InitInv, <1>1, PTL DEF Spec

--------------------------------------------------------------------------------
(* For any patches, faults and restarts, everything keeps its type; among  *)
(* other things a task that the subcloud ends is one that was requested.   *)
THEOREM TypesCorrect == Spec => []TypeOK
<1>1. IInv => TypeOK
  BY DEF IInv
<1> QED BY InvHolds, <1>1, PTL

(* The steps of a strategy are complete only when the subcloud runs the    *)
(* new load on all its hosts and its upgrade is completed, wherever        *)
(* earlier strategies failed, were cut off and went on                     *)
(* (orchestrator/states/upgrade/pre_check.py, completing.py).              *)
THEOREM CompletedIsUpgraded == Spec => []CompleteIsUpgraded
<1>1. IInv => CompleteIsUpgraded
  BY DEF IInv, Progress, CompleteOK, CompleteIsUpgraded
<1> QED BY InvHolds, <1>1, PTL

(* What the deploy status says of an installation is so, and an upgrade    *)
(* that has begun has the patches it needs, whatever RegionOne applies in  *)
(* the meantime and however old the cached answer is                       *)
(* (orchestrator/states/upgrade/cache, upgrading_simplex.py,               *)
(* migrating_data.py, updating_patches.py).                                *)
THEOREM StatusAlwaysEarned == Spec => []StatusIsEarned
<1>1. IInv => StatusIsEarned
  <2> SUFFICES ASSUME IInv
               PROVE  StatusIsEarned
    OBVIOUS
  <2>1. sub.mode \in {"simplex", "duplex"} /\ Progress
    BY TypeFacts DEF Facts, IInv
  <2>2. sub.upgrade # "none" => Patched
    BY DEF IInv, PatchesOK, Begun
  <2> QED BY <2>1, <2>2
             DEF StatusIsEarned, Progress, SimplexOK, DuplexOK, Patched, Lives
<1> QED BY InvHolds, <1>1, PTL
=================================================================================
