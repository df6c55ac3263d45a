------------------------------ MODULE UpgradeSteps ------------------------------
(***************************************************************************)
(* dcmanager-orchestrator: the upgrade of one subcloud, state operator by  *)
(* state operator.  An operator looks at the subcloud, calls for a change  *)
(* and polls until it has come about; the orchestrator may die at any      *)
(* moment and performs the action of the same state again, and after a     *)
(* failure the next strategy finds out in its pre-check where to go on.    *)
(*                                                                         *)
(* SwUpdateOrch says when an operator is run and who writes the step; here *)
(* is what it does.  The subcloud itself - sysinv, the VIM, the playbooks  *)
(* on its controllers - is known by the answers the operators wait for.    *)
(***************************************************************************)
EXTENDS Naturals

CONSTANTS
  Modes,        \* the system modes considered: "simplex", "duplex"
  Patches,      \* the patches there are
  Committed,    \* those that RegionOne has committed
  MaxFaults,    \* bound on what fails: calls, waits, the subcloud's own work
  MaxRestarts   \* bound on the restarts of orchestrator and manager

ASSUME ConstantsAssumption ==
  /\ Modes \subseteq {"simplex", "duplex"}
  /\ Committed \subseteq Patches
  /\ {MaxFaults, MaxRestarts} \subseteq Nat

VARIABLES
  step,     \* the strategy step: its state, and where its operator is
  deploy,   \* deploy_status of the subcloud
  kept,     \* what is there for an installation: data_install and
            \* data_upgrade of the subcloud, and the load in the vault
  seen,     \* what the audits have last seen: "offline", or the load's status
  sub,      \* the subcloud
  central,  \* the repostates of the patches of RegionOne
  cached,   \* as they were when a step of this strategy first asked; or {}
  faults,
  restarts

regionOne == <<central, cached>>

vars == <<step, deploy, kept, seen, sub, regionOne, faults, restarts>>

Hosts == {"controller-0", "controller-1"}

HostsOf == IF sub.mode = "simplex" THEN {"controller-0"} ELSE Hosts

Ended == {"none", "failed", "complete"}

NoLoad == [version |-> "none", state |-> "none"]

NoTask == [op |-> "none", host |-> "none"]

Fault == faults < MaxFaults /\ faults' = faults + 1

\* Where an operator goes on, or ends.
At(pc) == step' = [step EXCEPT !.pc = pc]

Enter(state) == step' = [state |-> state, pc |-> "begin"]

Raise == Enter("failed")

\* perform_state_action of a state begins.
Begins(state) == step = [state |-> state, pc |-> "begin"]

Waits(state) == step = [state |-> state, pc |-> "wait"]

\* What an operator leaves alone when it only deals with the subcloud, and when
\* it asks for the patches of RegionOne, too.
Asks == UNCHANGED <<deploy, kept, seen, faults, restarts>>

Quiet == Asks /\ UNCHANGED regionOne

\* A call that needs the subcloud, which answers it; or does not.
Answers == sub.reach

--------------------------------------------------------------------------------
\* The pre-check: where an upgrade goes on.

PreInstallFailures == {"pre-install-failed", "install-failed"}

\* A simplex subcloud that the audits see online, and that answers.
SimplexOnline ==
  CASE deploy \in PreInstallFailures /\ "controller-0" \in sub.locked ->
         Enter("upgrading simplex") /\ UNCHANGED deploy
    [] deploy = "migrated" -> Enter("activating upgrade") /\ UNCHANGED deploy
    [] deploy = "data-migration-failed" ->
         Enter("activating upgrade") /\ deploy' = "migrated"
    [] OTHER -> Enter("installing license") /\ UNCHANGED deploy

ActiveIs0 == sub.active = "controller-0"

AllUpgraded == sub.upgraded = HostsOf /\ sub.locked = {}

DuplexOnline ==
  CASE sub.upgrade \in {"data-migration", "data-migration-failed"} -> Raise
    [] sub.upgrade \in {"data-migration-complete", "upgrading-controllers"} ->
         Enter(IF "controller-1" \in sub.locked THEN "unlocking controller-1"
               ELSE IF ActiveIs0 THEN "swacting to controller-1"
               ELSE "creating VIM upgrade strategy")
    [] sub.upgrade = "upgrading-hosts" /\ ~AllUpgraded ->
         Enter("creating VIM upgrade strategy")
    [] sub.upgrade = "activation-failed" \/ (sub.upgrade = "upgrading-hosts" /\ AllUpgraded) ->
         Enter(IF ActiveIs0 THEN "activating upgrade"
               ELSE "swacting to controller-0")
    [] sub.upgrade = "activation-complete" -> Enter("completing upgrade")
    [] OTHER -> Enter("installing license")

\* After a migration that failed there is nothing to install again.
WrongOffline ==
  CASE deploy \in PreInstallFailures -> Enter("upgrading simplex")
    [] deploy = "installed" -> Enter("migrating data")
    [] deploy \in {"data-migration-failed", "migrated"} ->
         Enter("activating upgrade")
    [] OTHER -> Raise

\* A subcloud that is offline is a simplex; its deploy_status decides.
Offline ==
  CASE deploy \in PreInstallFailures \cup {"data-migration-failed"} ->
         Enter("upgrading simplex")
    [] deploy = "installed" -> Enter("migrating data")
    [] deploy = "migrated" -> Enter("activating upgrade")
    [] OTHER -> Raise

PreCheck ==
  /\ Begins("pre check")
  /\ IF seen = "offline" THEN Offline /\ UNCHANGED deploy
     ELSE IF ~Answers THEN Raise /\ UNCHANGED deploy
     ELSE IF sub.mode = "simplex" THEN SimplexOnline
     ELSE DuplexOnline /\ UNCHANGED deploy
  /\ UNCHANGED <<kept, seen, sub, regionOne, faults, restarts>>

--------------------------------------------------------------------------------
\* License, load, patches.

\* Of the license only the end matters here.
InstallLicense ==
  /\ Begins("installing license")
  /\ IF Answers THEN Enter("importing load") ELSE Raise
  /\ Quiet /\ UNCHANGED sub

\* Only a duplex subcloud is sent the certificate.
TransferCertificate ==
  /\ Begins("transferring CA certificate")
  /\ IF ~Answers THEN Raise
     ELSE Enter(IF sub.mode = "simplex" THEN "locking controller-0"
                ELSE "locking controller-1")
  /\ Quiet /\ UNCHANGED sub

Target(load) == load.version = "new"

\* _get_subcloud_load_info: a load of the version that is wanted will do,
\* another one is deleted first.  A load is always there before the upgrade.
ImportLoad ==
  /\ Begins("importing load")
  /\ IF ~Answers THEN Raise /\ UNCHANGED sub
     ELSE IF sub.load = "new" \/ Target(sub.other)
     THEN Enter("updating patches") /\ UNCHANGED sub
     ELSE IF sub.other.state \in {"imported", "error"}
     THEN At("delete") /\ sub' = [sub EXCEPT !.other.state = "deleting"]
     ELSE At("import") /\ UNCHANGED sub
  /\ Quiet

OldLoadDeleted ==
  /\ step = [state |-> "importing load", pc |-> "delete"]
  /\ Answers
  /\ \/ sub.other = NoLoad /\ At("import")
     \/ sub.other.state = "error" /\ Raise
  /\ Quiet /\ UNCHANGED sub

\* For a simplex subcloud only the record of the load is sent.
RequestImport ==
  /\ step = [state |-> "importing load", pc |-> "import"]
  /\ IF \/ ~Answers
        \/ sub.mode = "duplex" /\ (~kept.iso \/ (sub.other # NoLoad /\ ~Target(sub.other)))
     THEN Raise /\ UNCHANGED sub
     ELSE IF sub.mode = "simplex"
     THEN /\ Enter("updating patches")
          /\ sub' = [sub EXCEPT !.other = [version |-> "new", state |-> "imported"]]
     ELSE /\ At("wait")
          /\ sub' = IF sub.other = NoLoad
                    THEN [sub EXCEPT !.other = [version |-> "new",
                                                state |-> "importing"]]
                    ELSE sub
  /\ Quiet

WaitForImport ==
  /\ Waits("importing load")
  /\ Answers
  /\ \/ sub.other.state = "imported" /\ Enter("updating patches")
     \/ sub.other.state = "error" /\ Raise
  /\ Quiet /\ UNCHANGED sub

--------------------------------------------------------------------------------
\* The patches of the subcloud are brought to what RegionOne has.

Effective == {"applied", "committed"}

In(repo, states) == {p \in Patches : repo[p] \in states}

ToState(P, state) ==
  [sub EXCEPT !.repo = [p \in Patches |-> IF p \in P THEN state ELSE @[p]]]

\* The cache is filled when it is first read.
ReadCentral == cached' = IF cached = {} THEN {central} ELSE cached

InCentral(states) == UNION {In(repo, states) : repo \in cached'}

\* Patches are removed, whatever RegionOne thinks of them now.
WrongComparePatches ==
  LET wanted == InCentral(Effective)
  IN /\ Begins("updating patches")
     /\ ReadCentral /\ UNCHANGED central
     /\ IF ~Answers THEN Raise /\ UNCHANGED sub
        ELSE /\ At("upload")
             /\ sub' = ToState(In(sub.repo, {"applied"}) \cap wanted, "available")
     /\ Asks

\* What RegionOne has not applied is removed; nothing can be done about a patch
\* that is committed in the subcloud.
ComparePatches ==
  LET wanted == InCentral(Effective)
  IN /\ Begins("updating patches")
     /\ ReadCentral /\ UNCHANGED central
     /\ IF ~Answers \/ In(sub.repo, {"committed"}) \ wanted # {}
        THEN Raise /\ UNCHANGED sub
        ELSE /\ At("upload")
             /\ sub' = ToState(In(sub.repo, {"applied"}) \ wanted, "available")
     /\ Asks

Missing == InCentral(Effective) \cap In(sub.repo, {"absent"})

\* What is missing is uploaded from the vault, patch by patch.
UploadPatch(p) ==
  /\ step = [state |-> "updating patches", pc |-> "upload"]
  /\ UNCHANGED <<step, regionOne>>
  /\ Answers /\ p \in Missing
  /\ sub' = ToState({p}, "available")
  /\ Asks

ApplyPatches ==
  /\ step = [state |-> "updating patches", pc |-> "upload"]
  /\ UNCHANGED regionOne
  /\ Answers /\ Missing = {}
  /\ At("wait")
  /\ sub' = ToState(In(sub.repo, {"available"}) \cap InCentral(Effective), "applied")
  /\ Asks

\* Hosts in an interim state are waited for, but not for ever: either way the
\* step goes on.
AwaitHosts ==
  /\ Waits("updating patches")
  /\ Answers
  /\ Enter("finishing patch strategy")
  /\ Quiet /\ UNCHANGED sub

\* By patchstate: a patch the hosts have only in part is left as it is.
DeletePatches ==
  /\ Begins("finishing patch strategy")
  /\ ReadCentral /\ UNCHANGED central
  /\ IF ~Answers THEN Raise /\ UNCHANGED sub
     ELSE /\ At("commit")
          /\ sub' = ToState(In(sub.repo, {"available"}) \ sub.patched, "absent")
  /\ Asks

CommitPatches ==
  /\ step = [state |-> "finishing patch strategy", pc |-> "commit"]
  /\ UNCHANGED regionOne
  /\ Answers
  /\ Enter("starting upgrade")
  /\ sub' = ToState(In(sub.repo, {"applied"}) \cap sub.patched
                                            \cap InCentral({"committed"}), "committed")
  /\ Asks

PatchOperators ==
  \/ ComparePatches \/ (\E p \in Patches : UploadPatch(p)) \/ ApplyPatches \/ AwaitHosts
  \/ DeletePatches \/ CommitPatches

--------------------------------------------------------------------------------
\* The start of the upgrade, and of the host that goes first.

\* An upgrade that exists already will do, in whatever state it is.
StartUpgrade ==
  /\ Begins("starting upgrade")
  /\ IF ~Answers THEN Raise /\ UNCHANGED sub
     ELSE IF sub.upgrade # "none"
     THEN Enter("transferring CA certificate") /\ UNCHANGED sub
     ELSE IF sub.load = "old" /\ sub.other = [version |-> "new", state |-> "imported"]
     THEN At("wait") /\ sub' = [sub EXCEPT !.upgrade = "starting"]
     ELSE Raise /\ UNCHANGED sub
  /\ Quiet

WaitForStart ==
  /\ Waits("starting upgrade")
  /\ Answers
  /\ \/ sub.upgrade = "started" /\ Enter("transferring CA certificate")
     \/ sub.upgrade = "none" /\ Raise
  /\ Quiet /\ UNCHANGED sub

\* LockHostState, UnlockHostState and SwactHostState: nothing to do, or a
\* request the subcloud accepts, or refuses, and the wait for its effect, which
\* is in vain when the request had none.
HostState(state, op, host, next, done, accepts) ==
  \/ /\ Begins(state)
     /\ IF ~Answers THEN Raise /\ UNCHANGED sub
        ELSE IF done THEN Enter(next) /\ UNCHANGED sub
        ELSE IF accepts /\ sub.task = NoTask
        THEN At("wait") /\ sub' = [sub EXCEPT !.task = [op |-> op, host |-> host]]
        ELSE Raise /\ UNCHANGED sub
     /\ Quiet
  \/ /\ Waits(state)
     /\ Answers
     /\ \/ done /\ Enter(next)
        \/ ~done /\ sub.task = NoTask /\ Raise
     /\ Quiet /\ UNCHANGED sub

Lock(host, state, next) ==
  HostState(state, "lock", host, next, host \in sub.locked, sub.active # host
                                              \/ sub.mode = "simplex")

\* A host that is unlocked and not ready yet is only waited for.
Unlock(host, state, next) ==
  HostState(state, "unlock", host, next, host \notin sub.locked, TRUE)

Swact(host, state, next) ==
  HostState(state, "swact", host, next, sub.active = host, host \notin sub.locked)

HostOperators ==
  \/ Lock("controller-0", "locking controller-0", "upgrading simplex")
  \/ Lock("controller-1", "locking controller-1", "upgrading duplex")
  \/ Unlock("controller-0", "unlocking controller-0", "activating upgrade")
  \/ Unlock("controller-1", "unlocking controller-1", "swacting to controller-1")
  \/ Swact("controller-1", "swacting to controller-1",
           "creating VIM upgrade strategy")
  \/ Swact("controller-0", "swacting to controller-0", "activating upgrade")

UpgradeDuplex ==
  /\ Begins("upgrading duplex")
  /\ IF Answers /\ sub.upgrade = "started" /\ "controller-1" \in sub.locked
     THEN At("wait") /\ sub' = [sub EXCEPT !.upgrade = "data-migration"]
     ELSE Raise /\ UNCHANGED sub
  /\ Quiet

WaitForDuplex ==
  /\ Waits("upgrading duplex")
  /\ Answers
  /\ \/ sub.upgrade = "data-migration-complete" /\ Enter("unlocking controller-1")
     \/ sub.upgrade \in {"data-migration-failed", "none"} /\ Raise
  /\ Quiet /\ UNCHANGED sub

--------------------------------------------------------------------------------
\* A simplex subcloud is installed anew, and its data migrated.

NewLoadActive == Answers /\ sub.load = "new"

\* The load and the install values have to be there; that the values are not is
\* noted, for the next pre-check.
LookUp(next) ==
  IF ~kept.iso THEN Raise /\ UNCHANGED deploy
  ELSE IF ~kept.install THEN Raise /\ deploy' = "pre-install-failed"
  ELSE At(next) /\ UNCHANGED deploy

\* Without a client, what was kept has to do for the subcloud's answers.
BeginInstall ==
  /\ Begins("upgrading simplex")
  /\ IF NewLoadActive THEN Enter("migrating data") /\ UNCHANGED deploy
     ELSE LookUp(IF Answers THEN "collect" ELSE "recall")
  /\ UNCHANGED <<kept, seen, sub, regionOne, faults, restarts>>

\* What the host's record tells of disks, consoles and its BMC is kept for the
\* time when the subcloud no longer answers.  The BMC is in data_install, too.
CollectUpgradeData ==
  /\ step = [state |-> "upgrading simplex", pc |-> "collect"]
  /\ IF Answers THEN At("enter") /\ kept' = [kept EXCEPT !.upgrade = TRUE]
     ELSE Raise /\ UNCHANGED kept
  /\ UNCHANGED <<deploy, seen, sub, regionOne, faults, restarts>>

RecallUpgradeData ==
  /\ step = [state |-> "upgrading simplex", pc |-> "recall"]
  /\ IF kept.upgrade THEN At("enter") ELSE Raise
  /\ Quiet /\ UNCHANGED sub

EnterInstall ==
  /\ step = [state |-> "upgrading simplex", pc |-> "enter"]
  /\ At("prep") /\ deploy' = "pre-install"
  /\ UNCHANGED <<kept, seen, sub, regionOne, faults, restarts>>

\* prep() may fail; so may the inventory that is written after it, which
\* nobody catches.
PrepareInstall ==
  /\ step = [state |-> "upgrading simplex", pc |-> "prep"]
  /\ \/ At("install") /\ deploy' = "installing" /\ UNCHANGED faults
     \/ Fault /\ Raise /\ deploy' \in {"pre-install-failed", deploy}
  /\ UNCHANGED <<kept, seen, sub, regionOne, restarts>>

Disk(disk) ==
  [sub EXCEPT !.disk = disk, !.reach = IF disk = sub.disk THEN @ ELSE FALSE]

\* The status does not tell a failure.
WrongInstall ==
  /\ step = [state |-> "upgrading simplex", pc |-> "install"]
  /\ \/ /\ Enter("migrating data") /\ UNCHANGED faults
        /\ deploy' = "installed"
        /\ sub' = Disk("installed")
     \/ /\ Fault /\ Raise
        /\ deploy' = "installed"
        /\ sub' \in {sub, Disk("wiped")}
  /\ UNCHANGED <<kept, seen, regionOne, restarts>>

\* The playbook installs the subcloud or fails, before the disk is wiped or
\* after; a cleanup() that fails comes too late to change the status.
Install ==
  /\ step = [state |-> "upgrading simplex", pc |-> "install"]
  /\ \/ /\ \/ Enter("migrating data") /\ UNCHANGED faults
           \/ Raise /\ Fault
        /\ deploy' = "installed"
        /\ sub' = Disk("installed")
     \/ /\ Fault /\ Raise
        /\ deploy' = "install-failed"
        /\ sub' \in {sub, Disk("wiped")}
  /\ UNCHANGED <<kept, seen, regionOne, restarts>>

BeginMigration ==
  /\ Begins("migrating data")
  /\ \/ /\ deploy \in {"migrated", "complete"}
        /\ Enter("unlocking controller-0") /\ UNCHANGED deploy
     \/ /\ deploy = "migrating-data"
        /\ Raise /\ deploy' = "data-migration-failed"
     \/ /\ deploy \notin {"migrated", "complete", "migrating-data"}
        /\ At("playbook") /\ deploy' = "migrating-data"
  /\ UNCHANGED <<kept, seen, sub, regionOne, faults, restarts>>

\* The data is restored on the new load, and the host unlocked: it reboots.
Migrated ==
  [sub EXCEPT !.disk = "migrated", !.reach = FALSE, !.load = "new",
              !.other = [version |-> "old", state |-> "imported"],
              !.upgrade = "upgrading-hosts", !.task = NoTask,
              !.locked = {}, !.upgraded = {"controller-0"}]

Migrate ==
  /\ step = [state |-> "migrating data", pc |-> "playbook"]
  /\ \/ /\ sub.disk = "installed"
        /\ At("reboot") /\ sub' = Migrated /\ UNCHANGED <<deploy, faults>>
     \/ /\ IF sub.disk = "installed" THEN Fault ELSE UNCHANGED faults
        /\ Raise /\ deploy' = "data-migration-failed" /\ UNCHANGED sub
  /\ UNCHANGED <<kept, seen, regionOne, restarts>>

Reboots == step = [state |-> "migrating data", pc |-> "reboot"]

WaitForReboot ==
  /\ Reboots
  /\ Answers /\ "controller-0" \notin sub.locked
  /\ Enter("unlocking controller-0") /\ deploy' = "migrated"
  /\ UNCHANGED <<kept, seen, sub, regionOne, faults, restarts>>

\* The wait times out; or the orchestrator is told to stop, and leaves the
\* status as it is.
RebootTimesOut ==
  /\ Reboots /\ Fault
  /\ Raise /\ deploy' \in {"data-migration-failed", deploy}
  /\ UNCHANGED <<kept, seen, sub, regionOne, restarts>>

--------------------------------------------------------------------------------
\* The VIM upgrades the hosts of a duplex subcloud that are left.

\* A strategy that is there is deleted, unless it is at work.
CreateVimStrategy ==
  /\ Begins("creating VIM upgrade strategy")
  /\ IF ~Answers \/ sub.vim \in {"building", "applying"}
     THEN Raise /\ UNCHANGED sub
     ELSE At("wait") /\ sub' = [sub EXCEPT !.vim = "building"]
  /\ Quiet

WaitForVimStrategy ==
  /\ Waits("creating VIM upgrade strategy")
  /\ Answers
  /\ \/ sub.vim = "ready" /\ Enter("applying VIM upgrade strategy")
     \/ sub.vim \notin {"ready", "building"} /\ Raise
  /\ Quiet /\ UNCHANGED sub

\* One that is being applied, or was, is only waited for.
ApplyVimStrategy ==
  /\ Begins("applying VIM upgrade strategy")
  /\ IF ~Answers \/ sub.vim = "none" THEN Raise /\ UNCHANGED sub
     ELSE /\ At("wait")
          /\ sub' = [sub EXCEPT !.vim = IF @ = "ready" THEN "applying" ELSE @]
  /\ Quiet

WaitForVim ==
  /\ Waits("applying VIM upgrade strategy")
  /\ Answers
  /\ \/ sub.vim = "applied" /\ Enter("swacting to controller-0")
     \/ sub.vim \notin {"applied", "applying"} /\ Raise
  /\ Quiet /\ UNCHANGED sub

--------------------------------------------------------------------------------
\* The upgrade is activated and completed, the old load deleted.

\* An upgrade that is gone is taken for one that was completed.
BeginActivation ==
  /\ Begins("activating upgrade")
  /\ IF Answers /\ sub.upgrade \in {"none", "activation-complete"}
     THEN Enter("completing upgrade")
     ELSE At("activate")
  /\ Quiet /\ UNCHANGED sub

Activatable ==
  /\ sub.upgrade \in {"upgrading-hosts", "activation-failed"}
  /\ AllUpgraded /\ ActiveIs0

Activating == [sub EXCEPT !.upgrade = "activating"]

\* The request is repeated while the subcloud does not answer it or refuses.
Activate ==
  /\ step = [state |-> "activating upgrade", pc |-> "activate"]
  /\ \/ /\ Answers /\ Activatable
        /\ At("wait") /\ sub' = Activating
        /\ Quiet
     \/ /\ IF Answers /\ ~Activatable THEN UNCHANGED faults ELSE Fault
        /\ Raise
        /\ UNCHANGED <<deploy, kept, seen, sub, regionOne, restarts>>

WaitForActivation ==
  /\ Waits("activating upgrade")
  /\ Answers
  /\ \/ sub.upgrade = "activation-complete" /\ Enter("completing upgrade")
        /\ UNCHANGED sub
     \/ sub.upgrade = "activation-failed" /\ sub' = Activating /\ UNCHANGED step
     \/ sub.upgrade = "none" /\ Raise /\ UNCHANGED sub
  /\ Quiet

Finalize == Enter("deleting load") /\ deploy' = "complete"

\* The completion is not waited for.
WrongCompleteUpgrade ==
  /\ Begins("completing upgrade")
  /\ IF Answers /\ sub.upgrade = "none" THEN Finalize /\ UNCHANGED sub
     ELSE IF Answers /\ sub.upgrade = "activation-complete"
     THEN Finalize /\ sub' = [sub EXCEPT !.upgrade = "completing"]
     ELSE Raise /\ UNCHANGED <<deploy, sub>>
  /\ UNCHANGED <<kept, seen, regionOne, faults, restarts>>

CompleteUpgrade ==
  /\ Begins("completing upgrade")
  /\ IF Answers /\ sub.upgrade = "none" THEN Finalize /\ UNCHANGED sub
     ELSE IF Answers /\ sub.upgrade = "activation-complete"
     THEN /\ At("wait") /\ sub' = [sub EXCEPT !.upgrade = "completing"]
          /\ UNCHANGED deploy
     ELSE Raise /\ UNCHANGED <<deploy, sub>>
  /\ UNCHANGED <<kept, seen, regionOne, faults, restarts>>

WaitForCompletion ==
  /\ Waits("completing upgrade")
  /\ Answers /\ sub.upgrade = "none"
  /\ Finalize
  /\ UNCHANGED <<kept, seen, sub, regionOne, faults, restarts>>

\* A load that is being deleted already is not waited for.
DeleteLoad ==
  /\ Begins("deleting load")
  /\ IF ~Answers THEN Raise /\ UNCHANGED sub
     ELSE IF sub.other.state = "imported"
     THEN At("wait") /\ sub' = [sub EXCEPT !.other.state = "deleting"]
     ELSE Enter("complete") /\ UNCHANGED sub
  /\ Quiet

LoadIsDeleted ==
  /\ Waits("deleting load")
  /\ Answers
  /\ \/ sub.other = NoLoad /\ Enter("complete")
     \/ sub.other.state = "error" /\ Raise
  /\ Quiet /\ UNCHANGED sub

--------------------------------------------------------------------------------
\* Failures, and the death of a process.

Lives == sub.disk \in {"old", "migrated"}

\* Every wait is limited, every call may fail, a check refuse, and
\* StrategyStoppedException end them.  The waits in vain are with their actions;
\* the migration begins with no call and no check.
GivesUp ==
  /\ step.state \notin Ended /\ ~Begins("migrating data")
  /\ step.pc \in {"begin", "import", "wait", "delete", "upload", "commit", "collect"}
  /\ Fault
  /\ Raise
  /\ UNCHANGED <<deploy, kept, seen, sub, regionOne, restarts>>

Restarts == restarts < MaxRestarts /\ restarts' = restarts + 1

\* The orchestrator dies and comes back: the action of the state is performed
\* from its beginning, with an empty cache.  A playbook it ran was cut off, or came to its end.
OrchestratorRestarts ==
  /\ Restarts
  /\ step.state \notin Ended
  /\ At("begin")
  /\ sub' \in CASE step.pc = "install" -> {sub, Disk("wiped"), Disk("installed")}
                [] step.pc = "playbook" /\ sub.disk = "installed" -> {sub, Migrated}
                [] OTHER -> {sub}
  /\ cached' = {} /\ UNCHANGED central
  /\ UNCHANGED <<deploy, kept, seen, faults>>

\* The row of another phase.
WrongRepaired(status) ==
  CASE status = "pre-install" -> "deploy-prep-failed"
    [] status = "installing" -> "install-failed"
    [] status = "migrating-data" -> "data-migration-failed"
    [] OTHER -> status

\* dcmanager-manager restarts, and takes deployments in progress for dead.
Repaired(status) ==
  CASE status = "pre-install" -> "pre-install-failed"
    [] status = "installing" -> "install-failed"
    [] status = "migrating-data" -> "data-migration-failed"
    [] OTHER -> status

ManagerRestarts ==
  /\ Restarts
  /\ deploy' = Repaired(deploy)
  /\ UNCHANGED <<step, kept, seen, sub, regionOne, faults>>

--------------------------------------------------------------------------------
\* The audits, and the operator who asks for another strategy.

Auditable ==
  {"complete", "install-failed", "pre-install-failed", "data-migration-failed",
   "migrated"}

Audit ==
  /\ deploy \in Auditable
  /\ seen' = IF ~sub.reach THEN "offline"
             ELSE IF sub.upgrade # "none" \/ sub.load = "old" THEN "out-of-sync"
             ELSE "in-sync"
  /\ UNCHANGED <<step, deploy, kept, sub, regionOne, faults, restarts>>

\* A subcloud that is offline is accepted when the request is forced.  The last
\* strategy is deleted first, which empties the cache.
NewStrategy ==
  /\ step.state \in Ended
  /\ seen # "in-sync"
  /\ Enter("pre check")
  /\ cached' = {} /\ UNCHANGED central
  /\ Asks /\ UNCHANGED sub

\* The operator gives the install values of the subcloud, or imports the load.
Provide ==
  /\ \/ ~kept.install /\ kept' = [kept EXCEPT !.install = TRUE]
     \/ ~kept.iso /\ kept' = [kept EXCEPT !.iso = TRUE]
  /\ UNCHANGED <<step, deploy, seen, sub, regionOne, faults, restarts>>

\* RegionOne applies a patch.
CentralApplies ==
  /\ \E p \in In(central, {"available"}) : central' = [central EXCEPT ![p] = "applied"]
  /\ UNCHANGED <<step, deploy, kept, seen, sub, cached, faults, restarts>>

--------------------------------------------------------------------------------
\* The subcloud.

Becomes(changed) ==
  sub' = changed /\ UNCHANGED <<step, deploy, kept, seen, regionOne, faults, restarts>>

Fails(changed) ==
  sub' = changed /\ Fault /\ UNCHANGED <<step, deploy, kept, seen, regionOne, restarts>>

Loads ==
  \/ /\ sub.other.state = "importing"
     /\ \/ Becomes([sub EXCEPT !.other.state = "imported"])
        \/ Fails([sub EXCEPT !.other.state = "error"])
  \/ /\ sub.other.state = "deleting"
     /\ \/ Becomes([sub EXCEPT !.other = NoLoad])
        \/ Fails([sub EXCEPT !.other.state = "error"])

Upgrades ==
  \/ /\ sub.upgrade = "starting"
     /\ \/ Becomes([sub EXCEPT !.upgrade = "started"])
        \/ Fails([sub EXCEPT !.upgrade = "none"])
  \/ /\ sub.upgrade = "data-migration"
     /\ \/ Becomes([sub EXCEPT !.upgrade = "data-migration-complete",
                               !.upgraded = @ \cup {"controller-1"}])
        \/ Fails([sub EXCEPT !.upgrade = "data-migration-failed"])
  \/ /\ sub.upgrade = "activating"
     /\ \/ Becomes([sub EXCEPT !.upgrade = "activation-complete"])
        \/ Fails([sub EXCEPT !.upgrade = "activation-failed"])
  \/ /\ sub.upgrade = "completing"
     /\ Becomes([sub EXCEPT !.upgrade = "none", !.load = "new",
                            !.other = [version |-> "old", state |-> "imported"]])

\* A host that is unlocked reboots; so does a simplex subcloud with it.
Done(task) ==
  CASE task.op = "lock" ->
         [sub EXCEPT !.task = NoTask, !.locked = @ \cup {task.host}]
    [] task.op = "unlock" ->
         [sub EXCEPT !.task = NoTask, !.locked = @ \ {task.host},
                     !.reach = sub.mode = "duplex" /\ @,
                     !.upgrade = IF @ = "data-migration-complete"
                                 THEN "upgrading-controllers" ELSE @]
    [] task.op = "swact" ->
         [sub EXCEPT !.task = NoTask, !.active = task.host]

Tasks ==
  /\ sub.task # NoTask
  /\ \/ Becomes(Done(sub.task))
     \/ Fails([sub EXCEPT !.task = NoTask])

Vim ==
  \/ /\ sub.vim = "building"
     /\ \/ /\ sub.upgrade \in {"upgrading-controllers", "upgrading-hosts"}
           /\ Becomes([sub EXCEPT !.vim = "ready"])
        \/ Fails([sub EXCEPT !.vim = "failed"])
        \/ /\ sub.upgrade \notin {"upgrading-controllers", "upgrading-hosts"}
           /\ Becomes([sub EXCEPT !.vim = "failed"])
  \/ /\ sub.vim = "applying"
     /\ \/ Becomes([sub EXCEPT !.vim = "applied", !.upgraded = Hosts, !.locked = {},
                               !.upgrade = IF @ = "upgrading-controllers"
                                           THEN "upgrading-hosts" ELSE @])
        \/ Fails([sub EXCEPT !.vim = "failed"])

Recovers == ~sub.reach /\ Becomes([sub EXCEPT !.reach = TRUE])

Outage == sub.reach /\ Fails([sub EXCEPT !.reach = FALSE])

Subcloud == Lives /\ (Loads \/ Upgrades \/ Tasks \/ Vim \/ Recovers)

--------------------------------------------------------------------------------
\* The patches of a subcloud: those that are missing, strange, or committed.
NewRepo(states) == [p \in Patches |-> IF p \in Committed THEN states[1] ELSE states[2]]

NewRepos ==
  {NewRepo(<<"absent", "absent">>), NewRepo(<<"absent", "applied">>),
   NewRepo(<<"applied", "committed">>)}

NewSubcloud(mode, other, repo) ==
  [repo |-> repo, patched |-> In(repo, Effective), mode |-> mode, reach |-> TRUE, active |-> "controller-0", locked |-> {},
   upgraded |-> {}, load |-> "old", other |-> other, upgrade |-> "none",
   task |-> NoTask, vim |-> "none", disk |-> "old"]

Init ==
  /\ step = [state |-> "none", pc |-> "begin"]
  /\ deploy = "complete"
  /\ seen = "out-of-sync"
  /\ \E mode \in Modes, iso \in BOOLEAN, repo \in NewRepos :
       /\ kept = [install |-> ~iso, upgrade |-> FALSE, iso |-> iso]
       /\ sub = NewSubcloud(mode, IF iso THEN [version |-> "older", state |-> "imported"]
                                 ELSE NoLoad, repo)
  /\ central = [p \in Patches |-> IF p \in Committed THEN "committed" ELSE "available"]
  /\ cached = {}
  /\ faults = 0
  /\ restarts = 0

Operator ==
  \/ PreCheck
  \/ InstallLicense \/ TransferCertificate
  \/ ImportLoad \/ OldLoadDeleted \/ RequestImport \/ WaitForImport
  \/ PatchOperators
  \/ StartUpgrade \/ WaitForStart
  \/ HostOperators
  \/ UpgradeDuplex \/ WaitForDuplex
  \/ BeginInstall \/ CollectUpgradeData \/ RecallUpgradeData \/ EnterInstall
  \/ PrepareInstall \/ Install
  \/ BeginMigration \/ Migrate \/ WaitForReboot \/ RebootTimesOut
  \/ CreateVimStrategy \/ WaitForVimStrategy \/ ApplyVimStrategy \/ WaitForVim
  \/ BeginActivation \/ Activate \/ WaitForActivation
  \/ CompleteUpgrade \/ WaitForCompletion
  \/ DeleteLoad \/ LoadIsDeleted
  \/ GivesUp

Next ==
  \/ Operator
  \/ OrchestratorRestarts \/ ManagerRestarts
  \/ Audit \/ NewStrategy \/ Provide \/ CentralApplies
  \/ Subcloud \/ Outage

Spec == Init /\ [][Next]_vars

\* The greenthread of the step runs on, the audits are periodic, the subcloud
\* ends what it has begun and comes back.  The operator provides what an
\* installation needs, and tries again.
Fairness ==
  /\ WF_vars(Operator) /\ SF_vars(Audit) /\ WF_vars(Subcloud)
  /\ WF_vars(NewStrategy) /\ WF_vars(Provide)

FairSpec == Spec /\ Fairness

--------------------------------------------------------------------------------
\* Properties.

Versions == {"none", "older", "old", "new"}

LoadStates == {"none", "importing", "imported", "deleting", "error"}

UpgradeStates ==
  {"none", "starting", "started", "data-migration", "data-migration-failed",
   "data-migration-complete", "upgrading-controllers", "upgrading-hosts",
   "activating", "activation-failed", "activation-complete", "completing"}

RepoStates == {"absent", "available", "applied", "committed"}

StepStates ==
  Ended \cup
  {"pre check", "installing license", "importing load", "updating patches",
   "finishing patch strategy", "starting upgrade", "transferring CA certificate", "locking controller-0",
   "locking controller-1", "upgrading simplex", "upgrading duplex",
   "migrating data", "unlocking controller-0", "unlocking controller-1",
   "swacting to controller-0", "swacting to controller-1",
   "creating VIM upgrade strategy", "applying VIM upgrade strategy",
   "activating upgrade", "completing upgrade", "deleting load"}

\* Where an operator may be.
Pcs ==
  {"begin", "delete", "import", "wait", "upload", "commit", "collect", "recall",
   "enter", "prep", "install", "playbook", "reboot", "activate"}

DeployStates ==
  Auditable \cup {"pre-install", "installing", "installed", "migrating-data"}

TaskRecords == {NoTask} \cup [op : {"lock", "unlock", "swact"}, host : Hosts]

SubcloudRecords ==
  [mode : Modes, reach : BOOLEAN, active : Hosts,
   repo : [Patches -> RepoStates], patched : SUBSET Patches,
   locked : SUBSET Hosts, upgraded : SUBSET Hosts,
   load : Versions, other : [version : Versions, state : LoadStates],
   upgrade : UpgradeStates,
   task : TaskRecords,
   vim : {"none", "building", "ready", "applying", "applied", "failed"},
   disk : {"old", "wiped", "installed", "migrated"}]

TypeOK ==
  /\ step \in [state : StepStates, pc : Pcs]
  /\ deploy \in DeployStates
  /\ kept \in [install : BOOLEAN, upgrade : BOOLEAN, iso : BOOLEAN]
  /\ seen \in {"offline", "out-of-sync", "in-sync"}
  /\ sub \in SubcloudRecords
  /\ {central} \cup cached \subseteq [Patches -> RepoStates]
  /\ faults \in 0..MaxFaults
  /\ restarts \in 0..MaxRestarts

Upgraded == sub.load = "new" /\ sub.upgrade = "none" /\ sub.upgraded = HostsOf

(* A step is complete only when the subcloud runs the new load on all its  *)
(* hosts and its upgrade is completed, however many strategies it took and *)
(* wherever they went on.                                                  *)
CompleteIsUpgraded ==
  step.state = "complete" => Upgraded /\ deploy = "complete"

(* What deploy_status says of an installation is so: the pre-check of the  *)
(* next strategy goes by it when the subcloud cannot be asked.  And an     *)
(* upgrade that has begun was prepared: the subcloud has the patches that  *)
(* RegionOne has committed, and none that it has not, however old the cached *)
(* answer of RegionOne was and wherever a strategy was cut off.            *)
StatusIsEarned ==
  /\ sub.upgrade # "none" => /\ Committed \subseteq In(sub.repo, Effective)
                             /\ In(sub.repo, Effective) \subseteq In(central, Effective)
  /\ deploy = "installed" => sub.disk \in {"installed", "migrated"}
  /\ deploy = "migrated" => sub.disk = "migrated"
  /\ deploy = "complete" => Lives

\* Where no further strategy helps, and somebody has to.

\* An operator refuses: a committed patch, the upgrade record, or the load, is
\* in the way.
FailedForGood ==
  \/ In(sub.repo, {"committed"}) \ In(central, Effective) # {}
  \/ sub.upgrade = "data-migration-failed"
  \/ sub.other = [version |-> "new", state |-> "error"]

\* The audits leave these statuses alone, so that the subcloud is not seen
\* offline; or it is, and the pre-check does not know what to do.
OutOfSight ==
  \/ deploy \in {"pre-install", "installing", "installed"} /\ ~Lives
                                                         /\ seen # "offline"
  \/ deploy \in {"pre-install", "installing", "migrating-data"}
                                                         /\ seen = "offline"

\* An upgraded host was locked by a strategy that began from the start, for an
\* upgrade it took for a new one.
LockedAgain ==
  /\ sub.locked # {} /\ sub.upgraded = HostsOf
  /\ sub.upgrade \in {"upgrading-hosts", "activation-failed"}

\* The wait had timed out when the subcloud completed the upgrade.
CompletedLate == Upgraded /\ deploy = "migrated"

(* However often the orchestrator dies and whatever fails, new strategies  *)
(* bring the upgrade to its end, except from the situations above.         *)
Resumes ==
  <>[](\/ Upgraded /\ deploy = "complete"
       \/ FailedForGood \/ OutOfSight \/ LockedAgain \/ CompletedLate)
================================================================================
