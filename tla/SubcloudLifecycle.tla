--------------------------- MODULE SubcloudLifecycle ---------------------------
(***************************************************************************)
(* dcmanager: the operations on a subcloud.  The API checks a request      *)
(* against the subcloud's row and sends it to dcmanager-manager, whose     *)
(* handler or thread writes every phase it reaches in deploy_status or in  *)
(* backup_status, and how it ended.  Strategies of the orchestrator work   *)
(* on the same row.  Processes die with the work they were doing; a        *)
(* manager that starts turns the statuses of interrupted work into         *)
(* failures.                                                               *)
(*                                                                         *)
(* One subcloud is followed.  An action is one access to its row with the  *)
(* work up to the next one.  The playbooks are only known to succeed or    *)
(* to fail.                                                                *)
(***************************************************************************)
EXTENDS Integers, Sequences

CONSTANTS
  Operations,   \* what is asked for: operations of Plans, and strategies
  Workers,      \* handlers, threads and strategy steps at a time
  MaxRequests,  \* bound on the requests and strategies
  MaxCrashes    \* bound on the processes that die

ASSUME ConstantsAssumption == {MaxRequests, MaxCrashes} \subseteq Nat

VARIABLES
  row,      \* the subcloud's row, or NoRow
  api,      \* per controller: the request it has checked, or Idle
  queue,    \* the requests sent to the manager and not taken
  worker,   \* per worker: what it does, or Idle
  start,    \* dcmanager-manager: "down", "serving", "repairing" or "up"
  found,    \* the row as the starting manager read it
  mixed,    \* work was asked for, or repaired, while other work went on
  used,     \* requests and strategies so far
  crashes

vars == <<row, api, queue, worker, start, found, mixed, used, crashes>>

--------------------------------------------------------------------------------
\* The phases of the operations, by the status each writes.

Optional(phases) == {<<>>, phases}

InstallPhases == <<"pre-install", "installing">>

DeployPhases == <<"deploying">>

\* What run_deploy does without a rehoming: the parts it was given commands for.
BuildPlan(install, deploy) ==
  install \o <<"bootstrapping">> \o deploy \o <<"complete">>

Building(install) ==
  {BuildPlan(i, d) : i \in install, d \in Optional(DeployPhases)}

AddPlans == {<<"pre-deploy">> \o b : b \in Building(Optional(InstallPhases))}

RehomePlans == {<<"pre-rehome", "rehoming", "complete">>}

ReconfigurePlans ==
  {<<"pre-deploy">> \o d \o <<"complete">> : d \in Optional(DeployPhases)}

ReinstallPlans == Building({InstallPhases})

RestorePlans ==
  {<<"pre-restore">> \o i \o <<"restoring", "complete">> :
     i \in Optional(InstallPhases)}

NetworkPlans == {<<"complete">>}

PreparePhases == <<"prestage-prepare">>

PrestagePlans ==
  {PreparePhases \o <<"prestaging-packages">> \o i \o <<"prestage-complete">> :
     i \in Optional(<<"prestaging-images">>)}

BackupPlans ==
  {<<"initial", "validating", "pre-backup", "backing-up", s>> :
     s \in {"complete-local", "complete-central"}}

BackupDeletePlans == {<<"unknown">>}

DeletePlans == {<<"gone">>}

Plans ==
  [add |-> AddPlans, rehome |-> RehomePlans, reconfigure |-> ReconfigurePlans,
   reinstall |-> ReinstallPlans, restore |-> RestorePlans,
   network |-> NetworkPlans, prestage |-> PrestagePlans, backup |-> BackupPlans,
   backup_delete |-> BackupDeletePlans, delete |-> DeletePlans,
   manage |-> {<<"managed">>}, unmanage |-> {<<"unmanaged">>}]

PrestageStates ==
  {"prestage-prepare", "prestaging-packages", "prestaging-images"}

\* What a phase that fails leaves as the status.
InstallFailedAs ==
  [s \in {"upgrading", "pre-install", "installing"} |->
     IF s = "installing" THEN "install-failed" ELSE "pre-install-failed"]

PrepareFailedAs ==
  [s \in {"pre-deploy", "pre-rehome"} |->
     IF s = "pre-deploy" THEN "deploy-prep-failed" ELSE "rehome-prep-failed"]

BuildFailedAs ==
  [s \in {"bootstrapping", "deploying", "rehoming"} |->
     CASE s = "bootstrapping" -> "bootstrap-failed"
       [] s = "deploying" -> "deploy-failed"
       [] OTHER -> "rehome-failed"]

RestoreFailedAs ==
  [s \in {"pre-restore", "restoring"} |->
     IF s = "pre-restore" THEN "restore-prep-failed" ELSE "restore-failed"]

NetworkFailedAs ==
  [s \in {"reconfiguring-network"} |-> "network-reconfiguration-failed"]

PrestageFailedAs ==
  [s \in PrestageStates \cup {"prechecked"} |-> "prestage-failed"]

MigrationFailedAs == [s \in {"migrating-data"} |-> "data-migration-failed"]

BackupFailedAs ==
  [s \in {"validating", "pre-backup", "backing-up"} |->
     CASE s = "validating" -> "validate-failed"
       [] s = "pre-backup" -> "backup-prep-failed"
       [] OTHER -> "failed"]

DeployMayFail ==
  DOMAIN PrepareFailedAs \cup DOMAIN InstallFailedAs \cup DOMAIN BuildFailedAs
    \cup DOMAIN RestoreFailedAs \cup DOMAIN NetworkFailedAs
    \cup DOMAIN PrestageFailedAs \cup DOMAIN MigrationFailedAs

FailedAs ==
  [s \in DeployMayFail \cup DOMAIN BackupFailedAs |->
     CASE s \in DOMAIN PrepareFailedAs -> PrepareFailedAs[s]
       [] s \in DOMAIN InstallFailedAs -> InstallFailedAs[s]
       [] s \in DOMAIN BuildFailedAs -> BuildFailedAs[s]
       [] s \in DOMAIN RestoreFailedAs -> RestoreFailedAs[s]
       [] s \in DOMAIN NetworkFailedAs -> NetworkFailedAs[s]
       [] s \in DOMAIN PrestageFailedAs -> PrestageFailedAs[s]
       [] s \in DOMAIN MigrationFailedAs -> MigrationFailedAs[s]
       [] OTHER -> BackupFailedAs[s]]

\* TRANSITORY_STATES and TRANSITORY_BACKUP_STATES, and what a start of the
\* manager turns them into.  Wrong... and Forgetful... are plausible mistakes in the definition
\* that follows them.
WrongRepairedAs ==
  [s \in PrestageStates \cup {"not-deployed", "pre-install", "restoring", "backing-up"} |->
     CASE s \in PrestageStates -> "prestage-failed"
       [] s = "not-deployed" -> "deploy-prep-failed"
       [] s = "pre-install" -> "pre-install-failed"
       [] OTHER -> "failed"]

RepairedAs ==
  [s \in PrestageStates \cup
         {"not-deployed", "pre-deploy", "pre-install", "installing", "bootstrapping",
          "deploying", "migrating-data", "pre-restore", "restoring",
          "validating", "pre-backup", "backing-up"} |->
     CASE s \in PrestageStates -> "prestage-failed"
       [] s \in {"not-deployed", "pre-deploy"} -> "deploy-prep-failed"
       [] s = "pre-install" -> "pre-install-failed"
       [] s = "installing" -> "install-failed"
       [] s = "bootstrapping" -> "bootstrap-failed"
       [] s = "deploying" -> "deploy-failed"
       [] s = "migrating-data" -> "data-migration-failed"
       [] s = "pre-restore" -> "restore-prep-failed"
       [] s = "restoring" -> "restore-failed"
       [] s = "validating" -> "validate-failed"
       [] s = "pre-backup" -> "backup-prep-failed"
       [] OTHER -> "failed"]

WrongRepaired(status) == status

Repaired(status) ==
  IF status \in DOMAIN RepairedAs THEN RepairedAs[status] ELSE status

Transitory == DOMAIN RepairedAs

OngoingBackup == {"initial", "validating", "pre-backup", "backing-up"}

\* Every status that stands for work in progress or asked for.
Busy ==
  Transitory \cup OngoingBackup
    \cup {"pre-rehome", "rehoming", "reconfiguring-network"}

BackupFailed == {"validate-failed", "backup-prep-failed", "failed"}

BackupStates ==
  OngoingBackup \cup BackupFailed
    \cup {"unknown", "complete-local", "complete-central"}

PrestageEnded == {"prestage-failed", "prestage-complete"}

DeployFailed ==
  {"deploy-prep-failed", "rehome-prep-failed", "pre-install-failed", "install-failed",
   "bootstrap-failed", "deploy-failed", "rehome-failed", "restore-prep-failed",
   "restore-failed", "network-reconfiguration-failed", "data-migration-failed"}

DeployStates ==
  (Busy \ OngoingBackup) \cup PrestageEnded \cup DeployFailed
    \cup {"installed", "migrated", "complete"}

Controllers == {"subclouds", "backups"}

NoRow ==
  [id |-> 0, deploy |-> "complete", backup |-> "unknown",
   management |-> "unmanaged", availability |-> "offline"]

NewRow(id) ==
  [NoRow EXCEPT !.id = id, !.deploy = "not-deployed"]

Idle == [op |-> "none", id |-> 0, at |-> "idle", rest |-> <<>>]

NoRequest == [op |-> "none", id |-> 0, plan |-> <<>>]

Exists == row # NoRow

\* The row of a request or of a worker: a subcloud added again has another id.
Mine(x) == Exists /\ row.id = x.id

--------------------------------------------------------------------------------
\* What an operation asks of the row.

Online == row.availability = "online"

Managed == row.management = "managed"

Prestageable ==
  /\ Exists /\ Online /\ Managed
  /\ row.deploy \in {"complete"} \cup PrestageEnded

Reconfigurable ==
  row.deploy \in {"complete", "deploy-prep-failed", "deploy-failed"}
                   \cup PrestageStates \cup PrestageEnded

Restorable ==
  /\ ~Managed
  /\ row.deploy \notin {"installing", "bootstrapping", "deploying", "rehoming",
                        "pre-restore", "restoring"}

Backable ==
  Online /\ Managed /\ row.deploy \in {"complete", "prestage-complete"}

Manageable ==
  Online /\ row.deploy \in {"complete"} \cup PrestageStates \cup PrestageEnded

\* The checks of the API; those of the other operations are the handler's.
\* (A backup that is not local is deleted whatever the row says.)
AcceptsAdd == ~Exists

AcceptsReconfigure == Reconfigurable

AcceptsReinstall == ~Online

AcceptsNetwork == ~Managed

AcceptsPrestage == Prestageable

AcceptsRestore == Restorable

AcceptsBackup == Backable /\ row.backup \notin OngoingBackup

Accepts(op) ==
  IF op \in {"add", "rehome"} THEN AcceptsAdd
  ELSE /\ Exists
       /\ op = "reconfigure" => AcceptsReconfigure
       /\ op = "reinstall" => AcceptsReinstall
       /\ op = "network" => AcceptsNetwork
       /\ op = "prestage" => AcceptsPrestage
       /\ op = "restore" => AcceptsRestore
       /\ op = "backup" => AcceptsBackup

\* The handlers' own, on the row they read.  With force, manage asks nothing
\* of the status.
AdmitsBackup == row.backup \notin OngoingBackup

AdmitsDelete == ~Managed /\ ~Online

AdmitsManage(force) == ~Managed /\ (Manageable \/ force)

Admits(op, force) ==
  /\ op = "restore" => Restorable
  /\ op = "backup" => AdmitsBackup
  /\ op = "delete" => AdmitsDelete
  /\ op = "manage" => AdmitsManage(force)
  /\ op = "unmanage" => Managed

\* What the row shows, or a client still waits for: that its request has
\* begun, and the answer of those that are answered when they are done.
Answered == {"backup_delete", "delete", "manage", "unmanage"}

Strategies == {"upgrade", "orch_prestage"}

Active(w) == worker[w] # Idle /\ worker[w].at # "waiting"

Asked == queue # {} \/ \E c \in Controllers : api[c] # NoRequest

Pending ==
  \/ Asked
  \/ Exists /\ (row.deploy \in Busy \/ row.backup \in Busy)
  \/ \E w \in Workers :
       /\ Active(w)
       /\ worker[w].op \in Answered \cup Strategies \/ worker[w].at = "taken"

Mixes == mixed' = (mixed \/ Pending)

--------------------------------------------------------------------------------
\* dcmanager-api.

ControllerOf(op) ==
  IF op \in {"restore", "backup", "backup_delete"} THEN "backups"
  ELSE "subclouds"

Counted == used < MaxRequests /\ used' = used + 1

\* The controllers take one request at a time each, in all their processes.
Request(op, plan) ==
  /\ op \in Operations
  /\ Counted
  /\ api[ControllerOf(op)] = NoRequest
  /\ Accepts(op)
  /\ api' = [api EXCEPT ![ControllerOf(op)] =
               [op |-> op, id |-> row.id, plan |-> plan]]
  /\ Mixes
  /\ UNCHANGED <<row, queue, worker, start, found, crashes>>

AddSubcloud == row' = NewRow(used)

\* The controller's write and its message.  It raises without the row.
WriteOfApi(m) ==
  CASE m.op \in {"add", "rehome"} -> AddSubcloud
    [] m.op = "reinstall" ->
         row' = [row EXCEPT !.deploy = "pre-install",
                            !.management = "unmanaged"]
    [] m.op = "network" ->
         row' = [row EXCEPT !.deploy = "reconfiguring-network"]
    [] OTHER -> UNCHANGED row

Submit(c) ==
  LET m == api[c] IN
  /\ m # NoRequest
  /\ api' = [api EXCEPT ![c] = NoRequest]
  /\ IF m.op \in {"reinstall", "network"} /\ ~Mine(m)
     THEN UNCHANGED <<row, queue>>
     ELSE /\ WriteOfApi(m)
          /\ queue' = queue \cup {[m EXCEPT !.id = row'.id]}
  /\ UNCHANGED <<worker, start, found, mixed, used, crashes>>

--------------------------------------------------------------------------------
\* The handlers and threads.

Free(w) == worker' = [worker EXCEPT ![w] = Idle]

Write(status) ==
  row' = CASE status = "gone" -> NoRow
           [] status \in BackupStates -> [row EXCEPT !.backup = status]
           [] status \in DeployStates -> [row EXCEPT !.deploy = status]
           [] OTHER -> [row EXCEPT !.management = status]

\* Where the thread stands when the handler has taken the message: the first
\* four write their first status at once, the next two have had it written.
Taken(m, id) ==
  CASE m.op \in {"add", "rehome", "reconfigure", "prestage"} ->
         [op |-> m.op, id |-> id, at |-> Head(m.plan), rest |-> Tail(m.plan)]
    [] m.op = "reinstall" ->
         [op |-> m.op, id |-> id, at |-> "pre-install", rest |-> m.plan]
    [] m.op = "network" ->
         [op |-> m.op, id |-> id, at |-> "reconfiguring-network", rest |-> m.plan]
    [] m.op = "backup" /\ ~Backable ->
         [op |-> m.op, id |-> id, at |-> "taken",
          rest |-> <<"initial", "validating", "validate-failed">>]
    [] OTHER -> [op |-> m.op, id |-> id, at |-> "taken", rest |-> m.plan]

\* add_subcloud and prestage_subcloud look the subcloud up by its name.
Finds(m) ==
  IF m.op \in {"add", "rehome", "prestage"} THEN Exists ELSE Mine(m)

Take(w, m) ==
  /\ start # "down"
  /\ worker[w] = Idle
  /\ m \in queue
  /\ queue' = queue \ {m}
  /\ \E force \in BOOLEAN :
       IF Finds(m) /\ Admits(m.op, force)
       THEN /\ worker' = [worker EXCEPT ![w] = Taken(m, row.id)]
            /\ IF Taken(m, row.id).at = Head(m.plan)
               THEN Write(Head(m.plan))
               ELSE UNCHANGED row
       ELSE UNCHANGED <<worker, row>>
  /\ UNCHANGED <<api, start, found, mixed, used, crashes>>

\* The phase has succeeded and the next status is written.  A worker whose
\* row is gone ends with an exception.
Advance(w) ==
  LET rest == worker[w].rest IN
  /\ rest # <<>>
  /\ worker[w].at # "waiting"
  /\ IF Mine(worker[w]) THEN Write(Head(rest)) ELSE UNCHANGED row
  /\ IF Mine(worker[w])
          /\ (Len(rest) > 1 \/ worker[w].op \in {"manage", "unmanage"})
     THEN worker' = [worker EXCEPT ![w].at = Head(rest), ![w].rest = Tail(rest)]
     ELSE Free(w)
  /\ UNCHANGED <<api, queue, start, found, mixed, used, crashes>>

\* The phase has failed, and the status says so.
ForgetfulFail(w) ==
  /\ worker[w].at \in DOMAIN FailedAs
  /\ Free(w)
  /\ UNCHANGED <<row, api, queue, start, found, mixed, used, crashes>>

WrongFail(w) ==
  /\ worker[w].at \in DOMAIN FailedAs
  /\ IF Mine(worker[w]) THEN Write(FailedAs[worker[w].at]) ELSE UNCHANGED row
  /\ UNCHANGED <<worker, api, queue, start, found, mixed, used, crashes>>

Fail(w) ==
  /\ worker[w].at \in DOMAIN FailedAs
  /\ IF Mine(worker[w]) THEN Write(FailedAs[worker[w].at]) ELSE UNCHANGED row
  /\ Free(w)
  /\ UNCHANGED <<api, queue, start, found, mixed, used, crashes>>

\* Failures that leave no trace in the row: of the preparation of a network
\* reconfiguration or its last step, of a deletion, of the steps of an
\* upgrade that keep no status.
FailSilently(w) ==
  /\ \/ worker[w].op = "network"
     \/ worker[w].op \in {"delete", "backup_delete"}
     \/ /\ worker[w].op = "upgrade"
        /\ worker[w].at \in {"upgrading", "taken", "installed", "migrated"}
  /\ Free(w)
  /\ UNCHANGED <<row, api, queue, start, found, mixed, used, crashes>>

\* update_subcloud tells dcorch, and takes its write back when that fails.
TellDcorch(w) ==
  /\ worker[w].op \in {"manage", "unmanage"} /\ worker[w].rest = <<>>
  /\ \E told \in BOOLEAN :
       IF told \/ ~Mine(worker[w]) THEN UNCHANGED row
       ELSE Write(IF worker[w].op = "manage" THEN "unmanaged" ELSE "managed")
  /\ Free(w)
  /\ UNCHANGED <<api, queue, start, found, mixed, used, crashes>>

--------------------------------------------------------------------------------
\* Steps of strategies, in dcmanager-orchestrator.

\* The upgrade of a simplex subcloud, from where an earlier one has left it.
UpgradePlan ==
  LET full == <<"pre-install", "installing", "installed", "migrating-data",
                "migrated", "complete">>
  IN  CASE row.deploy = "migrated" -> SubSeq(full, 6, 6)
        [] row.deploy = "data-migration-failed" /\ Online -> SubSeq(full, 5, 6)
        [] row.deploy = "installed" /\ ~Online -> SubSeq(full, 4, 6)
        [] OTHER -> full

StartUpgrade(w) ==
  /\ "upgrade" \in Operations
  /\ Counted
  /\ worker[w] = Idle
  /\ Exists /\ Managed
  /\ \/ Online
     \/ row.deploy \in {"pre-install-failed", "install-failed",
                        "data-migration-failed", "installed", "migrated"}
  /\ worker' = [worker EXCEPT ![w] =
                  [op |-> "upgrade", id |-> row.id, rest |-> UpgradePlan,
                   at |-> IF Head(UpgradePlan) = "pre-install" THEN "upgrading"
                          ELSE "taken"]]
  /\ Mixes
  /\ UNCHANGED <<row, api, queue, start, found, crashes>>

\* A prestage strategy takes the subcloud in, and its step waits for its stage.
PlanPrestage(w) ==
  /\ "orch_prestage" \in Operations
  /\ Counted
  /\ worker[w] = Idle
  /\ Prestageable
  /\ worker' = [worker EXCEPT ![w] =
                  [op |-> "orch_prestage", id |-> row.id, at |-> "waiting",
                   rest |-> <<"complete">>]]
  /\ UNCHANGED <<row, api, queue, start, found, mixed, crashes>>

\* The pre-check of the step.  A subcloud that is not as it should be is
\* skipped, which writes "complete".
PreCheck(w) ==
  /\ worker[w].at = "waiting"
  /\ IF ~Mine(worker[w]) THEN Free(w)
     ELSE IF Prestageable
     THEN \E plan \in PrestagePlans :
            worker' = [worker EXCEPT ![w].at = "prechecked", ![w].rest = plan]
     ELSE worker' = [worker EXCEPT ![w].at = "skipped"]
  /\ Mixes
  /\ UNCHANGED <<row, api, queue, start, found, used, crashes>>

--------------------------------------------------------------------------------
\* Processes that die and the start of the manager.

Crash == crashes < MaxCrashes /\ crashes' = crashes + 1

\* Messages wait for a manager that is down.
ManagerDies ==
  /\ start # "down"
  /\ Crash
  /\ start' = "down"
  /\ worker' = [w \in Workers |->
                  IF worker[w].op \in Strategies THEN worker[w] ELSE Idle]
  /\ UNCHANGED <<row, api, queue, found, mixed, used>>

\* The active controller is lost with all its processes and messages; a
\* strategy step that had not begun is still in the database.
ControllerLost ==
  /\ Crash
  /\ start' = "down"
  /\ api' = [c \in Controllers |-> NoRequest]
  /\ queue' = {}
  /\ worker' = [w \in Workers |-> IF Active(w) THEN Idle ELSE worker[w]]
  /\ UNCHANGED <<row, found, mixed, used>>

StartServing ==
  /\ start = "down"
  /\ start' = "serving"
  /\ UNCHANGED <<row, api, queue, worker, found, mixed, used, crashes>>

\* handle_subcloud_operations_in_progress reads the subclouds; messages are
\* taken already.
ReadForRepair ==
  /\ start = "serving"
  /\ start' = "repairing"
  /\ found' = row
  /\ UNCHANGED <<row, api, queue, worker, mixed, used, crashes>>

\* Both statuses are written, one of them perhaps as it was read.  A subcloud
\* that was deleted since makes the start fail.
Repair ==
  LET needed == {found.deploy, found.backup} \cap Transitory # {} IN
  /\ start = "repairing"
  /\ found' = NoRow
  /\ IF found # NoRow /\ needed
     THEN IF Mine(found)
          THEN /\ row' = [row EXCEPT !.deploy = Repaired(found.deploy),
                                     !.backup = Repaired(found.backup)]
               /\ start' = "up"
               /\ mixed' = (mixed \/ Asked \/ \E w \in Workers : Active(w))
          ELSE start' = "down" /\ UNCHANGED <<row, mixed>>
     ELSE start' = "up" /\ UNCHANGED <<row, mixed>>
  /\ UNCHANGED <<api, queue, worker, used, crashes>>

\* The audits find the subcloud online or offline.
AvailabilityChanges ==
  /\ Exists
  /\ row' = [row EXCEPT !.availability = IF Online THEN "offline" ELSE "online"]
  /\ UNCHANGED <<api, queue, worker, start, found, mixed, used, crashes>>

--------------------------------------------------------------------------------
Deployed(management, availability) ==
  [NoRow EXCEPT !.id = MaxRequests + 1, !.management = management,
                !.availability = availability]

Init ==
  /\ row \in {NoRow, Deployed("unmanaged", "offline"), Deployed("managed", "online")}
  /\ api = [c \in Controllers |-> NoRequest]
  /\ queue = {}
  /\ worker = [w \in Workers |-> Idle]
  /\ start = "up"
  /\ found = NoRow
  /\ mixed = FALSE
  /\ used = 0
  /\ crashes = 0

Works(w) ==
  Advance(w) \/ Fail(w) \/ FailSilently(w) \/ TellDcorch(w)

Starts == StartServing \/ ReadForRepair \/ Repair

Next ==
  \/ \E op \in DOMAIN Plans : \E plan \in Plans[op] : Request(op, plan)
  \/ \E c \in Controllers : Submit(c)
  \/ \E w \in Workers, m \in queue : Take(w, m)
  \/ \E w \in Workers :
       Works(w) \/ StartUpgrade(w) \/ PlanPrestage(w) \/ PreCheck(w)
  \/ ManagerDies
  \/ ControllerLost
  \/ Starts
  \/ AvailabilityChanges

Spec == Init /\ [][Next]_vars

\* Processes that are up run on, playbooks end, and a process that is down is
\* started again.
FairSpec ==
  /\ Spec
  /\ \A c \in Controllers : WF_vars(Submit(c))
  /\ WF_vars(\E w \in Workers, m \in queue : Take(w, m))
  /\ \A w \in Workers : WF_vars(Works(w))
  /\ WF_vars(Starts)

--------------------------------------------------------------------------------
AnyPlan == UNION {Plans[op] : op \in DOMAIN Plans}

Requests ==
  [op : DOMAIN Plans \cup {"none"}, id : 0 .. MaxRequests + 1,
   plan : AnyPlan \cup {<<>>}]

Rows ==
  [id : 0 .. MaxRequests + 1, deploy : DeployStates, backup : BackupStates,
   management : {"managed", "unmanaged"}, availability : {"online", "offline"}]

TypeOK ==
  /\ row \in Rows
  /\ api \in [Controllers -> Requests]
  /\ queue \subseteq Requests
  /\ DOMAIN worker = Workers
  /\ start \in {"down", "serving", "repairing", "up"}
  /\ found \in Rows
  /\ mixed \in BOOLEAN
  /\ used \in 0 .. MaxRequests
  /\ crashes \in 0 .. MaxCrashes

DeployOps ==
  {"add", "rehome", "reconfigure", "reinstall", "restore", "network", "prestage"}
    \cup Strategies

\* Somebody is at work, or about to be, who will write that status again.
HasWorker(ops) ==
  \/ \E w \in Workers : worker[w].op \in ops /\ Active(w) /\ Mine(worker[w])
  \/ \E m \in queue : m.op \in ops /\ Finds(m)

\* A status that a start of the manager would turn into a failure belongs to
\* work that is still going on, once the manager is up: no process that dies,
\* no message that is lost and no failure leaves it behind.
TransitoryHasWorker ==
  (start = "up" /\ Exists) =>
    /\ row.deploy \in Transitory => HasWorker(DeployOps)
    /\ row.backup \in Transitory => HasWorker({"backup"})

\* A client that sends nothing while its subcloud shows work is never wrong
\* about it: what works on the subcloud shows in a status, from the message
\* to the last phase, and so nothing else is begun beside it; and what takes the
\* subcloud down, or builds it, works on one that is unmanaged until it has ended.
WorkIsShown ==
  ~mixed =>
    /\ \A w \in Workers :
         (Active(w) /\ Mine(worker[w]) /\ worker[w].at # "taken"
            /\ worker[w].op \in (DeployOps \ Strategies) \cup {"backup"})
         => {row.deploy, row.backup} \cap Busy # {}
    /\ \A v, w \in Workers :
         (Active(v) /\ Active(w) /\ Mine(worker[v]) /\ Mine(worker[w])) => v = w
    /\ \A w \in Workers :
         (worker[w].op \in {"add", "rehome", "reinstall", "restore", "network"}
            /\ Mine(worker[w])) => ~Managed

\* Whatever dies and whatever fails, the subcloud comes to a status that it
\* can be worked with again.
StatusSettles ==
  []<>(~Exists \/ {row.deploy, row.backup} \cap Transitory = {})
================================================================================
