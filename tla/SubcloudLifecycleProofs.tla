------------------------- MODULE SubcloudLifecycleProofs ------------------------
(***************************************************************************)
(* For any workers, requests and crashes: the variables keep their types;  *)
(* a transitory status of a manager that is up has somebody at work; and   *)
(* work that nothing was asked for beside it shows in the row and is alone.*)
(* And for any patches, images, devices and versions: the endpoints of the *)
(* subcloud keep their types, and a completed step has done its work.      *)
(***************************************************************************)
EXTENDS SubcloudLifecycle, EndpointUpdates, TLAPS, WellFoundedInduction

\* A sequence of phases: statuses of the one set, and last one of the other.
IsPlan(p, Phases, Results) ==
  /\ p \in Seq(Phases \cup Results)
  /\ p # <<>>
  /\ \A i \in 1 .. Len(p) : i < Len(p) => p[i] \in Phases
  /\ p[Len(p)] \in Results

PlainOps == DeployOps \ Strategies

DeployPhaseStates == (Busy \ OngoingBackup) \ {"not-deployed"}

\* The statuses of a deployment or a prestaging that is over.
DeployResults == {"complete", "prestage-complete"}

BackupResults == {"complete-local", "complete-central", "validate-failed"}

Ops == DOMAIN Plans \cup Strategies

\* What is still to be written by the work of an operation.
IsRest(op, rest) ==
  /\ op \in PlainOps => IsPlan(rest, DeployPhaseStates, DeployResults)
  /\ op = "network" => rest = <<"complete">>
  /\ op \in Strategies => IsPlan(rest, DeployStates, DeployResults)
  /\ op = "backup" => IsPlan(rest, OngoingBackup, BackupResults)
  /\ op = "backup_delete" => rest = <<"unknown">>
  /\ op = "delete" => rest = <<"gone">>
  /\ op = "manage" => rest \in {<<>>, <<"managed">>}
  /\ op = "unmanage" => rest \in {<<>>, <<"unmanaged">>}

\* Where it is: at a status it has written, at none yet, or at a phase that has
\* no status.
IsAt(op, at) ==
  /\ op \in PlainOps => at \in DeployPhaseStates \cup {"taken"}
  /\ op = "network" => at = "reconfiguring-network"
  /\ op = "upgrade" => at \in DeployStates \cup {"taken", "upgrading"}
  /\ op = "orch_prestage" =>
       at \in DeployStates \cup {"waiting", "prechecked", "skipped"}
  /\ op = "backup" => at \in OngoingBackup \cup {"taken"}
  /\ op \in Answered => at \in {"taken", "managed", "unmanaged"}

Statuses == DeployStates \cup BackupStates \cup {"gone", "managed", "unmanaged"}

WorkerRecords ==
  [op : Ops \cup {"none"}, id : 0 .. MaxRequests + 1, rest : Seq(Statuses),
   at : Statuses \cup {"idle", "taken", "waiting", "upgrading", "prechecked", "skipped"}]

IsWorker(x) ==
  /\ x \in WorkerRecords
  /\ x = Idle \/ (x.op \in Ops /\ IsAt(x.op, x.at) /\ IsRest(x.op, x.rest))

IsRequest(m) ==
  m \in Requests /\ m.op \in DOMAIN Plans /\ m.plan \in Plans[m.op]

WorkersOK ==
  /\ worker \in [Workers -> WorkerRecords]
  /\ \A w \in Workers : IsWorker(worker[w])
  /\ \A m \in queue : IsRequest(m)
  /\ \A c \in Controllers : api[c] = NoRequest \/ IsRequest(api[c])

\* Who has written the status of the row, or is going to.
DeployWitness ==
  \/ \E w \in Workers : /\ worker[w].op \in DeployOps /\ Mine(worker[w])
                        /\ worker[w].at = row.deploy
  \/ \E m \in queue : m.op \in {"add", "rehome"} /\ row.deploy = "not-deployed"
  \/ \E m \in queue : m.op = "reinstall" /\ Mine(m) /\ row.deploy = "pre-install"

BackupWitness ==
  \E w \in Workers : /\ worker[w].op = "backup" /\ Mine(worker[w])
                     /\ worker[w].at = row.backup

\* When the manager is up, and of what it has not read when it is repairing.
Witnessed ==
  start \in {"repairing", "up"} /\ Exists =>
    /\ row.deploy \in Transitory =>
         \/ DeployWitness
         \/ start = "repairing" /\ Mine(found) /\ found.deploy = row.deploy
    /\ row.backup \in Transitory =>
         \/ BackupWitness
         \/ start = "repairing" /\ Mine(found) /\ found.backup = row.backup

\* Nothing is asked for while another thing is asked for, or worked at.
OneAtATime ==
  /\ \A c, d \in Controllers :
       api[c] # NoRequest /\ api[d] # NoRequest => c = d
  /\ \A m, n \in queue : m = n
  /\ (\E c \in Controllers : api[c] # NoRequest) => queue = {}
  /\ Asked => \A w \in Workers : ~Active(w)
  /\ \A v, w \in Workers : Active(v) /\ Active(w) => v = w

\* What is at work is on the row, and shows.
Shows(w) ==
  /\ Mine(worker[w])
  /\ worker[w].op \in PlainOps /\ worker[w].at # "taken" => worker[w].at = row.deploy
  /\ worker[w].op = "backup" /\ worker[w].at # "taken" => worker[w].at = row.backup

TakesDown == {"add", "rehome", "reinstall", "restore", "network"}

Alone ==
  ~mixed =>
    /\ OneAtATime
    /\ \A w \in Workers : Active(w) => Shows(w)
    /\ \A w \in Workers : Active(w) /\ worker[w].op \in TakesDown => ~Managed
    /\ \A c \in Controllers : api[c].op = "network" /\ Mine(api[c]) => ~Managed
    /\ \A m \in queue :
         /\ m.op \in {"add", "rehome", "reinstall", "network"} /\ Finds(m) => ~Managed
         /\ m.op = "network" /\ Mine(m) => row.deploy = "reconfiguring-network"

\* Only NoRow has the id 0.
Numbered ==
  /\ Exists => row.id # 0
  /\ (\E c \in Controllers : api[c] # NoRequest) => used # 0

IInv == TypeOK /\ WorkersOK /\ Numbered /\ Witnessed /\ Alone

(***************************************************************************)
(* The statuses                                                            *)
(***************************************************************************)

LEMMA TransitoryIs ==
  Transitory = PrestageStates \cup
    {"not-deployed", "pre-deploy", "pre-install", "installing", "bootstrapping",
     "deploying", "migrating-data", "pre-restore", "restoring", "validating",
     "pre-backup", "backing-up"}
BY DEF Transitory, RepairedAs

\* What a start of the manager turns them into.
LEMMA RepairedValues ==
  \A s \in Transitory :
    IF s \in OngoingBackup
      THEN RepairedAs[s] \in {"validate-failed", "backup-prep-failed", "failed"}
      ELSE RepairedAs[s] \in
             {"prestage-failed", "deploy-prep-failed", "pre-install-failed",
              "install-failed", "bootstrap-failed", "deploy-failed",
              "data-migration-failed", "restore-prep-failed", "restore-failed"}
BY TransitoryIs DEF RepairedAs, PrestageStates, OngoingBackup

LEMMA MayFailIs ==
  /\ DOMAIN BackupFailedAs = {"validating", "pre-backup", "backing-up"}
  /\ DeployMayFail = PrestageStates \cup
       {"pre-deploy", "pre-rehome", "upgrading", "pre-install", "installing",
        "bootstrapping", "deploying", "rehoming", "pre-restore", "restoring",
        "reconfiguring-network", "prechecked", "migrating-data"}
BY DEF DeployMayFail, PrepareFailedAs, InstallFailedAs, BuildFailedAs, RestoreFailedAs,
       NetworkFailedAs, PrestageFailedAs, MigrationFailedAs, BackupFailedAs

LEMMA FailedValues ==
  /\ \A s \in DeployMayFail : FailedAs[s] \in DeployFailed \cup {"prestage-failed"}
  /\ \A s \in DOMAIN BackupFailedAs :
       FailedAs[s] \in BackupFailed /\ BackupFailedAs[s] \in BackupFailed
  /\ DOMAIN FailedAs = DeployMayFail \cup DOMAIN BackupFailedAs
<1>1. /\ \A s \in DOMAIN PrepareFailedAs : PrepareFailedAs[s] \in DeployFailed
      /\ \A s \in DOMAIN InstallFailedAs : InstallFailedAs[s] \in DeployFailed
      /\ \A s \in DOMAIN RestoreFailedAs : RestoreFailedAs[s] \in DeployFailed
      /\ \A s \in DOMAIN NetworkFailedAs : NetworkFailedAs[s] \in DeployFailed
      /\ \A s \in DOMAIN PrestageFailedAs : PrestageFailedAs[s] = "prestage-failed"
      /\ \A s \in DOMAIN MigrationFailedAs : MigrationFailedAs[s] \in DeployFailed
  BY DEF PrepareFailedAs, InstallFailedAs, RestoreFailedAs, NetworkFailedAs,
     PrestageFailedAs, MigrationFailedAs, DeployFailed
<1>2. \A s \in DOMAIN BuildFailedAs : BuildFailedAs[s] \in DeployFailed
  BY DEF BuildFailedAs, DeployFailed
<1>3. \A s \in DOMAIN BackupFailedAs : BackupFailedAs[s] \in BackupFailed
  BY DEF BackupFailedAs, BackupFailed
<1>4. ASSUME NEW s \in DeployMayFail PROVE FailedAs[s] \in DeployFailed \cup {"prestage-failed"}
  BY <1>1, <1>2, Zenon DEF FailedAs, DeployMayFail
<1>5. ASSUME NEW s \in DOMAIN BackupFailedAs PROVE FailedAs[s] = BackupFailedAs[s]
  <2>1. s \notin DeployMayFail
    BY MayFailIs DEF PrestageStates
  <2> QED BY <2>1, Zenon DEF FailedAs, DeployMayFail
<1>6. DOMAIN FailedAs = DeployMayFail \cup DOMAIN BackupFailedAs
  BY DEF FailedAs
<1> QED BY <1>3, <1>4, <1>5, <1>6

\* All statuses that stand for work, and the rest of them.
LEMMA BusyIs ==
  /\ Busy = PrestageStates \cup
       {"not-deployed", "pre-deploy", "pre-install", "installing", "bootstrapping",
        "deploying", "migrating-data", "pre-restore", "restoring", "pre-rehome",
        "rehoming", "reconfiguring-network"} \cup OngoingBackup
  /\ Transitory \subseteq Busy
BY TransitoryIs DEF Busy, OngoingBackup

\* The statuses of the deployment and of the backup, and the other things that
\* are written, are not mixed up.
LEMMA StatesApart ==
  /\ DeployStates \cap BackupStates = {}
  /\ DeployPhaseStates \subseteq DeployStates /\ DeployResults \subseteq DeployStates
  /\ BackupResults \subseteq BackupStates /\ OngoingBackup \subseteq BackupStates
  /\ {"gone", "managed", "unmanaged", "taken", "waiting", "upgrading", "prechecked",
       "skipped", "idle"} \cap (DeployStates \cup BackupStates) = {}
  /\ (DeployResults \cup BackupResults) \cap Transitory = {}
  /\ OngoingBackup \cup DeployPhaseStates \subseteq Busy
BY BusyIs, TransitoryIs DEF DeployStates, BackupStates, DeployPhaseStates, DeployResults,
   BackupResults, OngoingBackup, DeployFailed, BackupFailed, PrestageEnded, PrestageStates

\* A failure and a repair leave a status of the same kind that is not transitory.
LEMMA FailedKinds ==
  /\ \A s \in DeployMayFail : FailedAs[s] \in DeployStates \ Transitory
  /\ \A s \in DOMAIN BackupFailedAs : FailedAs[s] \in BackupStates \ Transitory
<1>1. DeployFailed \cup {"prestage-failed"} \subseteq DeployStates \ Transitory
  BY TransitoryIs DEF DeployStates, DeployFailed, PrestageEnded, PrestageStates
<1>2. BackupFailed \subseteq BackupStates \ Transitory
  BY TransitoryIs DEF BackupStates, BackupFailed, PrestageStates
<1> QED BY <1>1, <1>2, FailedValues

LEMMA RepairedKinds ==
  /\ \A s \in DeployStates : Repaired(s) \in DeployStates \ Transitory
  /\ \A s \in BackupStates : Repaired(s) \in BackupStates \ Transitory
<1>1. DeployFailed \cup {"prestage-failed"} \subseteq DeployStates \ Transitory
  BY TransitoryIs DEF DeployStates, DeployFailed, PrestageEnded, PrestageStates
<1>2. BackupFailed \subseteq BackupStates \ Transitory
  BY TransitoryIs DEF BackupStates, BackupFailed, PrestageStates
<1>3. ASSUME NEW s \in Transitory
      PROVE  /\ s \in DeployStates => RepairedAs[s] \in DeployFailed \cup {"prestage-failed"}
             /\ s \in BackupStates => RepairedAs[s] \in BackupFailed
  <2>1. s \in OngoingBackup <=> s \in BackupStates
    BY TransitoryIs DEF OngoingBackup, BackupStates, BackupFailed, PrestageStates
  <2>2. s \in OngoingBackup => s \notin DeployStates
    BY StatesApart
  <2> QED BY <2>1, <2>2, RepairedValues DEF DeployFailed, BackupFailed
<1> QED BY <1>1, <1>2, <1>3 DEF Repaired, Transitory

(***************************************************************************)
(* The plans of the operations                                             *)
(***************************************************************************)

LEMMA OpsAre ==
  /\ DOMAIN Plans = {"add", "rehome", "reconfigure", "reinstall", "restore", "network",
       "prestage", "backup", "backup_delete", "delete", "manage", "unmanage"}
  /\ PlainOps = {"add", "rehome", "reconfigure", "reinstall", "restore", "network",
       "prestage"}
  /\ Ops = PlainOps \cup Strategies \cup Answered \cup {"backup"}
BY DEF Plans, PlainOps, DeployOps, Strategies, Ops, Answered

LEMMA ConcatStarts ==
  ASSUME NEW S, NEW a \in Seq(S), Len(a) >= 1, NEW b \in Seq(S)
  PROVE  /\ a \o b \in Seq(S) /\ Len(a \o b) >= 1
         /\ (a \o b)[1] = a[1]
OBVIOUS

\* Phases before a plan make a plan.
LEMMA PlanAfter ==
  ASSUME NEW A, NEW E, NEW p \in Seq(A), NEW q, IsPlan(q, A, E)
  PROVE  IsPlan(p \o q, A, E)
<1>1. q \in Seq(A \cup E) /\ p \in Seq(A \cup E) /\ Len(q) > 0
  BY DEF IsPlan
<1>2. /\ p \o q \in Seq(A \cup E) /\ Len(p \o q) = Len(p) + Len(q)
      /\ \A i \in 1 .. Len(p \o q) :
           (p \o q)[i] = IF i <= Len(p) THEN p[i] ELSE q[i - Len(p)]
  BY <1>1
<1>3. ASSUME NEW i \in 1 .. Len(p \o q), i < Len(p \o q) PROVE (p \o q)[i] \in A
  <2>1. CASE i <= Len(p)
    BY <1>2, <2>1
  <2>2. CASE i > Len(p)
    <3>1. i - Len(p) \in 1 .. Len(q) /\ i - Len(p) < Len(q)
      BY <1>1, <1>2, <1>3, <2>2
    <3> QED BY <1>2, <2>2, <3>1 DEF IsPlan
  <2> QED BY <2>1, <2>2
<1>4. (p \o q)[Len(p \o q)] \in E
  BY <1>1, <1>2 DEF IsPlan
<1> QED BY <1>1, <1>2, <1>3, <1>4 DEF IsPlan

LEMMA PlanOfOne ==
  ASSUME NEW A, NEW e, NEW E, e \in E
  PROVE  IsPlan(<<e>>, A, E)
<1>1. <<e>> \in Seq(A \cup E) /\ Len(<<e>>) = 1 /\ <<e>>[1] = e
  OBVIOUS
<1> QED BY <1>1 DEF IsPlan

\* The first phase of a plan with more to come, and the last one.
LEMMA PlanStep ==
  ASSUME NEW A, NEW E, NEW p, IsPlan(p, A, E)
  PROVE  /\ Head(p) \in A \cup E
         /\ Len(p) > 1 => Head(p) \in A /\ IsPlan(Tail(p), A, E)
         /\ ~(Len(p) > 1) => Head(p) \in E
<1>1. p \in Seq(A \cup E) /\ Len(p) > 0 /\ Len(p) \in Nat /\ Head(p) = p[1]
  BY DEF IsPlan
<1>2. ASSUME Len(p) > 1 PROVE Head(p) \in A /\ IsPlan(Tail(p), A, E)
  <2>1. /\ Tail(p) \in Seq(A \cup E) /\ Len(Tail(p)) = Len(p) - 1
        /\ \A i \in 1 .. Len(p) - 1 : Tail(p)[i] = p[i + 1]
    BY <1>1, <1>2
  <2>2. \A i \in 1 .. Len(Tail(p)) : i < Len(Tail(p)) => Tail(p)[i] \in A
    BY <1>1, <1>2, <2>1 DEF IsPlan
  <2>3. Tail(p)[Len(Tail(p))] \in E
    BY <1>1, <1>2, <2>1 DEF IsPlan
  <2>4. Tail(p) # <<>>
    BY <1>2, <2>1
  <2> QED BY <1>1, <1>2, <2>1, <2>2, <2>3, <2>4 DEF IsPlan
<1> QED BY <1>1, <1>2 DEF IsPlan

LEMMA Phases ==
  /\ {"pre-deploy", "pre-install", "installing", "bootstrapping", "deploying",
      "pre-rehome", "rehoming", "pre-restore", "restoring", "prestage-prepare",
      "prestaging-packages", "prestaging-images"} \subseteq DeployPhaseStates
  /\ Optional(InstallPhases) \cup {InstallPhases} \subseteq Seq(DeployPhaseStates)
  /\ Optional(DeployPhases) \subseteq Seq(DeployPhaseStates)
  /\ Optional(<<"prestaging-images">>) \subseteq Seq(DeployPhaseStates)
<1>1. {"pre-deploy", "pre-install", "installing", "bootstrapping", "deploying",
       "pre-rehome", "rehoming", "pre-restore", "restoring", "prestage-prepare",
       "prestaging-packages", "prestaging-images"} \subseteq DeployPhaseStates
  BY BusyIs DEF DeployPhaseStates, OngoingBackup, PrestageStates
<1>2. InstallPhases \in Seq(DeployPhaseStates) /\ DeployPhases \in Seq(DeployPhaseStates)
      /\ <<"prestaging-images">> \in Seq(DeployPhaseStates)
      /\ <<>> \in Seq(DeployPhaseStates)
  BY <1>1 DEF InstallPhases, DeployPhases
<1> QED BY <1>1, <1>2 DEF Optional

LEMMA BuildingPlans ==
  ASSUME NEW install, install \subseteq Seq(DeployPhaseStates), NEW p \in Building(install)
  PROVE  IsPlan(p, DeployPhaseStates, DeployResults)
<1>1. PICK i \in install, d \in Optional(DeployPhases) :
        p = BuildPlan(i, d)
  BY DEF Building
<1>2. i \in Seq(DeployPhaseStates) /\ d \in Seq(DeployPhaseStates)
      /\ <<"bootstrapping">> \in Seq(DeployPhaseStates)
  BY Phases
<1>3. i \o <<"bootstrapping">> \o d \in Seq(DeployPhaseStates)
  BY <1>2
<1>4. IsPlan(<<"complete">>, DeployPhaseStates, DeployResults)
  BY PlanOfOne DEF DeployResults
<1> QED BY <1>1, <1>3, <1>4, PlanAfter DEF BuildPlan

\* The plans of the operations on the deployment, with their first phases.
LEMMA AddPlan ==
  ASSUME NEW p \in AddPlans \cup ReconfigurePlans \cup PrestagePlans \cup RehomePlans
  PROVE  /\ IsPlan(p, DeployPhaseStates, DeployResults)
         /\ Len(p) > 1
<1>1. ASSUME NEW a \in Seq(DeployPhaseStates), NEW b, a # <<>>,
             IsPlan(b, DeployPhaseStates, DeployResults), p = a \o b
      PROVE  IsPlan(p, DeployPhaseStates, DeployResults) /\ Len(p) > 1
  <2>1. Len(a) > 0 /\ Len(b) > 0 /\ b \in Seq(DeployPhaseStates \cup DeployResults)
        /\ Len(a) \in Nat /\ Len(b) \in Nat
    BY <1>1 DEF IsPlan
  <2>2. Len(a \o b) = Len(a) + Len(b)
    BY <1>1, <2>1
  <2> QED BY <1>1, <2>1, <2>2, PlanAfter
<1>2. <<"pre-deploy">> \in Seq(DeployPhaseStates) /\ <<"pre-deploy">> # <<>>
  BY Phases
<1>3. CASE p \in AddPlans
  <2>1. PICK b \in Building(Optional(InstallPhases)) : p = <<"pre-deploy">> \o b
    BY <1>3, Zenon DEF AddPlans
  <2>2. IsPlan(b, DeployPhaseStates, DeployResults)
    BY Phases, BuildingPlans
  <2> QED BY <1>1, <1>2, <2>1, <2>2
<1>4. IsPlan(<<"complete">>, DeployPhaseStates, DeployResults)
      /\ IsPlan(<<"prestage-complete">>, DeployPhaseStates, DeployResults)
  BY PlanOfOne DEF DeployResults
<1>5. CASE p \in ReconfigurePlans
  <2>1. PICK d \in Optional(DeployPhases) : p = <<"pre-deploy">> \o d \o <<"complete">>
    BY <1>5, Zenon DEF ReconfigurePlans
  <2>2. d \in Seq(DeployPhaseStates)
    BY Phases
  <2>3. <<"pre-deploy">> \o d \in Seq(DeployPhaseStates)
        /\ <<"pre-deploy">> \o d # <<>>
    BY <1>2, <2>2
  <2> QED BY <1>1, <1>4, <2>1, <2>3
<1>6. CASE p \in PrestagePlans
  <2>1. PICK i \in Optional(<<"prestaging-images">>) :
          p = PreparePhases \o <<"prestaging-packages">> \o i \o <<"prestage-complete">>
    BY <1>6, Zenon DEF PrestagePlans
  <2>2. i \in Seq(DeployPhaseStates) /\ PreparePhases \in Seq(DeployPhaseStates)
        /\ <<"prestaging-packages">> \in Seq(DeployPhaseStates)
        /\ PreparePhases # <<>>
    BY Phases DEF PreparePhases
  <2>3. PreparePhases \o <<"prestaging-packages">> \o i \in Seq(DeployPhaseStates)
        /\ PreparePhases \o <<"prestaging-packages">> \o i # <<>>
    BY <2>2
  <2> QED BY <1>1, <1>4, <2>1, <2>3
<1>7. CASE p \in RehomePlans
  <2>1. p = <<"pre-rehome", "rehoming", "complete">>
    BY <1>7 DEF RehomePlans
  <2>2. /\ {"pre-rehome", "rehoming"} \subseteq DeployPhaseStates
        /\ "complete" \in DeployResults
    BY Phases DEF DeployResults
  <2>3. /\ p \in Seq(DeployPhaseStates \cup DeployResults) /\ Len(p) = 3 /\ p # <<>>
        /\ p[1] = "pre-rehome" /\ p[2] = "rehoming" /\ p[3] = "complete"
    BY <2>1, <2>2
  <2> QED BY <2>2, <2>3 DEF IsPlan
<1> QED BY <1>3, <1>5, <1>6, <1>7

LEMMA ReinstallPlan ==
  ASSUME NEW p \in ReinstallPlans
  PROVE  IsPlan(p, DeployPhaseStates, DeployResults) /\ Head(p) = "pre-install"
<1>1. IsPlan(p, DeployPhaseStates, DeployResults)
  BY Phases, BuildingPlans DEF ReinstallPlans
<1>2. PICK i \in {InstallPhases}, d \in Optional(DeployPhases) :
        p = BuildPlan(i, d)
  BY DEF Building, ReinstallPlans
<1>3. /\ i \in Seq(DeployPhaseStates) /\ Len(i) >= 1 /\ i[1] = "pre-install"
      /\ d \in Seq(DeployPhaseStates) /\ <<"bootstrapping">> \in Seq(DeployPhaseStates)
  BY Phases DEF InstallPhases
<1>4. /\ i \o <<"bootstrapping">> \in Seq(DeployPhaseStates)
      /\ Len(i \o <<"bootstrapping">>) >= 1
      /\ (i \o <<"bootstrapping">>)[1] = i[1]
  BY <1>3, ConcatStarts, Zenon
<1>5. /\ i \o <<"bootstrapping">> \o d \in Seq(DeployPhaseStates)
      /\ Len(i \o <<"bootstrapping">> \o d) >= 1
      /\ (i \o <<"bootstrapping">> \o d)[1] = (i \o <<"bootstrapping">>)[1]
  BY <1>3, <1>4, ConcatStarts, Zenon
<1>6. <<"complete">> \in Seq(DeployResults)
  BY DEF DeployResults
<1>7. p[1] = "pre-install"
  <2> DEFINE x == i \o <<"bootstrapping">> \o d
             y == <<"complete">>
  <2>1. x \in Seq(DeployPhaseStates \cup DeployResults) /\ Len(x) >= 1
        /\ y \in Seq(DeployPhaseStates \cup DeployResults) /\ x[1] = "pre-install"
    BY <1>3, <1>4, <1>5, <1>6
  <2> HIDE DEF x, y
  <2>2. (x \o y)[1] = x[1]
    BY <2>1, ConcatStarts, Zenon
  <2> QED BY <1>2, <2>1, <2>2, Zenon DEF BuildPlan, x, y
<1> QED BY <1>1, <1>7 DEF IsPlan

LEMMA RestorePlan ==
  ASSUME NEW p \in RestorePlans
  PROVE  IsPlan(p, DeployPhaseStates, DeployResults)
<1>1. PICK i \in Optional(InstallPhases) :
        p = <<"pre-restore">> \o i \o <<"restoring", "complete">>
  BY Zenon DEF RestorePlans
<1>2. i \in Seq(DeployPhaseStates) /\ <<"pre-restore">> \in Seq(DeployPhaseStates)
      /\ <<"restoring">> \in Seq(DeployPhaseStates)
  BY Phases
<1>3. IsPlan(<<"restoring", "complete">>, DeployPhaseStates, DeployResults)
  <2>1. /\ "restoring" \in DeployPhaseStates /\ "complete" \in DeployResults
    BY Phases DEF DeployResults
  <2>2. /\ <<"restoring", "complete">> \in Seq(DeployPhaseStates \cup DeployResults)
        /\ Len(<<"restoring", "complete">>) = 2
        /\ <<"restoring", "complete">>[1] = "restoring"
        /\ <<"restoring", "complete">>[2] = "complete"
    BY <2>1
  <2> QED BY <2>1, <2>2 DEF IsPlan
<1>4. <<"pre-restore">> \o i \in Seq(DeployPhaseStates)
  BY <1>2
<1> QED BY <1>1, <1>3, <1>4, PlanAfter

LEMMA BackupPlan ==
  ASSUME NEW s \in {"complete-local", "complete-central"},
         NEW p, p = <<"initial", "validating", "pre-backup", "backing-up", s>>
  PROVE  IsPlan(p, OngoingBackup, BackupResults)
<1>1. s \in BackupResults
      /\ {"initial", "validating", "pre-backup", "backing-up"} \subseteq OngoingBackup
  BY DEF BackupResults, OngoingBackup
<1>2. /\ p \in Seq(OngoingBackup \cup BackupResults) /\ Len(p) = 5 /\ p # <<>>
      /\ p[1] = "initial" /\ p[2] = "validating" /\ p[3] = "pre-backup"
      /\ p[4] = "backing-up" /\ p[5] = s
  BY <1>1
<1> QED BY <1>1, <1>2 DEF IsPlan

\* A backup of a subcloud that is not as it should be fails its validation.
LEMMA NoBackupPlan ==
  IsPlan(<<"initial", "validating", "validate-failed">>, OngoingBackup, BackupResults)
<1> DEFINE p == <<"initial", "validating", "validate-failed">>
<1>1. "validate-failed" \in BackupResults
      /\ {"initial", "validating"} \subseteq OngoingBackup
  BY DEF BackupResults, OngoingBackup
<1>2. /\ p \in Seq(OngoingBackup \cup BackupResults) /\ Len(p) = 3 /\ p # <<>>
      /\ p[1] = "initial" /\ p[2] = "validating" /\ p[3] = "validate-failed"
  BY <1>1
<1> HIDE DEF p
<1>3. IsPlan(p, OngoingBackup, BackupResults)
  BY <1>1, <1>2 DEF IsPlan
<1> QED BY <1>3 DEF p

\* Every plan is work of its operation.
LEMMA PlansOK ==
  ASSUME NEW op \in DOMAIN Plans, NEW p \in Plans[op]
  PROVE  /\ IsRest(op, p)
         /\ p # <<>>
         /\ op \in {"add", "rehome", "reconfigure", "prestage"} => Len(p) > 1
         /\ op = "reinstall" => Head(p) = "pre-install"
<1>1. /\ op = "add" => p \in AddPlans
      /\ op = "rehome" => p \in RehomePlans
      /\ op = "reconfigure" => p \in ReconfigurePlans
      /\ op = "reinstall" => p \in ReinstallPlans
      /\ op = "restore" => p \in RestorePlans
      /\ op = "network" => p \in NetworkPlans
      /\ op = "prestage" => p \in PrestagePlans
      /\ op = "backup" => p \in BackupPlans
      /\ op = "backup_delete" => p \in BackupDeletePlans
      /\ op = "delete" => p \in DeletePlans
      /\ op = "manage" => p \in {<<"managed">>}
      /\ op = "unmanage" => p \in {<<"unmanaged">>}
  BY OpsAre DEF Plans
<1>2. op \in PlainOps => IsPlan(p, DeployPhaseStates, DeployResults)
  <2>1. op = "network" => IsPlan(p, DeployPhaseStates, DeployResults)
    BY <1>1, PlanOfOne DEF NetworkPlans, DeployResults
  <2> QED BY <1>1, <2>1, OpsAre, AddPlan, ReinstallPlan, RestorePlan
<1>3. op = "backup" => IsPlan(p, OngoingBackup, BackupResults)
  BY <1>1, BackupPlan, Zenon DEF BackupPlans
<1>4. op \notin Strategies
  BY OpsAre DEF Strategies
<1>5. IsRest(op, p)
  BY <1>1, <1>2, <1>3, <1>4 DEF IsRest, NetworkPlans, BackupDeletePlans, DeletePlans
<1>6. p # <<>>
  BY <1>1, <1>2, <1>3, OpsAre DEF IsPlan, BackupDeletePlans, DeletePlans, Answered
<1> QED BY <1>1, <1>5, <1>6, AddPlan, ReinstallPlan

(***************************************************************************)
(* What the actions do                                                     *)
(***************************************************************************)

\* What is written, by the kind of the status.
LEMMA WriteDoes ==
  ASSUME TypeOK, NEW s, Write(s)
  PROVE  /\ s \in DeployStates => row' = [row EXCEPT !.deploy = s]
         /\ s \in BackupStates => row' = [row EXCEPT !.backup = s]
         /\ s = "gone" => row' = NoRow
         /\ s \in {"managed", "unmanaged"} => row' = [row EXCEPT !.management = s]
<1>1. s \in BackupStates => s \notin DeployStates /\ s # "gone"
  BY StatesApart
<1>2. s \in DeployStates => s # "gone"
  BY StatesApart
<1>3. s \in {"managed", "unmanaged"} =>
        s # "gone" /\ s \notin DeployStates /\ s \notin BackupStates
  BY StatesApart
<1>4. CASE s = "gone"
  BY <1>1, <1>2, <1>3, <1>4, Zenon DEF Write
<1>5. CASE s # "gone" /\ s \in BackupStates
  BY <1>1, <1>3, <1>5, Zenon DEF Write
<1>6. CASE s # "gone" /\ s \notin BackupStates /\ s \in DeployStates
  BY <1>3, <1>6, Zenon DEF Write
<1>7. CASE s # "gone" /\ s \notin BackupStates /\ s \notin DeployStates
  BY <1>7, Zenon DEF Write
<1> QED BY <1>4, <1>5, <1>6, <1>7

LEMMA NoRowTyped == NoRow \in Rows
<1>1. "complete" \in DeployStates /\ "unknown" \in BackupStates
  BY DEF DeployStates, BackupStates
<1> QED BY <1>1, ConstantsAssumption DEF NoRow, Rows

\* Each of these gives a row, the fields written and the others kept.
LEMMA RowTyped ==
  ASSUME TypeOK
  PROVE  /\ NoRow \in Rows
         /\ \A s \in DeployStates : [row EXCEPT !.deploy = s] \in Rows
         /\ \A s \in BackupStates : [row EXCEPT !.backup = s] \in Rows
         /\ \A s \in {"managed", "unmanaged"} : [row EXCEPT !.management = s] \in Rows
         /\ \A s \in {"online", "offline"} : [row EXCEPT !.availability = s] \in Rows
<1> QED BY NoRowTyped DEF TypeOK, Rows

WrittenDeploy(s) ==
  /\ row'.deploy = s /\ row'.backup = row.backup /\ row'.id = row.id
  /\ row'.management = row.management /\ row' \in Rows

WrittenBackup(s) ==
  /\ row'.backup = s /\ row'.deploy = row.deploy /\ row'.id = row.id
  /\ row'.management = row.management /\ row' \in Rows

WrittenManagement(s) ==
  /\ row'.management = s /\ row'.deploy = row.deploy /\ row'.backup = row.backup
  /\ row'.id = row.id /\ row' \in Rows

LEMMA WrittenIs ==
  ASSUME TypeOK, NEW s, Write(s)
  PROVE  /\ s \in DeployStates => WrittenDeploy(s)
         /\ s \in BackupStates => WrittenBackup(s)
         /\ s = "gone" => row' = NoRow
         /\ s \in {"managed", "unmanaged"} => WrittenManagement(s)
<1>1. row \in Rows
  BY DEF TypeOK
<1>2. ASSUME s \in DeployStates PROVE WrittenDeploy(s)
  <2>1. row' = [row EXCEPT !.deploy = s]
    BY <1>2, WriteDoes
  <2> QED BY <1>1, <1>2, <2>1 DEF WrittenDeploy, Rows
<1>3. ASSUME s \in BackupStates PROVE WrittenBackup(s)
  <2>1. row' = [row EXCEPT !.backup = s]
    BY <1>3, WriteDoes
  <2> QED BY <1>1, <1>3, <2>1 DEF WrittenBackup, Rows
<1>4. ASSUME s \in {"managed", "unmanaged"} PROVE WrittenManagement(s)
  <2>1. row' = [row EXCEPT !.management = s]
    BY <1>4, WriteDoes
  <2> QED BY <1>1, <1>4, <2>1 DEF WrittenManagement, Rows
<1> QED BY <1>2, <1>3, <1>4, WriteDoes

\* A row is one exactly when its id tells so.
LEMMA WorkerFields ==
  ASSUME WorkersOK, NEW w \in Workers
  PROVE  /\ worker[w] \in WorkerRecords /\ IsWorker(worker[w])
         /\ worker[w] # Idle => worker[w].op \in Ops /\ IsAt(worker[w].op, worker[w].at)
                                  /\ IsRest(worker[w].op, worker[w].rest)
BY DEF WorkersOK, IsWorker

LEMMA IdleIs ==
  /\ Idle.op = "none" /\ Idle.at = "idle" /\ Idle.rest = <<>>
  /\ Idle \in WorkerRecords /\ IsWorker(Idle)
<1>1. Idle.op = "none" /\ Idle.at = "idle" /\ Idle.rest = <<>> /\ Idle.id = 0
  BY DEF Idle
<1>2. <<>> \in Seq(Statuses) /\ 0 \in 0 .. MaxRequests + 1
  BY ConstantsAssumption
<1>3. Idle \in WorkerRecords
  BY <1>2 DEF Idle, WorkerRecords
<1> QED BY <1>1, <1>3 DEF IsWorker

\* Another worker on the place of w.
LEMMA WorkerSet ==
  ASSUME WorkersOK, NEW w \in Workers, NEW x, IsWorker(x),
         worker' = [worker EXCEPT ![w] = x]
  PROVE  /\ worker' \in [Workers -> WorkerRecords]
         /\ worker'[w] = x
         /\ \A v \in Workers : v # w => worker'[v] = worker[v]
         /\ \A v \in Workers : IsWorker(worker'[v])
<1>1. worker \in [Workers -> WorkerRecords] /\ x \in WorkerRecords
  BY DEF WorkersOK, IsWorker
<1>2. /\ worker' \in [Workers -> WorkerRecords] /\ worker'[w] = x
      /\ \A v \in Workers : v # w => worker'[v] = worker[v]
  BY <1>1
<1> QED BY <1>2 DEF WorkersOK

\* What is left to do is a sequence of statuses, and so are the places.
LEMMA RestTyped ==
  ASSUME NEW op \in Ops, NEW rest, IsRest(op, rest)
  PROVE  rest \in Seq(Statuses)
<1>1. /\ DeployPhaseStates \cup DeployResults \subseteq Statuses
      /\ DeployStates \cup DeployResults \subseteq Statuses
      /\ OngoingBackup \cup BackupResults \subseteq Statuses
      /\ {"unknown", "gone", "managed", "unmanaged"} \subseteq Statuses
  BY StatesApart DEF Statuses, BackupStates
<1>2. op \in PlainOps \/ op \in Strategies \/ op = "backup" \/ op \in Answered
  BY OpsAre
<1>3. ASSUME NEW A, NEW E, A \cup E \subseteq Statuses, IsPlan(rest, A, E)
      PROVE  rest \in Seq(Statuses)
  BY <1>3 DEF IsPlan
<1>4. CASE op \in PlainOps
  BY <1>1, <1>3, <1>4 DEF IsRest
<1>5. CASE op \in Strategies
  BY <1>1, <1>3, <1>5 DEF IsRest
<1>6. CASE op = "backup"
  BY <1>1, <1>3, <1>6 DEF IsRest
<1>7. CASE op \in Answered
  <2>1. /\ <<>> \in Seq(Statuses) /\ <<"unknown">> \in Seq(Statuses)
        /\ <<"gone">> \in Seq(Statuses) /\ <<"managed">> \in Seq(Statuses)
        /\ <<"unmanaged">> \in Seq(Statuses)
    BY <1>1
  <2> QED BY <1>7, <2>1 DEF IsRest, Answered
<1> QED BY <1>2, <1>4, <1>5, <1>6, <1>7

LEMMA PlaceTyped ==
  ASSUME NEW op \in Ops, NEW at, IsAt(op, at)
  PROVE  at \in Statuses \cup
           {"idle", "taken", "waiting", "upgrading", "prechecked", "skipped"}
<1>1. op \in PlainOps \/ op \in {"upgrade", "orch_prestage"} \/ op = "backup"
      \/ op \in Answered
  BY OpsAre DEF Strategies
<1> QED BY <1>1, StatesApart DEF IsAt, Statuses

Work(op, id, at, rest) == [op |-> op, id |-> id, at |-> at, rest |-> rest]

LEMMA IsWorkerIf ==
  ASSUME NEW op \in Ops, NEW id \in 0 .. MaxRequests + 1, NEW at, NEW rest,
         IsAt(op, at), IsRest(op, rest),
         NEW x, x = Work(op, id, at, rest)
  PROVE  /\ IsWorker(x) /\ x # Idle
         /\ x.op = op /\ x.id = id /\ x.at = at /\ x.rest = rest
<1>1. rest \in Seq(Statuses)
      /\ at \in Statuses \cup
           {"idle", "taken", "waiting", "upgrading", "prechecked", "skipped"}
  BY RestTyped, PlaceTyped
<1>2. x.op = op /\ x.id = id /\ x.at = at /\ x.rest = rest
  BY DEF Work
<1>3. x \in WorkerRecords
  BY <1>1 DEF WorkerRecords, Work
<1>4. op # "none"
  BY OpsAre DEF Strategies, Answered
<1> QED BY <1>2, <1>3, <1>4, IdleIs DEF IsWorker

\* The thread that has taken a request.
LEMMA TakenIs ==
  ASSUME TypeOK, NEW m, IsRequest(m), NEW x, x = Taken(m, row.id)
  PROVE  /\ IsWorker(x) /\ x # Idle /\ x.op = m.op /\ x.id = row.id
         /\ \/ /\ x.at = "taken" /\ Head(m.plan) # "taken"
               /\ m.op \notin {"add", "rehome", "reinstall", "network"}
            \/ /\ m.op \in PlainOps /\ x.at \in DeployPhaseStates
               /\ x.at = Head(m.plan)
            \/ /\ m.op = "network" /\ x.at = "reconfiguring-network"
               /\ Head(m.plan) = "complete"
<1>1. /\ m.op \in DOMAIN Plans /\ m.plan \in Plans[m.op]
      /\ IsRest(m.op, m.plan) /\ m.plan # <<>>
      /\ m.op \in {"add", "rehome", "reconfigure", "prestage"} => Len(m.plan) > 1
      /\ m.op = "reinstall" => Head(m.plan) = "pre-install"
      /\ row.id \in 0 .. MaxRequests + 1
  BY PlansOK DEF IsRequest, TypeOK, Rows
<1>2. {"reconfiguring-network", "pre-install"} \subseteq DeployPhaseStates
  BY BusyIs DEF DeployPhaseStates, OngoingBackup, PrestageStates
<1>3. m.op \in Ops /\ m.op \notin Strategies
  BY <1>1, OpsAre DEF Ops, Strategies
<1>4. CASE m.op \in {"add", "rehome", "reconfigure", "prestage"}
  <2>1. x = Work(m.op, row.id, Head(m.plan), Tail(m.plan))
    BY <1>4, Zenon DEF Taken, Work
  <2>2. IsPlan(m.plan, DeployPhaseStates, DeployResults) /\ m.op \in PlainOps
    BY <1>1, <1>4, OpsAre DEF IsRest
  <2>3. Head(m.plan) \in DeployPhaseStates
        /\ IsPlan(Tail(m.plan), DeployPhaseStates, DeployResults)
    BY <1>1, <1>4, <2>2, PlanStep
  <2>4. IsAt(m.op, Head(m.plan)) /\ IsRest(m.op, Tail(m.plan))
    BY <1>3, <1>4, <2>3 DEF IsAt, IsRest, Answered, Strategies
  <2> DEFINE at == Head(m.plan)
             rest == Tail(m.plan)
  <2> HIDE DEF at, rest
  <2>5. IsWorker(x) /\ x # Idle /\ x.op = m.op /\ x.id = row.id /\ x.at = at
    BY <1>1, <1>3, <2>1, <2>4, IsWorkerIf DEF at, rest
  <2> QED BY <2>2, <2>3, <2>5 DEF at
<1>5. CASE m.op = "reinstall"
  <2>1. x = Work(m.op, row.id, "pre-install", m.plan)
    BY <1>5, Zenon DEF Taken, Work
  <2>2. IsAt(m.op, "pre-install") /\ m.op \in PlainOps
    BY <1>2, <1>5, OpsAre DEF IsAt, Answered
  <2> QED BY <1>1, <1>2, <1>3, <1>5, <2>1, <2>2, IsWorkerIf
<1>6. CASE m.op = "network"
  <2>1. x = Work(m.op, row.id, "reconfiguring-network", m.plan)
    BY <1>6, Zenon DEF Taken, Work
  <2>2. IsAt(m.op, "reconfiguring-network")
    BY <1>2, <1>6 DEF IsAt, Answered
  <2>3. Head(m.plan) = "complete"
    BY <1>1, <1>6 DEF IsRest
  <2>4. /\ IsWorker(x) /\ x # Idle /\ x.op = m.op /\ x.id = row.id
        /\ x.at = "reconfiguring-network"
    BY <1>1, <1>3, <2>1, <2>2, IsWorkerIf
  <2> QED BY <1>6, <2>3, <2>4
<1>7. CASE m.op \in {"restore", "backup"} \cup Answered
  <2>1. IsAt(m.op, "taken")
    BY <1>7, OpsAre DEF IsAt, Answered
  <2>2. Head(m.plan) # "taken"
    <3>1. CASE m.op = "restore"
      <4>1. IsPlan(m.plan, DeployPhaseStates, DeployResults)
        BY <1>1, <3>1, OpsAre DEF IsRest
      <4>2. Head(m.plan) \in DeployPhaseStates \cup DeployResults
        BY <4>1, PlanStep
      <4> QED BY <4>2, StatesApart
    <3>2. CASE m.op = "backup"
      BY <1>1, <3>2, PlanStep, StatesApart DEF IsRest
    <3>3. CASE m.op \in Answered
      BY <1>1, <3>3 DEF IsRest, Answered
    <3> QED BY <1>7, <3>1, <3>2, <3>3
  <2>3. PICK rest : /\ IsRest(m.op, rest)
                    /\ x = Work(m.op, row.id, "taken", rest)
    <3>1. CASE m.op = "backup" /\ ~Backable
      <4>1. x = Work(m.op, row.id, "taken", <<"initial", "validating", "validate-failed">>)
        BY <3>1, Zenon DEF Taken, Work
      <4>2. IsRest(m.op, <<"initial", "validating", "validate-failed">>)
        BY <3>1, NoBackupPlan, OpsAre DEF IsRest, Strategies
      <4> QED BY <4>1, <4>2
    <3>2. CASE ~(m.op = "backup" /\ ~Backable)
      <4>1. m.op \notin {"add", "rehome", "reconfigure", "prestage", "reinstall", "network"}
        BY <1>7 DEF Answered
      <4>2. x = Work(m.op, row.id, "taken", m.plan)
        BY <3>2, <4>1, Zenon DEF Taken, Work
      <4> QED BY <1>1, <4>2
    <3> QED BY <3>1, <3>2
  <2>4. m.op \notin {"add", "rehome", "reinstall", "network"}
    BY <1>7 DEF Answered
  <2>5. IsWorker(x) /\ x # Idle /\ x.op = m.op /\ x.id = row.id /\ x.at = "taken"
    BY <1>1, <1>3, <2>1, <2>3, IsWorkerIf
  <2> QED BY <2>2, <2>4, <2>5
<1>8. m.op \in {"add", "rehome", "reconfigure", "prestage"} \/ m.op = "reinstall"
      \/ m.op = "network" \/ m.op \in {"restore", "backup"} \cup Answered
  BY <1>1, OpsAre DEF Answered
<1> QED BY <1>4, <1>5, <1>6, <1>7, <1>8

\* Taking a message: it comes to nothing, or a worker is at work for it.
Began(w, m, x) ==
  /\ worker' = [worker EXCEPT ![w] = x]
  /\ IsWorker(x) /\ x.op = m.op /\ x.id = row.id /\ x # Idle
  /\ Finds(m)
  /\ m.op = "restore" => ~Managed
  /\ \/ /\ x.at = "taken" /\ row' = row
        /\ m.op \notin {"add", "rehome", "reinstall", "network"}
     \/ m.op \in PlainOps /\ x.at \in DeployPhaseStates /\ WrittenDeploy(x.at)
     \/ m.op = "network" /\ x.at = "reconfiguring-network" /\ row' = row

CameToNothing(m) ==
  /\ UNCHANGED <<worker, row>>
  /\ m.op \in {"add", "rehome"} => ~Exists
  /\ m.op = "reinstall" => ~Mine(m)

LEMMA TakeDoes ==
  ASSUME TypeOK, WorkersOK, NEW w \in Workers, NEW m \in queue, Take(w, m)
  PROVE  /\ IsRequest(m) /\ worker[w] = Idle /\ queue' = queue \ {m}
         /\ UNCHANGED <<api, start, found, mixed, used, crashes>>
         /\ CameToNothing(m) \/ \E x : Began(w, m, x)
<1>1. IsRequest(m)
  BY DEF WorkersOK
<1>2. /\ worker[w] = Idle /\ queue' = queue \ {m}
      /\ UNCHANGED <<api, start, found, mixed, used, crashes>>
  BY DEF Take
<1> DEFINE x == Taken(m, row.id)
<1>3. PICK force \in BOOLEAN :
        IF Finds(m) /\ Admits(m.op, force)
        THEN /\ worker' = [worker EXCEPT ![w] = x]
             /\ IF x.at = Head(m.plan) THEN Write(Head(m.plan)) ELSE UNCHANGED row
        ELSE UNCHANGED <<worker, row>>
  BY Zenon DEF Take
<1>4. CASE Finds(m) /\ Admits(m.op, force)
  <2>1. /\ worker' = [worker EXCEPT ![w] = x]
        /\ IF x.at = Head(m.plan) THEN Write(Head(m.plan)) ELSE UNCHANGED row
    BY <1>3, <1>4
  <2>2. /\ IsWorker(x) /\ x # Idle /\ x.op = m.op /\ x.id = row.id
        /\ \/ /\ x.at = "taken" /\ Head(m.plan) # "taken"
              /\ m.op \notin {"add", "rehome", "reinstall", "network"}
           \/ /\ m.op \in PlainOps /\ x.at \in DeployPhaseStates
              /\ x.at = Head(m.plan)
           \/ /\ m.op = "network" /\ x.at = "reconfiguring-network"
              /\ Head(m.plan) = "complete"
    BY <1>1, TakenIs
  <2>3. m.op = "restore" => ~Managed
    BY <1>4 DEF Admits, Restorable
  <2> HIDE DEF x
  <2>4. x.at \in DeployPhaseStates /\ x.at = Head(m.plan) => WrittenDeploy(x.at)
    <3> SUFFICES ASSUME x.at \in DeployPhaseStates, x.at = Head(m.plan)
                 PROVE  WrittenDeploy(x.at)
      OBVIOUS
    <3>1. Write(x.at)
      BY <2>1
    <3> QED BY <3>1, WrittenIs, StatesApart
  <2>5. Began(w, m, x)
    BY <1>4, <2>1, <2>2, <2>3, <2>4 DEF Began
  <2> QED BY <1>1, <1>2, <2>5
<1>5. CASE ~(Finds(m) /\ Admits(m.op, force))
  <2>1. UNCHANGED <<worker, row>>
    BY <1>3, <1>5
  <2>2. m.op \in {"add", "rehome", "reinstall"} => ~Finds(m)
    BY <1>5 DEF Admits
  <2>3. CameToNothing(m)
    BY <2>1, <2>2 DEF CameToNothing, Finds
  <2> QED BY <1>1, <1>2, <2>3
<1> QED BY <1>4, <1>5

\* The next phase of the work of w, and its end.
Goes(w, x) ==
  /\ worker' = [worker EXCEPT ![w] = x]
  /\ IsWorker(x)
  /\ x = Idle \/ (x # Idle /\ x.op = worker[w].op /\ x.id = worker[w].id)

\* What w writes where: a phase of its own that follows, or a status it ends with.
WritesDeploy(w, x) ==
  /\ worker[w].op \in DeployOps
  /\ \E s : /\ WrittenDeploy(s)
            /\ \/ x = Idle /\ s \notin Transitory
               \/ x # Idle /\ x.at = s

WritesBackup(w, x) ==
  /\ worker[w].op \in {"backup", "backup_delete"}
  /\ \E s : /\ WrittenBackup(s)
            /\ \/ x = Idle /\ s \notin Transitory
               \/ worker[w].op = "backup" /\ x # Idle /\ x.at = s

WritesManagement(w) ==
  /\ worker[w].op \in {"manage", "unmanage"}
  /\ \E s : WrittenManagement(s)

Deletes(w, x) ==
  worker[w].op = "delete" /\ row' = NoRow /\ x = Idle

\* A step of a worker that has begun.
WorkerSteps(w, x) ==
  /\ Active(w) /\ Goes(w, x)
  /\ UNCHANGED <<api, queue, start, found, mixed, used, crashes>>
  /\ \/ /\ ~Mine(worker[w]) /\ row' = row /\ x = Idle
     \/ /\ row' = row /\ x = Idle
        /\ worker[w].at \notin Transitory
     \/ /\ Mine(worker[w])
        /\ \/ WritesDeploy(w, x)
           \/ WritesBackup(w, x)
           \/ WritesManagement(w)
           \/ Deletes(w, x)

LEMMA WorkerParts ==
  ASSUME WorkersOK, NEW w \in Workers, worker[w] # Idle
  PROVE  /\ worker[w].op \in Ops /\ IsAt(worker[w].op, worker[w].at)
         /\ IsRest(worker[w].op, worker[w].rest)
         /\ worker[w].id \in 0 .. MaxRequests + 1
         /\ worker[w] = [op |-> worker[w].op, id |-> worker[w].id,
                         at |-> worker[w].at, rest |-> worker[w].rest]
<1>1. worker[w] \in WorkerRecords /\ IsWorker(worker[w])
  BY DEF WorkersOK
<1> QED BY <1>1 DEF IsWorker, WorkerRecords

Moved(x, at, rest) == [x EXCEPT !.at = at, !.rest = rest]

LEMMA WorkerMoved ==
  ASSUME WorkersOK, NEW w \in Workers, worker[w] # Idle, NEW at, NEW rest,
         IsAt(worker[w].op, at), IsRest(worker[w].op, rest)
  PROVE  LET x == Moved(worker[w], at, rest) IN
         /\ IsWorker(x) /\ x # Idle /\ x.op = worker[w].op /\ x.id = worker[w].id
         /\ x.at = at
<1> DEFINE x == Moved(worker[w], at, rest)
<1>1. worker[w] \in WorkerRecords /\ worker[w].op \in Ops
  BY WorkerParts DEF WorkersOK
<1>2. /\ rest \in Seq(Statuses)
      /\ at \in Statuses \cup
           {"idle", "taken", "waiting", "upgrading", "prechecked", "skipped"}
  BY <1>1, RestTyped, PlaceTyped
<1>3. /\ x \in WorkerRecords
      /\ x.op = worker[w].op /\ x.id = worker[w].id /\ x.at = at /\ x.rest = rest
  BY <1>1, <1>2 DEF WorkerRecords, Moved
<1> HIDE DEF x
<1>4. x.op # "none"
  BY <1>1, <1>3, OpsAre DEF Strategies, Answered
<1>5. IsWorker(x) /\ x # Idle
  BY <1>1, <1>3, <1>4, IdleIs DEF IsWorker
<1> QED BY <1>3, <1>5 DEF x

LEMMA OneStatus ==
  ASSUME NEW e
  PROVE  Len(<<e>>) = 1 /\ ~(Len(<<e>>) > 1) /\ Head(<<e>>) = e /\ Tail(<<e>>) = <<>>
OBVIOUS

\* What follows in the work of an operation that is not over.
LEMMA NextPhase ==
  ASSUME NEW op \in Ops, NEW rest, IsRest(op, rest), rest # <<>>
  PROVE  LET s == Head(rest) IN
         /\ op \in DeployOps => s \in DeployStates
         /\ op = "backup" => s \in BackupStates
         /\ op = "backup_delete" => s = "unknown"
         /\ op = "delete" => s = "gone"
         /\ op \in {"manage", "unmanage"} => s \in {"managed", "unmanaged"}
         /\ (Len(rest) > 1 \/ op \in {"manage", "unmanage"}) =>
              /\ op \in DeployOps \cup {"backup", "manage", "unmanage"}
              /\ IsAt(op, s) /\ IsRest(op, Tail(rest))
         /\ ~(Len(rest) > 1) /\ op \in DeployOps \cup {"backup"} => s \notin Transitory
<1> DEFINE s == Head(rest)
<1>1. CASE op \in PlainOps
  <2>1. IsPlan(rest, DeployPhaseStates, DeployResults)
    BY <1>1 DEF IsRest
  <2>2. /\ s \in DeployStates
        /\ Len(rest) > 1 => s \in DeployPhaseStates
                            /\ IsPlan(Tail(rest), DeployPhaseStates, DeployResults)
        /\ ~(Len(rest) > 1) => s \in DeployResults
    BY <2>1, PlanStep, StatesApart
  <2>3. op = "network" => ~(Len(rest) > 1)
    <3>1. op = "network" => rest = <<"complete">>
      BY DEF IsRest
    <3> QED BY <3>1, OneStatus, Zenon
  <2>4. op \notin {"backup", "backup_delete", "delete", "manage", "unmanage", "upgrade",
                   "orch_prestage"} /\ op \in DeployOps
    BY <1>1, OpsAre DEF DeployOps
  <2> HIDE DEF s
  <2>5. Len(rest) > 1 => IsAt(op, s) /\ IsRest(op, Tail(rest))
    BY <2>2, <2>3, <2>4 DEF IsAt, IsRest, Answered, Strategies
  <2> QED BY <2>2, <2>4, <2>5, StatesApart DEF s
<1>2. CASE op \in Strategies
  <2>1. IsPlan(rest, DeployStates, DeployResults)
    BY <1>2 DEF IsRest
  <2>2. /\ s \in DeployStates
        /\ Len(rest) > 1 => IsPlan(Tail(rest), DeployStates, DeployResults)
        /\ ~(Len(rest) > 1) => s \in DeployResults
    BY <2>1, PlanStep, StatesApart
  <2>4. op \notin {"backup", "backup_delete", "delete", "manage", "unmanage", "network"}
        /\ op \in DeployOps /\ op \notin PlainOps
    BY <1>2, OpsAre DEF DeployOps, Strategies
  <2> HIDE DEF s
  <2>5. Len(rest) > 1 => IsAt(op, s) /\ IsRest(op, Tail(rest))
    BY <1>2, <2>2, <2>4 DEF IsAt, IsRest, Answered, Strategies
  <2> QED BY <2>2, <2>4, <2>5, StatesApart DEF s
<1>3. CASE op = "backup"
  <2>1. IsPlan(rest, OngoingBackup, BackupResults)
    BY <1>3 DEF IsRest
  <2>2. /\ s \in BackupStates
        /\ Len(rest) > 1 => s \in OngoingBackup
                            /\ IsPlan(Tail(rest), OngoingBackup, BackupResults)
        /\ ~(Len(rest) > 1) => s \in BackupResults
    BY <2>1, PlanStep, StatesApart
  <2>4. op \notin PlainOps /\ op \notin DeployOps
    BY <1>3, OpsAre DEF DeployOps, Strategies
  <2> HIDE DEF s
  <2>5. Len(rest) > 1 => IsAt(op, s) /\ IsRest(op, Tail(rest))
    BY <1>3, <2>2, <2>4 DEF IsAt, IsRest, Answered, Strategies
  <2> QED BY <1>3, <2>2, <2>4, <2>5, StatesApart DEF s
<1>4. CASE op \in Answered
  <2>1. op \notin PlainOps /\ op \notin DeployOps /\ op \notin Strategies /\ op # "backup"
    BY <1>4, OpsAre DEF DeployOps, Strategies, Answered
  <2>2. CASE op = "backup_delete"
    <3>1. rest = <<"unknown">>
      BY <2>2 DEF IsRest
    <3> QED BY <2>1, <2>2, <3>1
  <2>3. CASE op = "delete"
    <3>1. rest = <<"gone">>
      BY <2>3 DEF IsRest
    <3> QED BY <2>1, <2>3, <3>1
  <2>4. CASE op \in {"manage", "unmanage"}
    <3>1. rest \in {<<"managed">>, <<"unmanaged">>}
      BY <2>4 DEF IsRest
    <3>3. /\ s = IF rest = <<"managed">> THEN "managed" ELSE "unmanaged"
          /\ Tail(rest) = <<>>
      BY <3>1, OneStatus
    <3> HIDE DEF s
    <3>2. IsAt(op, s) /\ IsRest(op, Tail(rest))
      BY <2>1, <2>4, <3>3 DEF IsAt, IsRest, Strategies
    <3> QED BY <2>1, <2>4, <3>2, <3>3 DEF s
  <2> QED BY <1>4, <2>2, <2>3, <2>4 DEF Answered
<1> QED BY <1>1, <1>2, <1>3, <1>4, OpsAre

LEMMA AdvanceDoes ==
  ASSUME TypeOK, WorkersOK, NEW w \in Workers, Advance(w)
  PROVE  \E x : WorkerSteps(w, x)
<1> DEFINE op == worker[w].op
           rest == worker[w].rest
           s == Head(rest)
           more == Len(rest) > 1 \/ op \in {"manage", "unmanage"}
           next == [worker[w] EXCEPT !.at = s, !.rest = Tail(rest)]
<1>1. /\ rest # <<>> /\ worker[w].at # "waiting"
      /\ IF Mine(worker[w]) THEN Write(s) ELSE UNCHANGED row
      /\ IF Mine(worker[w]) /\ more
         THEN worker' = [worker EXCEPT ![w].at = s, ![w].rest = Tail(rest)]
         ELSE Free(w)
      /\ UNCHANGED <<api, queue, start, found, mixed, used, crashes>>
  BY Zenon DEF Advance
<1>2. worker[w] # Idle /\ Active(w)
  BY <1>1, IdleIs DEF Active
<1>3. op \in Ops /\ IsAt(op, worker[w].at) /\ IsRest(op, rest)
  BY <1>2, WorkerParts
<1>4. /\ op \in DeployOps => s \in DeployStates
      /\ op = "backup" => s \in BackupStates
      /\ op = "backup_delete" => s = "unknown"
      /\ op = "delete" => s = "gone"
      /\ op \in {"manage", "unmanage"} => s \in {"managed", "unmanaged"}
      /\ more =>
           /\ op \in DeployOps \cup {"backup", "manage", "unmanage"}
           /\ IsAt(op, s) /\ IsRest(op, Tail(rest))
      /\ ~(Len(rest) > 1) /\ op \in DeployOps \cup {"backup"} => s \notin Transitory
  BY <1>1, <1>3, NextPhase
<1>5. CASE ~Mine(worker[w])
  <2>1. row' = row /\ worker' = [worker EXCEPT ![w] = Idle]
    BY <1>1, <1>5 DEF Free
  <2>2. Goes(w, Idle)
    BY <2>1, IdleIs DEF Goes
  <2>3. WorkerSteps(w, Idle)
    BY <1>1, <1>2, <1>5, <2>1, <2>2 DEF WorkerSteps
  <2> QED BY <2>3
<1>6. CASE Mine(worker[w])
  <2>1. Write(s)
    BY <1>1, <1>6
  <2>2. /\ s \in DeployStates => WrittenDeploy(s)
        /\ s \in BackupStates => WrittenBackup(s)
        /\ s = "gone" => row' = NoRow
        /\ s \in {"managed", "unmanaged"} => WrittenManagement(s)
    BY <2>1, WrittenIs
  <2>3. "unknown" \in BackupStates /\ "unknown" \notin Transitory
    BY TransitoryIs DEF BackupStates, PrestageStates
  <2>4. CASE more
    <3>1. worker' = [worker EXCEPT ![w] = next]
      BY <1>1, <1>6, <2>4 DEF WorkersOK
    <3>2. /\ IsWorker(next) /\ next # Idle /\ next.op = worker[w].op
          /\ next.id = worker[w].id /\ next.at = s
      <4> DEFINE tail == Tail(rest)
      <4> HIDE DEF s, tail
      <4>1. IsAt(worker[w].op, s) /\ IsRest(worker[w].op, tail)
        BY <1>4, <2>4 DEF tail
      <4>2. next = Moved(worker[w], s, tail)
        BY DEF tail, Moved
      <4> HIDE DEF next
      <4> QED BY <1>2, <4>1, <4>2, WorkerMoved
    <3> HIDE DEF next, s, op, rest, more
    <3>3. Goes(w, next)
      BY <3>1, <3>2 DEF Goes
    <3>4. WritesDeploy(w, next) \/ WritesBackup(w, next) \/ WritesManagement(w)
      BY <1>4, <2>2, <2>4, <3>2 DEF WritesDeploy, WritesBackup, WritesManagement, op
    <3>5. WorkerSteps(w, next)
      BY <1>1, <1>2, <1>6, <3>3, <3>4 DEF WorkerSteps
    <3> QED BY <3>5
  <2>5. CASE ~more
    <3>1. worker' = [worker EXCEPT ![w] = Idle]
      BY <1>1, <1>6, <2>5 DEF Free
    <3>2. op \in DeployOps \cup {"backup", "backup_delete", "delete"}
      BY <1>3, <2>5, OpsAre DEF Answered, DeployOps, Strategies, PlainOps
    <3>3. ~(Len(rest) > 1)
      BY <2>5
    <3> HIDE DEF next, s, op, rest, more
    <3>4. Goes(w, Idle)
      BY <3>1, IdleIs DEF Goes
    <3>5. WritesDeploy(w, Idle) \/ WritesBackup(w, Idle) \/ Deletes(w, Idle)
      BY <1>4, <2>2, <2>3, <3>2, <3>3 DEF WritesDeploy, WritesBackup, Deletes, op
    <3>6. WorkerSteps(w, Idle)
      BY <1>1, <1>2, <1>6, <3>4, <3>5 DEF WorkerSteps
    <3> QED BY <3>6
  <2> QED BY <2>4, <2>5
<1> QED BY <1>5, <1>6

\* A phase that fails leaves a status of its own kind that is not transitory.
LEMMA FailDoes ==
  ASSUME TypeOK, WorkersOK, NEW w \in Workers, Fail(w)
  PROVE  WorkerSteps(w, Idle)
<1> DEFINE op == worker[w].op
           at == worker[w].at
           s == FailedAs[at]
<1>1. /\ at \in DOMAIN FailedAs
      /\ IF Mine(worker[w]) THEN Write(s) ELSE UNCHANGED row
      /\ Free(w)
      /\ UNCHANGED <<api, queue, start, found, mixed, used, crashes>>
  BY Zenon DEF Fail
<1>2. at \in DeployMayFail \cup DOMAIN BackupFailedAs
  BY <1>1, FailedValues
<1>3. /\ at \notin {"idle", "waiting", "taken", "managed", "unmanaged"}
      /\ at \in DOMAIN BackupFailedAs <=> at \in BackupStates
      /\ DOMAIN BackupFailedAs \cap DeployMayFail = {}
  BY <1>2, MayFailIs DEF PrestageStates, BackupStates, OngoingBackup, BackupFailed
<1>4. worker[w] # Idle /\ Active(w)
  BY <1>3, IdleIs DEF Active
<1>5. op \in Ops /\ IsAt(op, at)
  BY <1>4, WorkerParts
<1>6. op \in DeployOps => s \in DeployStates \ Transitory
  <2> SUFFICES ASSUME op \in DeployOps PROVE s \in DeployStates \ Transitory
    OBVIOUS
  <2>1. at \notin BackupStates
    BY <1>3, <1>5, OpsAre, StatesApart DEF IsAt, PlainOps, Strategies
  <2> QED BY <1>2, <1>3, <2>1, FailedKinds
<1>7. op = "backup" => s \in BackupStates \ Transitory
  <2> SUFFICES ASSUME op = "backup" PROVE s \in BackupStates \ Transitory
    OBVIOUS
  <2>1. at \in BackupStates
    BY <1>3, <1>5, StatesApart DEF IsAt
  <2> QED BY <1>3, <2>1, FailedKinds
<1>8. op \in DeployOps \cup {"backup"}
  BY <1>3, <1>5, OpsAre DEF IsAt, PlainOps, DeployOps, Strategies
<1>9. Goes(w, Idle)
  BY <1>1, IdleIs DEF Goes, Free
<1>10. CASE ~Mine(worker[w])
  BY <1>1, <1>4, <1>9, <1>10 DEF WorkerSteps
<1>11. CASE Mine(worker[w])
  <2>1. /\ s \in DeployStates => WrittenDeploy(s)
        /\ s \in BackupStates => WrittenBackup(s)
    BY <1>1, <1>11, WrittenIs
  <2> HIDE DEF s, at, op
  <2>2. WritesDeploy(w, Idle) \/ WritesBackup(w, Idle)
    BY <1>6, <1>7, <1>8, <2>1 DEF WritesDeploy, WritesBackup, op
  <2> QED BY <1>1, <1>4, <1>9, <1>11, <2>2 DEF WorkerSteps
<1> QED BY <1>10, <1>11

LEMMA FailSilentlyDoes ==
  ASSUME TypeOK, WorkersOK, NEW w \in Workers, FailSilently(w)
  PROVE  WorkerSteps(w, Idle)
<1> DEFINE op == worker[w].op
           at == worker[w].at
<1>1. /\ \/ op \in {"network", "delete", "backup_delete"}
         \/ op = "upgrade" /\ at \in {"upgrading", "taken", "installed", "migrated"}
      /\ Free(w) /\ row' = row
      /\ UNCHANGED <<api, queue, start, found, mixed, used, crashes>>
  BY DEF FailSilently
<1>2. worker[w] # Idle
  BY <1>1, IdleIs
<1>3. op \in Ops /\ IsAt(op, at)
  BY <1>2, WorkerParts
<1>4. at \in {"reconfiguring-network", "taken", "managed", "unmanaged", "upgrading",
              "installed", "migrated"}
  BY <1>1, <1>3 DEF IsAt, Answered
<1>5. Active(w) /\ at \notin Transitory
  BY <1>2, <1>4, TransitoryIs DEF Active, PrestageStates
<1>6. Goes(w, Idle)
  BY <1>1, IdleIs DEF Goes, Free
<1> QED BY <1>1, <1>5, <1>6 DEF WorkerSteps

LEMMA TellDcorchDoes ==
  ASSUME TypeOK, WorkersOK, NEW w \in Workers, TellDcorch(w)
  PROVE  WorkerSteps(w, Idle)
<1> DEFINE op == worker[w].op
           at == worker[w].at
           s == IF op = "manage" THEN "unmanaged" ELSE "managed"
<1>1. /\ op \in {"manage", "unmanage"}
      /\ row' = row \/ (Mine(worker[w]) /\ Write(s))
      /\ Free(w)
      /\ UNCHANGED <<api, queue, start, found, mixed, used, crashes>>
  BY Zenon DEF TellDcorch
<1>2. worker[w] # Idle
  BY <1>1, IdleIs
<1>3. at \in {"taken", "managed", "unmanaged"}
  BY <1>1, <1>2, WorkerParts DEF IsAt, Answered
<1>4. Active(w) /\ at \notin Transitory
  BY <1>2, <1>3, TransitoryIs DEF Active, PrestageStates
<1>5. Goes(w, Idle)
  BY <1>1, IdleIs DEF Goes, Free
<1>6. CASE row' = row
  BY <1>1, <1>4, <1>5, <1>6 DEF WorkerSteps
<1>7. CASE Mine(worker[w]) /\ Write(s)
  <2>1. WrittenManagement(s)
    BY <1>7, WrittenIs
  <2>2. WritesManagement(w)
    BY <1>1, <2>1 DEF WritesManagement
  <2> QED BY <1>1, <1>4, <1>5, <1>7, <2>2 DEF WorkerSteps
<1> QED BY <1>1, <1>6, <1>7

\* A step of a strategy that has no status of its own.
Prepares(w, x) ==
  /\ worker' = [worker EXCEPT ![w] = x]
  /\ IsWorker(x)
  /\ worker[w] = Idle \/ worker[w].at = "waiting"
  /\ UNCHANGED <<row, api, queue, start, found, crashes>>
  /\ \/ x.at = "waiting" /\ mixed' = mixed
     \/ x = Idle /\ Mixes
     \/ /\ Mixes /\ Exists /\ x.id = row.id
        /\ x.op \in Strategies
  /\ used' \in 0 .. MaxRequests /\ used' >= used

LEMMA PlanFrom ==
  ASSUME NEW A, NEW E, NEW p, IsPlan(p, A, E), NEW i \in 1 .. Len(p), NEW n, n = Len(p)
  PROVE  IsPlan(SubSeq(p, i, n), A, E)
<1> DEFINE q == SubSeq(p, i, n)
<1>1. p \in Seq(A \cup E) /\ Len(p) \in Nat
  BY DEF IsPlan
<1>2. /\ q \in Seq(A \cup E) /\ Len(q) = n - i + 1
      /\ \A j \in 1 .. n - i + 1 : q[j] = p[i + j - 1]
  <2> DEFINE All == A \cup E
  <2>0. p \in Seq(All)
    BY <1>1
  <2> HIDE DEF All
  <2>1. i \in Nat /\ n \in Nat /\ 1 <= i /\ i <= n
    BY <1>1
  <2>2. q \in Seq(All)
    BY <2>0, <2>1
  <2>3. Len(q) = n - i + 1
    BY <2>0, <2>1
  <2>4. \A j \in 1 .. n - i + 1 : q[j] = p[i + j - 1]
    BY <2>0, <2>1
  <2> QED
    BY <2>2, <2>3, <2>4 DEF All
<1> HIDE DEF q
<1>3. \A j \in 1 .. Len(q) : j < Len(q) => q[j] \in A
  <2> SUFFICES ASSUME NEW j \in 1 .. Len(q), j < Len(q) PROVE q[j] \in A
    OBVIOUS
  <2>1. i + j - 1 \in 1 .. Len(p) /\ i + j - 1 < Len(p)
    BY <1>1, <1>2
  <2> QED BY <1>2, <2>1 DEF IsPlan
<1>4. q[Len(q)] \in E
  <2>1. Len(q) \in 1 .. n - i + 1 /\ i + Len(q) - 1 = n
    BY <1>1, <1>2
  <2> QED BY <1>2, <2>1 DEF IsPlan
<1>5. q # <<>>
  BY <1>1, <1>2
<1> QED BY <1>2, <1>3, <1>4, <1>5 DEF IsPlan, q

LEMMA UpgradePlanIs == IsPlan(UpgradePlan, DeployStates, DeployResults)
<1> DEFINE p == <<"pre-install", "installing", "installed", "migrating-data",
                  "migrated", "complete">>
<1>1. /\ {"pre-install", "installing", "installed", "migrating-data", "migrated"}
           \subseteq DeployStates
      /\ "complete" \in DeployResults
  BY BusyIs DEF DeployStates, DeployResults, OngoingBackup, PrestageStates
<1>2. /\ p \in Seq(DeployStates \cup DeployResults) /\ Len(p) = 6 /\ p # <<>>
      /\ p[1] = "pre-install" /\ p[2] = "installing" /\ p[3] = "installed"
      /\ p[4] = "migrating-data" /\ p[5] = "migrated" /\ p[6] = "complete"
  BY <1>1
<1> HIDE DEF p
<1>3. IsPlan(p, DeployStates, DeployResults)
  BY <1>1, <1>2 DEF IsPlan
<1>4. /\ IsPlan(SubSeq(p, 6, 6), DeployStates, DeployResults)
      /\ IsPlan(SubSeq(p, 5, 6), DeployStates, DeployResults)
      /\ IsPlan(SubSeq(p, 4, 6), DeployStates, DeployResults)
  <2>1. 4 \in 1 .. Len(p) /\ 5 \in 1 .. Len(p) /\ 6 \in 1 .. Len(p) /\ 6 = Len(p)
    BY <1>2
  <2> QED BY <1>3, <2>1, PlanFrom, Zenon
<1>5. UpgradePlan \in {p, SubSeq(p, 6, 6), SubSeq(p, 5, 6), SubSeq(p, 4, 6)}
  BY Zenon DEF UpgradePlan, p
<1> QED BY <1>3, <1>4, <1>5

LEMMA StartUpgradeDoes ==
  ASSUME TypeOK, WorkersOK, NEW w \in Workers, StartUpgrade(w)
  PROVE  \E x : Prepares(w, x)
<1> DEFINE at == IF Head(UpgradePlan) = "pre-install" THEN "upgrading" ELSE "taken"
           x == Work("upgrade", row.id, at, UpgradePlan)
<1>1. worker' = [worker EXCEPT ![w] = x]
  BY DEF StartUpgrade, Work
<1>2. /\ worker[w] = Idle /\ Exists /\ Mixes
      /\ used < MaxRequests /\ used' = used + 1
      /\ UNCHANGED <<row, api, queue, start, found, crashes>>
  BY DEF StartUpgrade, Counted
<1>3. "upgrade" \in Ops /\ "upgrade" \in Strategies /\ "upgrade" \notin PlainOps
  BY OpsAre DEF Strategies
<1>4. IsAt("upgrade", at) /\ IsRest("upgrade", UpgradePlan)
  BY <1>3, UpgradePlanIs DEF IsAt, IsRest, Answered
<1>5. row.id \in 0 .. MaxRequests + 1
  BY DEF TypeOK, Rows
<1> HIDE DEF at
<1>6. IsWorker(x) /\ x.op = "upgrade" /\ x.id = row.id
  BY <1>3, <1>4, <1>5, IsWorkerIf
<1>7. used' \in 0 .. MaxRequests /\ used' >= used
  BY <1>2, ConstantsAssumption DEF TypeOK
<1> HIDE DEF x
<1>8. Prepares(w, x)
  BY <1>1, <1>2, <1>3, <1>6, <1>7 DEF Prepares
<1> QED BY <1>8

LEMMA PlanPrestageDoes ==
  ASSUME TypeOK, WorkersOK, NEW w \in Workers, PlanPrestage(w)
  PROVE  \E x : Prepares(w, x)
<1> DEFINE x == Work("orch_prestage", row.id, "waiting", <<"complete">>)
<1>1. worker' = [worker EXCEPT ![w] = x]
  BY DEF PlanPrestage, Work
<1>2. /\ worker[w] = Idle /\ mixed' = mixed
      /\ used < MaxRequests /\ used' = used + 1
      /\ UNCHANGED <<row, api, queue, start, found, crashes>>
  BY DEF PlanPrestage, Counted
<1>3. "orch_prestage" \in Ops /\ "orch_prestage" \in Strategies
      /\ "orch_prestage" \notin PlainOps
  BY OpsAre DEF Strategies
<1>4. IsPlan(<<"complete">>, DeployStates, DeployResults)
  BY PlanOfOne DEF DeployResults
<1>5. IsAt("orch_prestage", "waiting") /\ IsRest("orch_prestage", <<"complete">>)
  BY <1>3, <1>4 DEF IsAt, IsRest, Answered
<1>6. row.id \in 0 .. MaxRequests + 1
  BY DEF TypeOK, Rows
<1>7. IsWorker(x) /\ x.at = "waiting"
  BY <1>3, <1>5, <1>6, IsWorkerIf
<1>8. used' \in 0 .. MaxRequests /\ used' >= used
  BY <1>2, ConstantsAssumption DEF TypeOK
<1> HIDE DEF x
<1>9. Prepares(w, x)
  BY <1>1, <1>2, <1>7, <1>8 DEF Prepares
<1> QED BY <1>9

LEMMA PreCheckDoes ==
  ASSUME TypeOK, WorkersOK, NEW w \in Workers, PreCheck(w)
  PROVE  \E x : Prepares(w, x)
<1>1. /\ worker[w].at = "waiting" /\ Mixes /\ used' = used
      /\ UNCHANGED <<row, api, queue, start, found, crashes>>
      /\ used' \in 0 .. MaxRequests /\ used' >= used
  BY DEF PreCheck, TypeOK
<1>2. worker[w] # Idle
  BY <1>1, IdleIs
<1>3. /\ worker[w].op = "orch_prestage" /\ "orch_prestage" \in Ops
      /\ "orch_prestage" \in Strategies /\ "orch_prestage" \notin PlainOps
  <2>1. worker[w].op \in Ops /\ IsAt(worker[w].op, "waiting")
    BY <1>1, <1>2, WorkerParts
  <2> QED BY <2>1, OpsAre, StatesApart DEF IsAt, Strategies
<1>4. worker[w] \in WorkerRecords /\ IsRest(worker[w].op, worker[w].rest)
  BY <1>2, WorkerParts DEF WorkersOK
<1>5. CASE ~Mine(worker[w])
  <2>1. worker' = [worker EXCEPT ![w] = Idle]
    BY <1>5 DEF PreCheck, Free
  <2>2. Prepares(w, Idle)
    BY <1>1, <2>1, IdleIs DEF Prepares
  <2> QED BY <2>2
<1>6. CASE Mine(worker[w]) /\ Prestageable
  <2>1. PICK plan \in PrestagePlans :
          worker' = [worker EXCEPT ![w].at = "prechecked", ![w].rest = plan]
    BY <1>6, Zenon DEF PreCheck
  <2> DEFINE x == Moved(worker[w], "prechecked", plan)
  <2>2. worker' = [worker EXCEPT ![w] = x]
    BY <2>1 DEF Moved, WorkersOK
  <2>3. IsPlan(plan, DeployPhaseStates, DeployResults)
    BY AddPlan
  <2>4. IsPlan(plan, DeployStates, DeployResults)
    BY <2>3, StatesApart DEF IsPlan
  <2>5. IsAt(worker[w].op, "prechecked") /\ IsRest(worker[w].op, plan)
    BY <1>3, <2>4 DEF IsAt, IsRest, Answered
  <2>6. IsWorker(x) /\ x.op = worker[w].op /\ x.id = worker[w].id
    BY <1>2, <2>5, WorkerMoved
  <2> HIDE DEF x
  <2>7. Prepares(w, x)
    BY <1>1, <1>3, <1>6, <2>2, <2>6 DEF Prepares, Mine
  <2> QED BY <2>7
<1>7. CASE Mine(worker[w]) /\ ~Prestageable
  <2> DEFINE x == [worker[w] EXCEPT !.at = "skipped"]
  <2>1. worker' = [worker EXCEPT ![w] = x]
    <3>1. worker' = [worker EXCEPT ![w].at = "skipped"]
      BY <1>7, Zenon DEF PreCheck
    <3> QED BY <3>1 DEF WorkersOK
  <2>2. IsAt(worker[w].op, "skipped")
    BY <1>3 DEF IsAt, Answered
  <2>3. /\ x \in WorkerRecords /\ x.op = worker[w].op /\ x.id = worker[w].id
        /\ x.at = "skipped" /\ x.rest = worker[w].rest
    BY <1>4 DEF WorkerRecords
  <2> HIDE DEF x
  <2>4. IsWorker(x)
    BY <1>3, <1>4, <2>2, <2>3 DEF IsWorker
  <2>5. Prepares(w, x)
    BY <1>1, <1>3, <1>7, <2>1, <2>3, <2>4 DEF Prepares, Mine
  <2> QED BY <2>5
<1> QED BY <1>5, <1>6, <1>7

\* A request that the API has checked.
LEMMA RequestDoes ==
  ASSUME TypeOK, WorkersOK, NEW op \in DOMAIN Plans, NEW plan \in Plans[op],
         Request(op, plan)
  PROVE  /\ \E c \in Controllers : \E m :
              /\ api[c] = NoRequest /\ api' = [api EXCEPT ![c] = m]
              /\ IsRequest(m) /\ (m.op = "network" => ~Managed)
         /\ Mixes /\ used' \in 0 .. MaxRequests /\ used' = used + 1
         /\ UNCHANGED <<row, queue, worker, start, found, crashes>>
<1> DEFINE c == ControllerOf(op)
           m == [op |-> op, id |-> row.id, plan |-> plan]
<1>1. /\ used < MaxRequests /\ used' = used + 1
      /\ api[c] = NoRequest /\ Accepts(op)
      /\ api' = [api EXCEPT ![c] = m]
      /\ Mixes
      /\ UNCHANGED <<row, queue, worker, start, found, crashes>>
  BY DEF Request, Counted
<1>2. c \in Controllers
  BY DEF ControllerOf, Controllers
<1>3. row.id \in 0 .. MaxRequests + 1
  BY DEF TypeOK, Rows
<1>4. m \in Requests /\ m.op = op /\ m.plan = plan
  BY <1>3 DEF Requests, AnyPlan
<1>5. op = "network" => ~Managed
  BY <1>1 DEF Accepts, AcceptsNetwork
<1> HIDE DEF m, c
<1>6. IsRequest(m)
  BY <1>4 DEF IsRequest
<1>7. used' \in 0 .. MaxRequests
  BY <1>1, ConstantsAssumption DEF TypeOK
<1> QED BY <1>1, <1>2, <1>4, <1>5, <1>6, <1>7

\* What the controller writes, and its message.
Sends(m, n) ==
  /\ queue' = queue \cup {n}
  /\ IsRequest(n) /\ n.op = m.op /\ n.id = row'.id
  /\ \/ /\ m.op \in {"add", "rehome"}
        /\ row' \in Rows /\ row'.id = used /\ row'.deploy = "not-deployed"
        /\ row'.backup = "unknown" /\ row'.management = "unmanaged"
     \/ /\ m.op = "reinstall" /\ Mine(m)
        /\ row' \in Rows /\ row'.id = row.id /\ row'.deploy = "pre-install"
        /\ row'.backup = row.backup /\ row'.management = "unmanaged"
     \/ m.op = "network" /\ Mine(m) /\ WrittenDeploy("reconfiguring-network")
     \/ m.op \notin {"add", "rehome", "reinstall", "network"} /\ row' = row

LEMMA WriteOfApiDoes ==
  ASSUME TypeOK, NEW m, WriteOfApi(m),
         m.op \in {"reinstall", "network"} => Mine(m)
  PROVE  \/ /\ m.op \in {"add", "rehome"}
            /\ row' \in Rows /\ row'.id = used /\ row'.deploy = "not-deployed"
            /\ row'.backup = "unknown" /\ row'.management = "unmanaged"
         \/ /\ m.op = "reinstall" /\ Mine(m)
            /\ row' \in Rows /\ row'.id = row.id /\ row'.deploy = "pre-install"
            /\ row'.backup = row.backup /\ row'.management = "unmanaged"
         \/ m.op = "network" /\ Mine(m) /\ WrittenDeploy("reconfiguring-network")
         \/ m.op \notin {"add", "rehome", "reinstall", "network"} /\ row' = row
<1>1. /\ {"not-deployed", "pre-install", "reconfiguring-network", "complete"}
           \subseteq DeployStates
      /\ "unknown" \in BackupStates
  BY BusyIs DEF DeployStates, BackupStates, OngoingBackup, PrestageStates
<1>2. row \in Rows /\ used \in 0 .. MaxRequests + 1
  BY ConstantsAssumption DEF TypeOK
<1>3. CASE m.op \in {"add", "rehome"}
  <2>1. row' = NewRow(used)
    BY <1>3, Zenon DEF WriteOfApi, AddSubcloud
  <2>2. /\ row' \in Rows /\ row'.id = used /\ row'.deploy = "not-deployed"
        /\ row'.backup = "unknown" /\ row'.management = "unmanaged"
    BY <1>1, <1>2, <2>1 DEF NewRow, NoRow, Rows
  <2> QED BY <1>3, <2>2
<1>4. CASE m.op = "reinstall"
  <2>1. row' = [row EXCEPT !.deploy = "pre-install", !.management = "unmanaged"]
    BY <1>4, Zenon DEF WriteOfApi
  <2>2. /\ row' \in Rows /\ row'.id = row.id /\ row'.deploy = "pre-install"
        /\ row'.backup = row.backup /\ row'.management = "unmanaged"
    BY <1>1, <1>2, <2>1 DEF Rows
  <2> QED BY <1>4, <2>2
<1>5. CASE m.op = "network"
  <2>1. row' = [row EXCEPT !.deploy = "reconfiguring-network"]
    BY <1>5, Zenon DEF WriteOfApi
  <2>2. WrittenDeploy("reconfiguring-network")
    BY <1>1, <1>2, <2>1 DEF WrittenDeploy, Rows
  <2> QED BY <1>5, <2>2
<1>6. CASE m.op \notin {"add", "rehome", "reinstall", "network"}
  <2>1. row' = row
    BY <1>6, Zenon DEF WriteOfApi
  <2> QED BY <1>6, <2>1
<1> QED BY <1>3, <1>4, <1>5, <1>6

LEMMA SubmitDoes ==
  ASSUME TypeOK, WorkersOK, NEW c \in Controllers, Submit(c)
  PROVE  /\ api[c] # NoRequest /\ api' = [api EXCEPT ![c] = NoRequest]
         /\ UNCHANGED <<worker, start, found, mixed, used, crashes>>
         /\ UNCHANGED <<row, queue>> \/ \E n : Sends(api[c], n)
<1> DEFINE m == api[c]
           n == [m EXCEPT !.id = row'.id]
<1>1. /\ m # NoRequest /\ api' = [api EXCEPT ![c] = NoRequest]
      /\ UNCHANGED <<worker, start, found, mixed, used, crashes>>
      /\ \/ UNCHANGED <<row, queue>>
         \/ /\ m.op \in {"reinstall", "network"} => Mine(m)
            /\ WriteOfApi(m) /\ queue' = queue \cup {n}
  BY Zenon DEF Submit
<1>2. IsRequest(m)
  BY <1>1 DEF WorkersOK
<1>3. CASE /\ m.op \in {"reinstall", "network"} => Mine(m)
           /\ WriteOfApi(m) /\ queue' = queue \cup {n}
  <2> HIDE DEF m
  <2>1. \/ /\ m.op \in {"add", "rehome"}
           /\ row' \in Rows /\ row'.id = used /\ row'.deploy = "not-deployed"
           /\ row'.backup = "unknown" /\ row'.management = "unmanaged"
        \/ /\ m.op = "reinstall" /\ Mine(m)
           /\ row' \in Rows /\ row'.id = row.id /\ row'.deploy = "pre-install"
           /\ row'.backup = row.backup /\ row'.management = "unmanaged"
        \/ m.op = "network" /\ Mine(m) /\ WrittenDeploy("reconfiguring-network")
        \/ m.op \notin {"add", "rehome", "reinstall", "network"} /\ row' = row
    BY <1>3, WriteOfApiDoes
  <2>2. row' \in Rows
    BY <2>1 DEF WrittenDeploy, TypeOK
  <2>3. row'.id \in 0 .. MaxRequests + 1 /\ m \in Requests
    BY <1>2, <2>2 DEF Rows, IsRequest
  <2>4. n \in Requests /\ n.op = m.op /\ n.plan = m.plan /\ n.id = row'.id
    BY <2>3 DEF Requests
  <2> DEFINE k == n
  <2>5. k \in Requests /\ k.op = m.op /\ k.plan = m.plan /\ k.id = row'.id
        /\ queue' = queue \cup {k}
    BY <1>3, <2>4
  <2> HIDE DEF k
  <2>6. IsRequest(k)
    BY <1>2, <2>5 DEF IsRequest
  <2>7. Sends(m, k)
    BY <2>1, <2>5, <2>6 DEF Sends
  <2> QED BY <1>1, <2>7 DEF m
<1> QED BY <1>1, <1>3

\* The repair of the statuses that the manager has read.
LEMMA RepairDoes ==
  ASSUME TypeOK, Repair
  PROVE  /\ start = "repairing" /\ found' = NoRow /\ start' \in {"up", "down"}
         /\ UNCHANGED <<api, queue, worker, used, crashes>>
         /\ \/ /\ UNCHANGED <<row, mixed>>
               /\ start' = "up" =>
                    found = NoRow \/ {found.deploy, found.backup} \cap Transitory = {}
            \/ /\ Mine(found)
               /\ row' \in Rows /\ row'.id = row.id /\ row'.management = row.management
               /\ row'.deploy \notin Transitory /\ row'.backup \notin Transitory
               /\ mixed' = (mixed \/ Asked \/ \E w \in Workers : Active(w))
<1> DEFINE needed == {found.deploy, found.backup} \cap Transitory # {}
<1>1. /\ start = "repairing" /\ found' = NoRow
      /\ UNCHANGED <<api, queue, worker, used, crashes>>
      /\ IF found # NoRow /\ needed
         THEN IF Mine(found)
              THEN /\ row' = [row EXCEPT !.deploy = Repaired(found.deploy),
                                         !.backup = Repaired(found.backup)]
                   /\ start' = "up"
                   /\ mixed' = (mixed \/ Asked \/ \E w \in Workers : Active(w))
              ELSE start' = "down" /\ UNCHANGED <<row, mixed>>
         ELSE start' = "up" /\ UNCHANGED <<row, mixed>>
  BY Zenon DEF Repair
<1>2. CASE found # NoRow /\ needed /\ Mine(found)
  <2>1. row' = [row EXCEPT !.deploy = Repaired(found.deploy),
                           !.backup = Repaired(found.backup)]
        /\ start' = "up"
        /\ mixed' = (mixed \/ Asked \/ \E w \in Workers : Active(w))
    BY <1>1, <1>2, Zenon
  <2>2. /\ Repaired(found.deploy) \in DeployStates \ Transitory
        /\ Repaired(found.backup) \in BackupStates \ Transitory
    BY RepairedKinds DEF TypeOK, Rows
  <2>3. /\ row' \in Rows /\ row'.id = row.id /\ row'.management = row.management
        /\ row'.deploy = Repaired(found.deploy) /\ row'.backup = Repaired(found.backup)
    BY <2>1, <2>2 DEF TypeOK, Rows
  <2> QED BY <1>1, <1>2, <2>1, <2>2, <2>3
<1>3. CASE found # NoRow /\ needed /\ ~Mine(found)
  <2>1. start' = "down" /\ UNCHANGED <<row, mixed>>
    BY <1>1, <1>3, Zenon
  <2> QED BY <1>1, <2>1
<1>4. CASE ~(found # NoRow /\ needed)
  <2>1. start' = "up" /\ UNCHANGED <<row, mixed>>
    BY <1>1, <1>4, Zenon
  <2> QED BY <1>1, <1>4, <2>1
<1> QED BY <1>2, <1>3, <1>4

LEMMA AvailabilityChangesDoes ==
  ASSUME TypeOK, AvailabilityChanges
  PROVE  /\ Exists /\ row' \in Rows /\ row'.id = row.id
         /\ row'.management = row.management
         /\ row'.deploy = row.deploy /\ row'.backup = row.backup
         /\ UNCHANGED <<api, queue, worker, start, found, mixed, used, crashes>>
<1>1. row' = [row EXCEPT !.availability = IF Online THEN "offline" ELSE "online"]
  BY DEF AvailabilityChanges
<1> QED BY <1>1 DEF AvailabilityChanges, TypeOK, Rows

LEMMA ManagerDiesDoes ==
  ASSUME TypeOK, WorkersOK, ManagerDies
  PROVE  /\ start' = "down" /\ crashes' \in 0 .. MaxCrashes
         /\ UNCHANGED <<row, api, queue, found, mixed, used>>
         /\ worker' \in [Workers -> WorkerRecords]
         /\ \A w \in Workers : worker'[w] \in {worker[w], Idle}
<1>1. /\ worker' = [w \in Workers |->
                      IF worker[w].op \in Strategies THEN worker[w] ELSE Idle]
      /\ start' = "down" /\ crashes' = crashes + 1 /\ crashes < MaxCrashes
      /\ UNCHANGED <<row, api, queue, found, mixed, used>>
  BY DEF ManagerDies, Crash
<1>2. crashes' \in 0 .. MaxCrashes
  BY <1>1, ConstantsAssumption DEF TypeOK
<1>3. \A w \in Workers : worker[w] \in WorkerRecords
  BY DEF WorkersOK
<1> QED BY <1>1, <1>2, <1>3, IdleIs

LEMMA ControllerLostDoes ==
  ASSUME TypeOK, WorkersOK, ControllerLost
  PROVE  /\ start' = "down" /\ crashes' \in 0 .. MaxCrashes
         /\ UNCHANGED <<row, found, mixed, used>>
         /\ worker' \in [Workers -> WorkerRecords]
         /\ \A w \in Workers : worker'[w] \in {worker[w], Idle}
         /\ queue' = {} /\ api' = [c \in Controllers |-> NoRequest]
<1>1. /\ worker' = [w \in Workers |-> IF Active(w) THEN Idle ELSE worker[w]]
      /\ start' = "down" /\ crashes' = crashes + 1 /\ crashes < MaxCrashes
      /\ queue' = {} /\ api' = [c \in Controllers |-> NoRequest]
      /\ UNCHANGED <<row, found, mixed, used>>
  BY DEF ControllerLost, Crash
<1>2. crashes' \in 0 .. MaxCrashes
  BY <1>1, ConstantsAssumption DEF TypeOK
<1>3. \A w \in Workers : worker[w] \in WorkerRecords
  BY DEF WorkersOK
<1> QED BY <1>1, <1>2, <1>3, IdleIs

(***************************************************************************)
(* The invariant                                                           *)
(***************************************************************************)

\* The steps, by what they do.
Asks ==
  /\ \E c \in Controllers : \E m :
       /\ api[c] = NoRequest /\ api' = [api EXCEPT ![c] = m]
       /\ IsRequest(m) /\ (m.op = "network" => ~Managed)
  /\ Mixes /\ used' \in 0 .. MaxRequests /\ used' = used + 1
  /\ UNCHANGED <<row, queue, worker, start, found, crashes>>

Posts(c) ==
  /\ api[c] # NoRequest /\ api' = [api EXCEPT ![c] = NoRequest]
  /\ UNCHANGED <<worker, start, found, mixed, used, crashes>>
  /\ UNCHANGED <<row, queue>> \/ \E n : Sends(api[c], n)

Takes(w, m) ==
  /\ IsRequest(m) /\ m \in queue /\ worker[w] = Idle /\ queue' = queue \ {m}
  /\ UNCHANGED <<api, start, found, mixed, used, crashes>>
  /\ CameToNothing(m) \/ \E x : Began(w, m, x)

\* Processes that die, and a manager that serves or reads.
Falls ==
  /\ start' = "down" /\ crashes' \in 0 .. MaxCrashes
  /\ UNCHANGED <<row, found, mixed, used>>
  /\ worker' \in [Workers -> WorkerRecords]
  /\ \A w \in Workers : worker'[w] \in {worker[w], Idle}
  /\ \/ UNCHANGED <<api, queue>>
     \/ queue' = {} /\ api' = [c \in Controllers |-> NoRequest]

Rises ==
  /\ UNCHANGED <<row, api, queue, worker, mixed, used, crashes>>
  /\ \/ start' = "serving" /\ found' = found
     \/ start' = "repairing" /\ found' = row

Repairs ==
  /\ start = "repairing" /\ found' = NoRow /\ start' \in {"up", "down"}
  /\ UNCHANGED <<api, queue, worker, used, crashes>>
  /\ \/ /\ UNCHANGED <<row, mixed>>
        /\ start' = "up" =>
             found = NoRow \/ {found.deploy, found.backup} \cap Transitory = {}
     \/ /\ Mine(found)
        /\ row' \in Rows /\ row'.id = row.id /\ row'.management = row.management
        /\ row'.deploy \notin Transitory /\ row'.backup \notin Transitory
        /\ mixed' = (mixed \/ Asked \/ \E w \in Workers : Active(w))

Flips ==
  /\ Exists /\ row' \in Rows /\ row'.id = row.id
  /\ row'.management = row.management
  /\ row'.deploy = row.deploy /\ row'.backup = row.backup
  /\ UNCHANGED <<api, queue, worker, start, found, mixed, used, crashes>>

LEMMA Steps ==
  ASSUME TypeOK, WorkersOK, Next
  PROVE  \/ Asks
         \/ \E c \in Controllers : Posts(c)
         \/ \E w \in Workers : \E m \in queue : Takes(w, m)
         \/ \E w \in Workers : \E x : WorkerSteps(w, x)
         \/ \E w \in Workers : \E x : Prepares(w, x)
         \/ Falls \/ Rises \/ Repairs \/ Flips
<1>1. CASE \E op \in DOMAIN Plans : \E plan \in Plans[op] : Request(op, plan)
  <2>1. Asks
    BY <1>1, RequestDoes DEF Asks
  <2> QED BY <2>1
<1>2. ASSUME NEW c \in Controllers, Submit(c) PROVE Posts(c)
  BY <1>2, SubmitDoes DEF Posts
<1>3. ASSUME NEW w \in Workers, NEW m \in queue, Take(w, m) PROVE Takes(w, m)
  BY <1>3, TakeDoes DEF Takes
<1>4. ASSUME NEW w \in Workers, Works(w) PROVE \E x : WorkerSteps(w, x)
  BY <1>4, AdvanceDoes, FailDoes, FailSilentlyDoes, TellDcorchDoes DEF Works
<1>5. ASSUME NEW w \in Workers, StartUpgrade(w) \/ PlanPrestage(w) \/ PreCheck(w)
      PROVE  \E x : Prepares(w, x)
  BY <1>5, StartUpgradeDoes, PlanPrestageDoes, PreCheckDoes
<1>6. ASSUME ManagerDies \/ ControllerLost PROVE Falls
  BY <1>6, ManagerDiesDoes, ControllerLostDoes DEF Falls
<1>7. ASSUME Starts PROVE Rises \/ Repairs
  <2>1. CASE StartServing
    BY <2>1 DEF StartServing, Rises
  <2>2. CASE ReadForRepair
    BY <2>2 DEF ReadForRepair, Rises
  <2>3. CASE Repair
    BY <2>3, RepairDoes DEF Repairs
  <2> QED BY <1>7, <2>1, <2>2, <2>3 DEF Starts
<1>8. ASSUME AvailabilityChanges PROVE Flips
  BY <1>8, AvailabilityChangesDoes DEF Flips
<1>9. CASE \E w \in Workers : Works(w) \/ StartUpgrade(w) \/ PlanPrestage(w) \/ PreCheck(w)
  BY <1>4, <1>5, <1>9
<1> QED BY <1>1, <1>2, <1>3, <1>6, <1>7, <1>8, <1>9 DEF Next

\* What a worker does leaves a row.
LEMMA WorkerRow ==
  ASSUME TypeOK, NEW w, NEW x, WorkerSteps(w, x)
  PROVE  /\ row' \in Rows
         /\ \/ row' = NoRow /\ x = Idle
            \/ row' = row
            \/ row'.id = row.id /\ Exists
<1>1. NoRow \in Rows /\ row \in Rows
  BY RowTyped DEF TypeOK
<1> QED BY <1>1 DEF WorkerSteps, WritesDeploy, WritesBackup, WritesManagement, Deletes,
   WrittenDeploy, WrittenBackup, WrittenManagement, Mine

LEMMA TypesKept ==
  ASSUME TypeOK, WorkersOK, Next
  PROVE  TypeOK' /\ WorkersOK'
<1>1. /\ row \in Rows /\ api \in [Controllers -> Requests] /\ queue \subseteq Requests
      /\ worker \in [Workers -> WorkerRecords] /\ DOMAIN worker = Workers
      /\ start \in {"down", "serving", "repairing", "up"}
      /\ found \in Rows /\ mixed \in BOOLEAN
      /\ used \in 0 .. MaxRequests /\ crashes \in 0 .. MaxCrashes
      /\ \A w \in Workers : IsWorker(worker[w])
      /\ \A m \in queue : IsRequest(m)
      /\ \A c \in Controllers : api[c] = NoRequest \/ IsRequest(api[c])
  BY DEF TypeOK, WorkersOK
<1>2. NoRequest \in Requests
  <2>1. 0 \in 0 .. MaxRequests + 1
    BY ConstantsAssumption
  <2> QED BY <2>1 DEF NoRequest, Requests
<1>3. ASSUME NEW m, IsRequest(m) PROVE m \in Requests
  BY <1>3 DEF IsRequest
<1>4. ASSUME Mixes PROVE mixed' \in BOOLEAN
  BY <1>4, Zenon DEF Mixes
<1>5. CASE Asks
  <2>1. PICK c \in Controllers :
          \E m : api' = [api EXCEPT ![c] = m] /\ IsRequest(m)
    BY <1>5 DEF Asks
  <2> PICK m : api' = [api EXCEPT ![c] = m] /\ IsRequest(m)
    BY <2>1
  <2>2. /\ Mixes /\ used' \in 0 .. MaxRequests
        /\ UNCHANGED <<row, queue, worker, start, found, crashes>>
    BY <1>5 DEF Asks
  <2>3. /\ api' \in [Controllers -> Requests] /\ api'[c] = m
        /\ \A d \in Controllers : d # c => api'[d] = api[d]
    BY <1>1, <1>3
  <2>4. \A d \in Controllers : api'[d] = NoRequest \/ IsRequest(api'[d])
    BY <1>1, <2>3
  <2>5. TypeOK'
    BY <1>1, <1>4, <2>2, <2>3 DEF TypeOK
  <2>6. WorkersOK'
    BY <1>1, <2>2, <2>4 DEF WorkersOK
  <2> QED BY <2>5, <2>6
<1>6. ASSUME NEW c \in Controllers, Posts(c) PROVE TypeOK' /\ WorkersOK'
  <2>1. /\ api' = [api EXCEPT ![c] = NoRequest]
        /\ UNCHANGED <<worker, start, found, mixed, used, crashes>>
        /\ UNCHANGED <<row, queue>> \/ \E n : Sends(api[c], n)
    BY <1>6 DEF Posts
  <2>2. /\ api' \in [Controllers -> Requests] /\ api'[c] = NoRequest
        /\ \A d \in Controllers : d # c => api'[d] = api[d]
    BY <1>1, <1>2, <2>1
  <2>3. \A d \in Controllers : api'[d] = NoRequest \/ IsRequest(api'[d])
    BY <1>1, <2>2
  <2>4. row' \in Rows /\ \A m \in queue' : IsRequest(m)
    BY <1>1, <2>1 DEF Sends, WrittenDeploy
  <2>5. TypeOK'
    BY <1>1, <1>3, <2>1, <2>2, <2>4 DEF TypeOK
  <2>6. WorkersOK'
    BY <1>1, <2>1, <2>3, <2>4 DEF WorkersOK
  <2> QED BY <2>5, <2>6
<1>7. ASSUME NEW w \in Workers, NEW m \in queue, Takes(w, m) PROVE TypeOK' /\ WorkersOK'
  <2>1. /\ queue' \subseteq queue
        /\ UNCHANGED <<api, start, found, mixed, used, crashes>>
        /\ CameToNothing(m) \/ \E x : Began(w, m, x)
    BY <1>7 DEF Takes
  <2>2. /\ row' \in Rows /\ worker' \in [Workers -> WorkerRecords]
        /\ \A v \in Workers : IsWorker(worker'[v])
    <3>1. CASE CameToNothing(m)
      BY <1>1, <3>1 DEF CameToNothing
    <3>2. ASSUME NEW x, Began(w, m, x) PROVE <2>2!1 /\ <2>2!2
      <4>1. worker' = [worker EXCEPT ![w] = x] /\ IsWorker(x)
        BY <3>2 DEF Began
      <4>2. row' \in Rows
        BY <1>1, <3>2 DEF Began, WrittenDeploy
      <4> QED BY <4>1, <4>2, WorkerSet
    <3> QED BY <2>1, <3>1, <3>2
  <2>3. TypeOK'
    BY <1>1, <2>1, <2>2 DEF TypeOK
  <2>4. WorkersOK'
    BY <1>1, <2>1, <2>2 DEF WorkersOK
  <2> QED BY <2>3, <2>4
<1>8. ASSUME NEW w \in Workers, NEW x, WorkerSteps(w, x) PROVE TypeOK' /\ WorkersOK'
  <2>1. /\ UNCHANGED <<api, queue, start, found, mixed, used, crashes>>
        /\ worker' = [worker EXCEPT ![w] = x] /\ IsWorker(x)
    BY <1>8 DEF WorkerSteps, Goes
  <2>2. /\ row' \in Rows /\ worker' \in [Workers -> WorkerRecords]
        /\ \A v \in Workers : IsWorker(worker'[v])
    BY <1>8, <2>1, WorkerRow, WorkerSet
  <2>3. TypeOK'
    BY <1>1, <2>1, <2>2 DEF TypeOK
  <2>4. WorkersOK'
    BY <1>1, <2>1, <2>2 DEF WorkersOK
  <2> QED BY <2>3, <2>4
<1>9. ASSUME NEW w \in Workers, NEW x, Prepares(w, x) PROVE TypeOK' /\ WorkersOK'
  <2>1. /\ UNCHANGED <<row, api, queue, start, found, crashes>>
        /\ worker' = [worker EXCEPT ![w] = x] /\ IsWorker(x)
        /\ used' \in 0 .. MaxRequests
    BY <1>9 DEF Prepares
  <2>2. /\ worker' \in [Workers -> WorkerRecords]
        /\ \A v \in Workers : IsWorker(worker'[v])
    BY <2>1, WorkerSet
  <2>3. mixed' \in BOOLEAN
    BY <1>1, <1>4, <1>9 DEF Prepares
  <2>4. TypeOK'
    BY <1>1, <2>1, <2>2, <2>3 DEF TypeOK
  <2>5. WorkersOK'
    BY <1>1, <2>1, <2>2 DEF WorkersOK
  <2> QED BY <2>4, <2>5
<1>10. CASE Falls
  <2>1. /\ start' = "down" /\ crashes' \in 0 .. MaxCrashes
        /\ UNCHANGED <<row, found, mixed, used>>
        /\ worker' \in [Workers -> WorkerRecords]
        /\ \A w \in Workers : IsWorker(worker'[w])
    BY <1>1, <1>10, IdleIs DEF Falls
  <2>2. /\ queue' \subseteq queue /\ api' \in [Controllers -> Requests]
        /\ \A c \in Controllers : api'[c] = NoRequest \/ IsRequest(api'[c])
    BY <1>1, <1>2, <1>10 DEF Falls
  <2>3. TypeOK'
    BY <1>1, <2>1, <2>2 DEF TypeOK
  <2>4. WorkersOK'
    BY <1>1, <2>1, <2>2 DEF WorkersOK
  <2> QED BY <2>3, <2>4
<1>11. CASE Rises
  <2>1. /\ UNCHANGED <<row, api, queue, worker, mixed, used, crashes>>
        /\ start' \in {"serving", "repairing"} /\ found' \in Rows
    BY <1>1, <1>11 DEF Rises
  <2>2. TypeOK'
    BY <1>1, <2>1 DEF TypeOK
  <2>3. WorkersOK'
    BY <1>1, <2>1 DEF WorkersOK
  <2> QED BY <2>2, <2>3
<1>12. CASE Repairs
  <2>1. /\ UNCHANGED <<api, queue, worker, used, crashes>>
        /\ start' \in {"up", "down"} /\ found' \in Rows /\ row' \in Rows
    BY <1>1, <1>12, RowTyped DEF Repairs
  <2>2. mixed' \in BOOLEAN
    BY <1>1, <1>12, Zenon DEF Repairs
  <2>3. TypeOK'
    BY <1>1, <2>1, <2>2 DEF TypeOK
  <2>4. WorkersOK'
    BY <1>1, <2>1 DEF WorkersOK
  <2> QED BY <2>3, <2>4
<1>13. CASE Flips
  <2>1. /\ UNCHANGED <<api, queue, worker, start, found, mixed, used, crashes>>
        /\ row' \in Rows
    BY <1>13 DEF Flips
  <2>2. TypeOK'
    BY <1>1, <2>1 DEF TypeOK
  <2>3. WorkersOK'
    BY <1>1, <2>1 DEF WorkersOK
  <2> QED BY <2>2, <2>3
<1> QED BY Steps, <1>5, <1>6, <1>7, <1>8, <1>9, <1>10, <1>11, <1>12, <1>13

LEMMA RowExists ==
  ASSUME Numbered, NEW r, Exists, r.id = row.id
  PROVE  r # NoRow
BY DEF Numbered, NoRow

LEMMA NumberedKept ==
  ASSUME TypeOK, WorkersOK, Numbered, Next
  PROVE  Numbered'
<1>1. used \in Nat /\ (Exists => row.id # 0)
      /\ ((\E c \in Controllers : api[c] # NoRequest) => used # 0)
      /\ api \in [Controllers -> Requests]
  BY DEF Numbered, TypeOK
<1>2. CASE Asks
  <2>1. row' = row /\ used' = used + 1
    BY <1>2 DEF Asks
  <2> QED BY <1>1, <2>1 DEF Numbered, Exists
<1>3. ASSUME NEW c \in Controllers, Posts(c) PROVE Numbered'
  <2>1. /\ api[c] # NoRequest /\ api' = [api EXCEPT ![c] = NoRequest] /\ used' = used
    BY <1>3 DEF Posts
  <2>2. row' = row \/ row'.id = used \/ (row'.id = row.id /\ Exists)
    BY <1>3 DEF Posts, Sends, WrittenDeploy, Mine
  <2> QED BY <1>1, <2>1, <2>2 DEF Numbered, Exists
<1>4. ASSUME NEW w \in Workers, NEW m \in queue, Takes(w, m) PROVE Numbered'
  <2>1. /\ UNCHANGED <<api, used>>
        /\ row' = row \/ (row'.id = row.id /\ Exists)
    BY <1>4 DEF Takes, CameToNothing, Began, WrittenDeploy, Finds, Mine
  <2> QED BY <1>1, <2>1 DEF Numbered, Exists
<1>5. ASSUME NEW w \in Workers, NEW x, WorkerSteps(w, x) PROVE Numbered'
  <2>1. UNCHANGED <<api, used>>
    BY <1>5 DEF WorkerSteps
  <2> QED BY <1>1, <1>5, <2>1, WorkerRow DEF Numbered, Exists
<1>6. ASSUME NEW w \in Workers, NEW x, Prepares(w, x) PROVE Numbered'
  <2>1. row' = row /\ api' = api /\ used' \in Nat /\ used' >= used
    BY <1>6 DEF Prepares
  <2> QED BY <1>1, <2>1 DEF Numbered, Exists
<1>7. CASE Falls
  <2>1. UNCHANGED <<row, used>> /\ (api' = api \/ \A c \in Controllers : api'[c] = NoRequest)
    BY <1>7 DEF Falls
  <2> QED BY <1>1, <2>1 DEF Numbered, Exists
<1>8. CASE Rises \/ Repairs \/ Flips
  <2>1. UNCHANGED <<api, used>> /\ (row' = row \/ (row'.id = row.id /\ Exists))
    BY <1>8 DEF Rises, Repairs, Flips, Mine
  <2> QED BY <1>1, <2>1 DEF Numbered, Exists
<1> QED BY Steps, <1>2, <1>3, <1>4, <1>5, <1>6, <1>7, <1>8

\* What w does keeps a witness of the status when the status is over, when w
\* shows it afterwards, or when it is the same and w did not show it.
LEMMA WitnessStep ==
  ASSUME TypeOK, WorkersOK, Numbered, Witnessed, NEW w \in Workers, NEW x,
         worker' = [worker EXCEPT ![w] = x],
         UNCHANGED <<start, found>>,
         row' = NoRow \/ (row'.id = row.id /\ Exists),
         \A m \in queue \ queue' :
           ~(m.op \in {"add", "rehome"} \/ (m.op = "reinstall" /\ Mine(m))),
         \/ row' = NoRow
         \/ row'.deploy \notin Transitory
         \/ x.op \in DeployOps /\ x.id = row'.id /\ x.at = row'.deploy
         \/ /\ row'.deploy = row.deploy
            /\ ~(/\ worker[w].op \in DeployOps /\ Mine(worker[w])
                 /\ worker[w].at = row.deploy),
         \/ row' = NoRow
         \/ row'.backup \notin Transitory
         \/ x.op = "backup" /\ x.id = row'.id /\ x.at = row'.backup
         \/ /\ row'.backup = row.backup
            /\ ~(/\ worker[w].op = "backup" /\ Mine(worker[w])
                 /\ worker[w].at = row.backup)
  PROVE  Witnessed'
<1> SUFFICES ASSUME start \in {"repairing", "up"}, row' # NoRow
             PROVE  /\ row'.deploy \in Transitory =>
                         \/ DeployWitness'
                         \/ start = "repairing" /\ Mine(found)' /\ found.deploy = row'.deploy
                    /\ row'.backup \in Transitory =>
                         \/ BackupWitness'
                         \/ start = "repairing" /\ Mine(found)' /\ found.backup = row'.backup
  BY DEF Witnessed, Exists
<1>1. /\ row'.id = row.id /\ Exists
      /\ \A y : Mine(y) => row'.id = y.id
      /\ worker'[w] = x
      /\ \A v \in Workers : v # w => worker'[v] = worker[v]
  BY DEF WorkersOK, Mine
<1>2. ASSUME row'.deploy \in Transitory
      PROVE  \/ DeployWitness'
             \/ start = "repairing" /\ Mine(found)' /\ found.deploy = row'.deploy
  <2>1. CASE x.op \in DeployOps /\ x.id = row'.id /\ x.at = row'.deploy
    BY <1>1, <2>1 DEF DeployWitness, Mine, Exists
  <2>2. CASE /\ row'.deploy = row.deploy
             /\ ~(/\ worker[w].op \in DeployOps /\ Mine(worker[w])
                  /\ worker[w].at = row.deploy)
    <3>1. CASE start = "repairing" /\ Mine(found) /\ found.deploy = row.deploy
      BY <1>1, <2>2, <3>1 DEF Mine, Exists
    <3>2. CASE \E v \in Workers : /\ worker[v].op \in DeployOps /\ Mine(worker[v])
                                  /\ worker[v].at = row.deploy
      <4>1. PICK v \in Workers : /\ worker[v].op \in DeployOps /\ Mine(worker[v])
                                 /\ worker[v].at = row.deploy
        BY <3>2
      <4>2. v # w /\ worker'[v] = worker[v]
        BY <1>1, <2>2, <4>1
      <4> QED BY <1>1, <2>2, <4>1, <4>2 DEF DeployWitness, Mine, Exists
    <3>3. CASE \E m \in queue : m.op \in {"add", "rehome"} /\ row.deploy = "not-deployed"
      BY <2>2, <3>3 DEF DeployWitness
    <3>4. CASE \E m \in queue : m.op = "reinstall" /\ Mine(m) /\ row.deploy = "pre-install"
      <4>1. PICK m \in queue : m.op = "reinstall" /\ Mine(m) /\ row.deploy = "pre-install"
        BY <3>4
      <4>2. m \in queue' /\ row'.id = m.id
        BY <1>1, <4>1
      <4> QED BY <2>2, <4>1, <4>2 DEF DeployWitness, Mine, Exists
    <3> QED BY <1>1, <1>2, <2>2, <3>1, <3>2, <3>3, <3>4 DEF Witnessed, DeployWitness
  <2> QED BY <1>2, <2>1, <2>2
<1>3. ASSUME row'.backup \in Transitory
      PROVE  \/ BackupWitness'
             \/ start = "repairing" /\ Mine(found)' /\ found.backup = row'.backup
  <2>1. CASE x.op = "backup" /\ x.id = row'.id /\ x.at = row'.backup
    BY <1>1, <2>1 DEF BackupWitness, Mine, Exists
  <2>2. CASE /\ row'.backup = row.backup
             /\ ~(/\ worker[w].op = "backup" /\ Mine(worker[w])
                  /\ worker[w].at = row.backup)
    <3>1. CASE start = "repairing" /\ Mine(found) /\ found.backup = row.backup
      BY <1>1, <2>2, <3>1 DEF Mine, Exists
    <3>2. CASE \E v \in Workers : /\ worker[v].op = "backup" /\ Mine(worker[v])
                                  /\ worker[v].at = row.backup
      <4>1. PICK v \in Workers : /\ worker[v].op = "backup" /\ Mine(worker[v])
                                 /\ worker[v].at = row.backup
        BY <3>2
      <4>2. v # w /\ worker'[v] = worker[v]
        BY <1>1, <2>2, <4>1
      <4> QED BY <1>1, <2>2, <4>1, <4>2 DEF BackupWitness, Mine, Exists
    <3> QED BY <1>1, <1>3, <2>2, <3>1, <3>2 DEF Witnessed, BackupWitness
  <2> QED BY <1>3, <2>1, <2>2
<1> QED BY <1>2, <1>3

\* A worker that does nothing, or shows nothing transitory, is no witness.
LEMMA NoWitness ==
  ASSUME TypeOK, NEW y, y.op = "none" \/ y.at \notin Transitory
  PROVE  /\ row.deploy \in Transitory =>
              ~(y.op \in DeployOps /\ Mine(y) /\ y.at = row.deploy)
         /\ row.backup \in Transitory =>
              ~(y.op = "backup" /\ Mine(y) /\ y.at = row.backup)
<1>1. "none" \notin DeployOps
  BY DEF DeployOps, Strategies
<1> QED BY <1>1

LEMMA WitnessKept ==
  ASSUME TypeOK, WorkersOK, Numbered, Witnessed, Next
  PROVE  Witnessed'
<1>1. worker \in [Workers -> WorkerRecords]
  BY DEF WorkersOK
<1>2. CASE Asks
  <2>1. UNCHANGED <<row, queue, worker, start, found>>
    BY <1>2 DEF Asks
  <2> QED BY <2>1 DEF Witnessed, DeployWitness, BackupWitness, Mine, Exists
<1>3. ASSUME NEW c \in Controllers, Posts(c) PROVE Witnessed'
  <2>1. UNCHANGED <<worker, start, found>>
    BY <1>3 DEF Posts
  <2>2. CASE UNCHANGED <<row, queue>>
    BY <2>1, <2>2 DEF Witnessed, DeployWitness, BackupWitness, Mine, Exists
  <2>3. ASSUME NEW n, Sends(api[c], n) PROVE Witnessed'
    <3>1. queue \subseteq queue' /\ n \in queue' /\ n.op = api[c].op /\ n.id = row'.id
      BY <2>3 DEF Sends
    <3>2. CASE api[c].op \in {"add", "rehome"}
      <4>1. row'.deploy = "not-deployed" /\ row'.backup = "unknown"
        BY <2>3, <3>2 DEF Sends
      <4>2. DeployWitness'
        BY <3>1, <3>2, <4>1 DEF DeployWitness
      <4>3. "unknown" \notin Transitory
        BY TransitoryIs DEF PrestageStates
      <4> QED BY <4>1, <4>2, <4>3 DEF Witnessed
    <3>3. CASE api[c].op = "reinstall"
      <4>1. /\ row'.id = row.id /\ row'.deploy = "pre-install" /\ Mine(api[c])
            /\ row'.backup = row.backup
        BY <2>3, <3>3 DEF Sends
      <4>2. row' # NoRow /\ Exists
        BY <4>1, RowExists DEF Mine
      <4>3. DeployWitness'
        BY <3>1, <3>3, <4>1, <4>2 DEF DeployWitness, Mine, Exists
      <4>4. BackupWitness => BackupWitness'
        BY <2>1, <4>1, <4>2 DEF BackupWitness, Mine, Exists
      <4>5. Mine(found) => Mine(found)'
        BY <2>1, <4>1, <4>2 DEF Mine, Exists
      <4> QED BY <2>1, <4>1, <4>2, <4>3, <4>4, <4>5 DEF Witnessed
    <3>4. CASE api[c].op = "network"
      <4>1. /\ row'.id = row.id /\ row'.deploy = "reconfiguring-network" /\ Mine(api[c])
            /\ row'.backup = row.backup
        BY <2>3, <3>4 DEF Sends, WrittenDeploy
      <4>2. row' # NoRow /\ Exists
        BY <4>1, RowExists DEF Mine
      <4>3. row'.deploy \notin Transitory
        BY <4>1, TransitoryIs DEF PrestageStates
      <4>4. BackupWitness => BackupWitness'
        BY <2>1, <4>1, <4>2 DEF BackupWitness, Mine, Exists
      <4>5. Mine(found) => Mine(found)'
        BY <2>1, <4>1, <4>2 DEF Mine, Exists
      <4> QED BY <2>1, <4>1, <4>2, <4>3, <4>4, <4>5 DEF Witnessed
    <3>5. CASE api[c].op \notin {"add", "rehome", "reinstall", "network"}
      <4>1. row' = row
        BY <2>3, <3>5 DEF Sends
      <4> QED BY <2>1, <3>1, <4>1 DEF Witnessed, DeployWitness, BackupWitness, Mine, Exists
    <3> QED BY <3>2, <3>3, <3>4, <3>5
  <2> QED BY <1>3, <2>2, <2>3 DEF Posts
<1>4. ASSUME NEW w \in Workers, NEW m \in queue, Takes(w, m) PROVE Witnessed'
  <2>1. /\ UNCHANGED <<start, found>> /\ queue' = queue \ {m} /\ worker[w] = Idle
    BY <1>4 DEF Takes
  <2>2. worker[w].op = "none"
    BY <2>1, IdleIs
  <2>3. CASE CameToNothing(m)
    <3>1. CASE Exists
      <4>1. worker' = [worker EXCEPT ![w] = Idle] /\ row' = row
        BY <1>1, <2>1, <2>3 DEF CameToNothing
      <4>2. ~(m.op \in {"add", "rehome"} \/ (m.op = "reinstall" /\ Mine(m)))
        BY <2>3, <3>1 DEF CameToNothing
      <4>3. \A n \in queue \ queue' : n = m
        BY <2>1
      <4>4. \A n \in queue \ queue' :
              ~(n.op \in {"add", "rehome"} \/ (n.op = "reinstall" /\ Mine(n)))
        BY <4>2, <4>3
      <4> QED BY <2>1, <2>2, <3>1, <4>1, <4>4, NoWitness, WitnessStep
    <3>2. CASE ~Exists
      BY <2>3, <3>2 DEF CameToNothing, Witnessed, Exists
    <3> QED BY <3>1, <3>2
  <2>4. ASSUME NEW x, Began(w, m, x) PROVE Witnessed'
    <3>1. /\ worker' = [worker EXCEPT ![w] = x] /\ x.op = m.op /\ x.id = row.id
          /\ Finds(m)
      BY <2>4 DEF Began
    <3>2. Exists
      BY <3>1 DEF Finds, Mine
    <3>3. \A n \in queue \ queue' : n = m
      BY <2>1
    <3>4. CASE row' = row /\ m.op \notin {"add", "rehome", "reinstall"}
      BY <2>1, <2>2, <3>1, <3>2, <3>3, <3>4, NoWitness, WitnessStep
    <3>5. CASE m.op \in PlainOps /\ WrittenDeploy(x.at)
      <4>1. /\ row'.id = row.id /\ row'.deploy = x.at /\ row'.backup = row.backup
            /\ x.op \in DeployOps
        BY <3>1, <3>5 DEF WrittenDeploy, PlainOps
      <4>2. row' # NoRow
        BY <3>2, <4>1, RowExists
      <4>3. ASSUME row'.deploy \in Transitory PROVE DeployWitness'
        <5>1. worker'[w] = x
          BY <1>1, <3>1
        <5> QED BY <3>1, <4>1, <4>2, <5>1 DEF DeployWitness, Mine, Exists
      <4>4. BackupWitness => BackupWitness'
        <5>1. \A v \in Workers : worker[v].op = "backup" => worker'[v] = worker[v]
          BY <1>1, <2>2, <3>1
        <5> QED BY <4>1, <4>2, <5>1 DEF BackupWitness, Mine, Exists
      <4>5. Mine(found) => Mine(found)'
        BY <2>1, <4>1, <4>2 DEF Mine, Exists
      <4> QED BY <2>1, <3>2, <4>1, <4>2, <4>3, <4>4, <4>5 DEF Witnessed
    <3> QED BY <2>4, <3>4, <3>5 DEF Began
  <2> QED BY <1>4, <2>3, <2>4 DEF Takes
<1>5. ASSUME NEW w \in Workers, NEW x, WorkerSteps(w, x) PROVE Witnessed'
  <2>1. /\ worker' = [worker EXCEPT ![w] = x] /\ UNCHANGED <<queue, start, found>>
        /\ x = Idle \/ (x.op = worker[w].op /\ x.id = worker[w].id)
    BY <1>5 DEF WorkerSteps, Goes
  <2>2. \A m \in queue \ queue' :
          ~(m.op \in {"add", "rehome"} \/ (m.op = "reinstall" /\ Mine(m)))
    BY <2>1
  <2>3. CASE ~Exists
    <3>1. row' = row
      BY <1>5, <2>3 DEF WorkerSteps, Mine
    <3> QED BY <2>3, <3>1 DEF Witnessed, Exists
  <2>4. CASE Exists /\ row' = row /\ (~Mine(worker[w]) \/ worker[w].at \notin Transitory)
    BY <2>1, <2>2, <2>4, NoWitness, WitnessStep
  <2>5. CASE Mine(worker[w]) /\ WritesDeploy(w, x)
    <3>1. PICK s : /\ WrittenDeploy(s)
                   /\ (x = Idle /\ s \notin Transitory) \/ (x # Idle /\ x.at = s)
      BY <2>5 DEF WritesDeploy
    <3>2. worker[w].op \in DeployOps /\ worker[w].op # "backup"
      BY <2>5 DEF WritesDeploy, DeployOps, Strategies
    <3>3. /\ row'.deploy = s /\ row'.backup = row.backup /\ row'.id = row.id
          /\ Exists /\ row.id = worker[w].id
      BY <2>5, <3>1 DEF WrittenDeploy, Mine
    <3> QED BY <2>1, <2>2, <3>1, <3>2, <3>3, WitnessStep
  <2>6. CASE Mine(worker[w]) /\ WritesBackup(w, x)
    <3>1. PICK s : /\ WrittenBackup(s)
                   /\ \/ x = Idle /\ s \notin Transitory
                      \/ worker[w].op = "backup" /\ x # Idle /\ x.at = s
      BY <2>6 DEF WritesBackup
    <3>2. worker[w].op \notin DeployOps
      BY <2>6 DEF WritesBackup, DeployOps, Strategies
    <3>3. /\ row'.backup = s /\ row'.deploy = row.deploy /\ row'.id = row.id
          /\ Exists /\ row.id = worker[w].id
      BY <2>6, <3>1 DEF WrittenBackup, Mine
    <3> QED BY <2>1, <2>2, <3>1, <3>2, <3>3, WitnessStep
  <2>7. CASE Mine(worker[w]) /\ WritesManagement(w)
    <3>1. worker[w].op \notin DeployOps /\ worker[w].op # "backup"
      BY <2>7 DEF WritesManagement, DeployOps, Strategies
    <3>2. /\ row'.backup = row.backup /\ row'.deploy = row.deploy /\ row'.id = row.id
          /\ Exists
      BY <2>7 DEF WritesManagement, WrittenManagement, Mine
    <3> QED BY <2>1, <2>2, <3>1, <3>2, WitnessStep
  <2>8. CASE Mine(worker[w]) /\ Deletes(w, x)
    BY <2>8 DEF Deletes, Witnessed, Exists
  <2> QED BY <1>5, <2>3, <2>4, <2>5, <2>6, <2>7, <2>8 DEF WorkerSteps
<1>6. ASSUME NEW w \in Workers, NEW x, Prepares(w, x) PROVE Witnessed'
  <2>1. /\ worker' = [worker EXCEPT ![w] = x] /\ UNCHANGED <<row, queue, start, found>>
        /\ worker[w] = Idle \/ worker[w].at = "waiting"
    BY <1>6 DEF Prepares
  <2>2. worker[w].op = "none" \/ worker[w].at \notin Transitory
    BY <2>1, IdleIs, TransitoryIs DEF PrestageStates
  <2>3. CASE Exists
    BY <2>1, <2>2, <2>3, NoWitness, WitnessStep
  <2>4. CASE ~Exists
    BY <2>1, <2>4 DEF Witnessed, Exists
  <2> QED BY <2>3, <2>4
<1>7. CASE Falls
  BY <1>7 DEF Falls, Witnessed
<1>8. CASE Rises
  <2>1. row' = row /\ (start' = "serving" \/ (start' = "repairing" /\ found' = row))
    BY <1>8 DEF Rises
  <2> QED BY <2>1 DEF Witnessed, Mine, Exists
<1>9. CASE Repairs
  <2>1. UNCHANGED <<queue, worker>> /\ start = "repairing" /\ start' \in {"up", "down"}
    BY <1>9 DEF Repairs
  <2>2. CASE row'.deploy \notin Transitory /\ row'.backup \notin Transitory
    BY <2>2 DEF Witnessed
  <2>3. CASE /\ row' = row /\ start' = "up"
             /\ found = NoRow \/ {found.deploy, found.backup} \cap Transitory = {}
    <3>1. Mine(found) => found # NoRow
      BY DEF Mine, Numbered, NoRow
    <3> QED BY <2>1, <2>3, <3>1 DEF Witnessed, DeployWitness, BackupWitness, Mine, Exists
  <2>4. CASE start' = "down"
    BY <2>4 DEF Witnessed
  <2> QED BY <1>9, <2>1, <2>2, <2>3, <2>4 DEF Repairs
<1>10. CASE Flips
  <2>1. /\ Exists /\ row'.id = row.id
        /\ row'.deploy = row.deploy /\ row'.backup = row.backup
        /\ UNCHANGED <<queue, worker, start, found>>
    BY <1>10 DEF Flips
  <2> QED BY <2>1 DEF Witnessed, DeployWitness, BackupWitness, Mine, Exists
<1> QED BY Steps, <1>2, <1>3, <1>4, <1>5, <1>6, <1>7, <1>8, <1>9, <1>10

(***************************************************************************)
(* Work that nothing was asked for beside it                               *)
(***************************************************************************)

\* Nothing is at work and nothing is asked for while the row shows nothing.
LEMMA Quiet ==
  ASSUME WorkersOK, Alone, ~mixed, ~Pending
  PROVE  ~Asked /\ \A w \in Workers : ~Active(w)
<1>1. ~Asked
  BY DEF Pending
<1>2. ASSUME NEW w \in Workers, Active(w) PROVE FALSE
  <2>1. /\ worker[w] # Idle
        /\ worker[w].op \notin Answered \cup Strategies /\ worker[w].at # "taken"
    BY <1>2 DEF Active, Pending
  <2>2. Shows(w)
    BY <1>2 DEF Alone
  <2>3. worker[w].op \in PlainOps \/ worker[w].op = "backup"
    BY <2>1, WorkerParts, OpsAre
  <2>4. CASE worker[w].op \in PlainOps
    <3>1. worker[w].at \in Busy /\ worker[w].at = row.deploy /\ Exists
      BY <2>1, <2>2, <2>4, WorkerParts, StatesApart DEF IsAt, Shows, Mine
    <3> QED BY <3>1 DEF Pending
  <2>5. CASE worker[w].op = "backup"
    <3>1. worker[w].at \in Busy /\ worker[w].at = row.backup /\ Exists
      BY <2>1, <2>2, <2>5, WorkerParts, StatesApart DEF IsAt, Shows, Mine
    <3> QED BY <3>1 DEF Pending
  <2> QED BY <2>3, <2>4, <2>5
<1> QED BY <1>1, <1>2

NobodyAsks == queue = {} /\ \A c \in Controllers : api[c] = NoRequest

LEMMA NobodyAsksIs == Asked <=> ~NobodyAsks
BY DEF Asked, NobodyAsks

\* At most one is at work, which shows, and nothing is asked for.
LEMMA AloneOne ==
  ASSUME NobodyAsks', NEW w,
         \A v \in Workers : v # w => ~Active(v)',
         w \in Workers /\ Active(w)' =>
            Shows(w)' /\ (worker'[w].op \in TakesDown => row'.management # "managed")
  PROVE  Alone'
<1>1. NoRequest.op # "network" /\ ~Asked'
  BY DEF NoRequest, NobodyAsks, Asked
<1>2. OneAtATime'
  BY <1>1 DEF OneAtATime, NobodyAsks
<1> QED BY <1>1, <1>2 DEF Alone, NobodyAsks, Managed

\* Nobody is at work anew, and the row shows the same.
LEMMA AloneFewer ==
  ASSUME WorkersOK, Alone, mixed' = mixed,
         \A w \in Workers : worker'[w] = worker[w] \/ ~Active(w)',
         queue' \subseteq queue,
         \A c \in Controllers : api'[c] \in {api[c], NoRequest},
         row' = row \/ /\ row'.id = row.id /\ row'.deploy = row.deploy
                       /\ row'.backup = row.backup /\ row'.management = row.management
                       /\ Exists /\ Exists'
  PROVE  Alone'
<1> SUFFICES ASSUME ~mixed PROVE
         /\ OneAtATime'
         /\ \A w \in Workers : Active(w)' => Shows(w)'
         /\ \A w \in Workers : Active(w)' /\ worker'[w].op \in TakesDown => ~Managed'
         /\ \A c \in Controllers : api'[c].op = "network" /\ Mine(api[c])' => ~Managed'
         /\ \A m \in queue' :
              /\ m.op \in {"add", "rehome", "reinstall", "network"} /\ Finds(m)' => ~Managed'
              /\ m.op = "network" /\ Mine(m)' => row'.deploy = "reconfiguring-network"
  BY DEF Alone
<1>1. \A y : (Exists' /\ row'.id = y.id) <=> Mine(y)
  BY DEF Mine, Exists
<1>2. /\ Managed' = Managed /\ row'.deploy = row.deploy /\ row'.backup = row.backup
      /\ Exists' = Exists
  BY DEF Managed, Exists
<1>3. \A w \in Workers : Active(w)' => worker'[w] = worker[w] /\ Active(w)
  BY DEF Active
<1>4. OneAtATime'
  <2>1. OneAtATime
    BY DEF Alone
  <2>2. Asked' => Asked
    BY DEF Asked
  <2> QED BY <1>3, <2>1, <2>2 DEF OneAtATime
<1>5. ASSUME NEW w \in Workers, Active(w)'
      PROVE  Shows(w)' /\ (worker'[w].op \in TakesDown => ~Managed')
  BY <1>1, <1>2, <1>3, <1>5 DEF Alone, Shows, Mine
<1>6. ASSUME NEW c \in Controllers, api'[c].op = "network", Mine(api[c])' PROVE ~Managed'
  <2>1. NoRequest.op # "network"
    BY DEF NoRequest
  <2> QED BY <1>1, <1>2, <1>6, <2>1 DEF Alone, Mine
<1>7. ASSUME NEW m \in queue'
      PROVE  /\ m.op \in {"add", "rehome", "reinstall", "network"} /\ Finds(m)' => ~Managed'
             /\ m.op = "network" /\ Mine(m)' => row'.deploy = "reconfiguring-network"
  <2>1. Mine(m)' = Mine(m) /\ Finds(m)' = Finds(m)
    BY <1>1, <1>2 DEF Finds, Mine
  <2> QED BY <1>2, <2>1 DEF Alone
<1> QED BY <1>4, <1>5, <1>6, <1>7

LEMMA AloneKept ==
  ASSUME TypeOK, WorkersOK, Numbered, Alone, Next
  PROVE  Alone'
<1>1. /\ worker \in [Workers -> WorkerRecords] /\ api \in [Controllers -> Requests]
      /\ \A w \in Workers : Active(w) => worker[w] # Idle
  BY DEF WorkersOK, TypeOK, Active
<1>2. ASSUME Mixes, ~mixed' PROVE ~mixed /\ NobodyAsks /\ \A w \in Workers : ~Active(w)
  <2>1. ~mixed /\ ~Pending
    BY <1>2, Zenon DEF Mixes
  <2> QED BY <2>1, Quiet, NobodyAsksIs
<1>3. CASE Asks
  <2> SUFFICES ASSUME ~mixed' PROVE Alone'
    BY DEF Alone
  <2>1. PICK c \in Controllers :
          \E m : /\ api[c] = NoRequest /\ api' = [api EXCEPT ![c] = m]
                 /\ (m.op = "network" => ~Managed)
    BY <1>3 DEF Asks
  <2> PICK m : /\ api[c] = NoRequest /\ api' = [api EXCEPT ![c] = m]
               /\ (m.op = "network" => ~Managed)
    BY <2>1
  <2>2. NobodyAsks /\ \A w \in Workers : ~Active(w)
    BY <1>2, <1>3 DEF Asks
  <2>3. UNCHANGED <<row, queue, worker>>
    BY <1>3 DEF Asks
  <2>4. /\ queue' = {} /\ \A w \in Workers : ~Active(w)'
        /\ \A d \in Controllers : d # c => api'[d] = NoRequest
        /\ api'[c] = m
    BY <1>1, <2>2, <2>3 DEF NobodyAsks, Active
  <2>5. OneAtATime'
    BY <2>4 DEF OneAtATime
  <2>6. NoRequest.op # "network"
    BY DEF NoRequest
  <2> QED BY <2>3, <2>4, <2>5, <2>6 DEF Alone, Managed
<1>4. ASSUME NEW c \in Controllers, Posts(c) PROVE Alone'
  <2>1. /\ api[c] # NoRequest /\ api' = [api EXCEPT ![c] = NoRequest]
        /\ UNCHANGED <<worker, mixed>>
        /\ UNCHANGED <<row, queue>> \/ \E n : Sends(api[c], n)
    BY <1>4 DEF Posts
  <2> SUFFICES ASSUME ~mixed PROVE Alone'
    BY <2>1 DEF Alone
  <2>2. /\ queue = {} /\ \A w \in Workers : ~Active(w)
        /\ \A d \in Controllers : d # c => api[d] = NoRequest
    BY <2>1 DEF Alone, OneAtATime, Asked
  <2>3. \A d \in Controllers : api'[d] = NoRequest
    BY <1>1, <2>1, <2>2
  <2>4. \A w \in Workers : ~Active(w)'
    BY <2>1, <2>2 DEF Active
  <2>5. CASE UNCHANGED <<row, queue>>
    BY <2>2, <2>3, <2>4, <2>5, AloneOne DEF NobodyAsks
  <2>6. ASSUME NEW n, Sends(api[c], n) PROVE Alone'
    <3>1. queue' = {n} /\ n.op = api[c].op /\ n.id = row'.id
      BY <2>2, <2>6 DEF Sends
    <3>2. OneAtATime'
      BY <2>3, <2>4, <3>1 DEF OneAtATime
    <3>3. /\ n.op \in {"add", "rehome", "reinstall", "network"} => row'.management # "managed"
          /\ n.op = "network" => row'.deploy = "reconfiguring-network"
      <4>1. CASE n.op \in {"add", "rehome", "reinstall"}
        BY <2>6, <3>1, <4>1 DEF Sends
      <4>2. CASE n.op = "network"
        BY <2>6, <3>1, <4>2 DEF Sends, WrittenDeploy, Alone, Managed
      <4> QED BY <4>1, <4>2
    <3>4. NoRequest.op # "network"
      BY DEF NoRequest
    <3> QED BY <2>3, <2>4, <3>1, <3>2, <3>3, <3>4 DEF Alone, Managed
  <2> QED BY <2>1, <2>5, <2>6
<1>5. ASSUME NEW w \in Workers, NEW m \in queue, Takes(w, m) PROVE Alone'
  <2>1. /\ UNCHANGED <<api, mixed>> /\ queue' = queue \ {m}
        /\ CameToNothing(m) \/ \E x : Began(w, m, x)
    BY <1>5 DEF Takes
  <2>2. CASE CameToNothing(m)
    BY <2>1, <2>2, AloneFewer DEF CameToNothing
  <2>3. ASSUME NEW x, Began(w, m, x) PROVE Alone'
    <3> SUFFICES ASSUME ~mixed PROVE Alone'
      BY <2>1 DEF Alone
    <3>1. /\ worker' = [worker EXCEPT ![w] = x] /\ x.op = m.op /\ x.id = row.id
          /\ Finds(m)
      BY <2>3 DEF Began
    <3>2. worker'[w] = x /\ \A v \in Workers : v # w => worker'[v] = worker[v]
      BY <1>1, <3>1
    <3>3. NobodyAsks' /\ \A v \in Workers : ~Active(v)
      BY <2>1 DEF Alone, OneAtATime, Asked, NobodyAsks
    <3>4. Exists
      BY <3>1 DEF Finds, Mine
    <3>5. row' = row \/ (m.op \in PlainOps /\ WrittenDeploy(x.at))
      BY <2>3 DEF Began
    <3>6. row'.id = row.id /\ row'.management = row.management
      BY <3>5 DEF WrittenDeploy
    <3>7. Mine(worker[w])'
      <4>1. row' # NoRow
        BY <3>4, <3>6, RowExists
      <4> QED BY <3>1, <3>2, <3>6, <4>1 DEF Mine, Exists
    <3>8. /\ m.op \in {"add", "rehome", "reinstall", "network"} => ~Managed
          /\ m.op = "network" => row.deploy = "reconfiguring-network"
      BY <3>1 DEF Alone, Finds
    <3>9. \/ x.at = "taken"
          \/ m.op \in PlainOps /\ row'.deploy = x.at
      <4>1. CASE m.op = "network" /\ x.at = "reconfiguring-network" /\ row' = row
        BY <3>8, <4>1, OpsAre
      <4> QED BY <2>3, <4>1 DEF Began, WrittenDeploy
    <3>10. "backup" \notin PlainOps
      BY OpsAre
    <3>11. Shows(w)'
      BY <3>1, <3>2, <3>7, <3>9, <3>10 DEF Shows
    <3>12. m.op \in TakesDown => row'.management # "managed"
      BY <2>3, <3>6, <3>8 DEF TakesDown, Began, Managed
    <3>13. \A v \in Workers : v # w => ~Active(v)'
      BY <3>2, <3>3 DEF Active
    <3> QED BY <3>1, <3>2, <3>3, <3>11, <3>12, <3>13, AloneOne
  <2> QED BY <2>1, <2>2, <2>3
<1>6. ASSUME NEW w \in Workers, NEW x, WorkerSteps(w, x) PROVE Alone'
  <2>1. /\ worker' = [worker EXCEPT ![w] = x] /\ UNCHANGED <<api, queue, mixed>>
        /\ Active(w)
        /\ x = Idle \/ (x # Idle /\ x.op = worker[w].op /\ x.id = worker[w].id)
    BY <1>6 DEF WorkerSteps, Goes
  <2> SUFFICES ASSUME ~mixed PROVE Alone'
    BY <2>1 DEF Alone
  <2>2. worker'[w] = x /\ \A v \in Workers : v # w => worker'[v] = worker[v]
    BY <1>1, <2>1
  <2>3. NobodyAsks' /\ \A v \in Workers : v # w => ~Active(v)'
    BY <2>1, <2>2, NobodyAsksIs DEF Alone, OneAtATime, Active, NobodyAsks
  <2>4. CASE x = Idle
    BY <2>2, <2>3, <2>4, AloneOne DEF Active
  <2>5. CASE x # Idle
    <3>1. Mine(worker[w]) /\ (worker[w].op \in TakesDown => ~Managed)
      BY <2>1 DEF Alone, Shows
    <3>2. /\ row'.id = row.id
          /\ x.op \in PlainOps => x.at = row'.deploy
          /\ x.op = "backup" => x.at = row'.backup
          /\ x.op \in TakesDown => row'.management = row.management
      <4>1. CASE WritesDeploy(w, x)
        <5>1. worker[w].op # "backup"
          BY <4>1 DEF WritesDeploy, DeployOps, Strategies
        <5> QED BY <2>1, <2>5, <4>1, <5>1 DEF WritesDeploy, WrittenDeploy
      <4>2. CASE WritesBackup(w, x)
        <5>1. worker[w].op \notin PlainOps
          BY <4>2, OpsAre DEF WritesBackup
        <5> QED BY <2>1, <2>5, <4>2, <5>1 DEF WritesBackup, WrittenBackup
      <4>3. CASE WritesManagement(w)
        <5>1. worker[w].op \notin PlainOps \cup TakesDown \cup {"backup"}
          BY <4>3, OpsAre DEF WritesManagement, TakesDown
        <5> QED BY <2>1, <2>5, <4>3, <5>1 DEF WritesManagement, WrittenManagement
      <4> QED BY <1>6, <2>5, <4>1, <4>2, <4>3 DEF WorkerSteps, Deletes
    <3>3. row' # NoRow
      BY <3>1, <3>2, RowExists DEF Mine
    <3>4. Shows(w)'
      BY <2>1, <2>2, <2>5, <3>1, <3>2, <3>3 DEF Shows, Mine, Exists
    <3>5. x.op \in TakesDown => row'.management # "managed"
      BY <2>1, <2>5, <3>1, <3>2 DEF Managed
    <3> QED BY <2>2, <2>3, <3>4, <3>5, AloneOne
  <2> QED BY <2>4, <2>5
<1>7. ASSUME NEW w \in Workers, NEW x, Prepares(w, x) PROVE Alone'
  <2>1. worker' = [worker EXCEPT ![w] = x] /\ UNCHANGED <<row, api, queue>>
    BY <1>7 DEF Prepares
  <2>2. worker'[w] = x /\ \A v \in Workers : v # w => worker'[v] = worker[v]
    BY <1>1, <2>1
  <2>3. CASE x.at = "waiting" /\ mixed' = mixed
    <3>1. ~Active(w)'
      BY <2>2, <2>3 DEF Active
    <3> QED BY <2>1, <2>2, <2>3, <3>1, AloneFewer
  <2>4. CASE Mixes /\ (x = Idle \/ (Exists /\ x.id = row.id /\ x.op \in Strategies))
    <3> SUFFICES ASSUME ~mixed' PROVE Alone'
      BY DEF Alone
    <3>1. NobodyAsks /\ \A v \in Workers : ~Active(v)
      BY <1>2, <2>4
    <3>2. NobodyAsks' /\ \A v \in Workers : v # w => ~Active(v)'
      BY <2>1, <2>2, <3>1 DEF NobodyAsks, Active
    <3>3. CASE x = Idle
      BY <2>2, <3>2, <3>3, AloneOne DEF Active
    <3>4. CASE Exists /\ x.id = row.id /\ x.op \in Strategies
      <4>1. x.op \notin PlainOps \cup TakesDown \cup {"backup"}
        BY <3>4, OpsAre DEF Strategies, TakesDown
      <4>2. Shows(w)'
        BY <2>1, <2>2, <3>4, <4>1 DEF Shows, Mine, Exists
      <4> QED BY <2>2, <3>2, <4>1, <4>2, AloneOne
    <3> QED BY <2>4, <3>3, <3>4
  <2> QED BY <1>7, <2>3, <2>4 DEF Prepares
<1>8. CASE Falls
  <2>1. /\ UNCHANGED <<row, mixed>> /\ queue' \subseteq queue
        /\ \A c \in Controllers : api'[c] \in {api[c], NoRequest}
        /\ \A w \in Workers : worker'[w] = worker[w] \/ ~Active(w)'
    BY <1>8 DEF Falls, Active
  <2> QED BY <2>1, AloneFewer
<1>9. CASE Rises
  BY <1>9, AloneFewer DEF Rises
<1>10. CASE Repairs
  <2>1. UNCHANGED <<api, queue, worker>>
    BY <1>10 DEF Repairs
  <2>2. CASE UNCHANGED <<row, mixed>>
    BY <2>1, <2>2, AloneFewer
  <2>3. CASE mixed' = (mixed \/ Asked \/ \E w \in Workers : Active(w))
    <3> SUFFICES ASSUME ~mixed' PROVE Alone'
      BY DEF Alone
    <3>1. NobodyAsks /\ \A w \in Workers : ~Active(w)
      BY <2>3, NobodyAsksIs, Zenon
    <3>2. NobodyAsks' /\ \A w \in Workers : ~Active(w)'
      BY <2>1, <3>1 DEF NobodyAsks, Active
    <3> QED BY <3>2, AloneOne
  <2> QED BY <1>10, <2>2, <2>3 DEF Repairs
<1>11. CASE Flips
  <2>1. /\ Exists /\ row'.id = row.id /\ row'.management = row.management
        /\ row'.deploy = row.deploy /\ row'.backup = row.backup
        /\ UNCHANGED <<api, queue, worker, mixed>>
    BY <1>11 DEF Flips
  <2>2. Exists'
    BY <2>1, RowExists DEF Exists
  <2> QED BY <2>1, <2>2, AloneFewer
<1> QED BY Steps, <1>3, <1>4, <1>5, <1>6, <1>7, <1>8, <1>9, <1>10, <1>11

(***************************************************************************)
(* The theorems                                                            *)
(***************************************************************************)

LEMMA InvInit == Init => IInv
<1> SUFFICES ASSUME Init PROVE IInv
  OBVIOUS
<1>1. /\ api = [c \in Controllers |-> NoRequest] /\ queue = {}
      /\ worker = [w \in Workers |-> Idle] /\ start = "up" /\ found = NoRow
      /\ mixed = FALSE /\ used = 0 /\ crashes = 0
  BY DEF Init
<1>2. /\ row \in Rows /\ (row # NoRow => row.id # 0)
      /\ row.deploy = "complete" /\ row.backup = "unknown"
  <2>1. "complete" \in DeployStates /\ "unknown" \in BackupStates
    BY DEF DeployStates, BackupStates
  <2>2. MaxRequests + 1 \in 0 .. MaxRequests + 1 /\ MaxRequests + 1 # 0
        /\ 0 \in 0 .. MaxRequests + 1
    BY ConstantsAssumption
  <2>3. CASE row = NoRow
    BY <2>1, <2>2, <2>3 DEF NoRow, Rows
  <2>4. CASE row = Deployed("unmanaged", "offline") \/ row = Deployed("managed", "online")
    BY <2>1, <2>2, <2>4 DEF Deployed, NoRow, Rows
  <2> QED BY <2>3, <2>4 DEF Init
<1>3. NoRequest \in Requests
  <2>1. 0 \in 0 .. MaxRequests + 1
    BY ConstantsAssumption
  <2> QED BY <2>1 DEF NoRequest, Requests
<1>4. TypeOK
  <2>1. /\ found \in Rows /\ used \in 0 .. MaxRequests /\ crashes \in 0 .. MaxCrashes
    BY <1>1, ConstantsAssumption, NoRowTyped
  <2>2. api \in [Controllers -> Requests] /\ queue \subseteq Requests
        /\ DOMAIN worker = Workers
    BY <1>1, <1>3
  <2>3. mixed \in BOOLEAN
    BY <1>1, Zenon
  <2> QED BY <1>1, <1>2, <2>1, <2>2, <2>3 DEF TypeOK
<1>5. WorkersOK
  BY <1>1, IdleIs DEF WorkersOK
<1>6. Numbered
  BY <1>1, <1>2 DEF Numbered, Exists
<1>7. Witnessed
  BY <1>2, TransitoryIs DEF Witnessed, PrestageStates
<1>8. Alone
  <2>1. \A w \in Workers : ~Active(w)
    BY <1>1 DEF Active
  <2>2. NoRequest.op # "network" /\ ~Asked
    BY <1>1 DEF NoRequest, Asked
  <2> QED BY <1>1, <2>1, <2>2 DEF Alone, OneAtATime
<1> QED BY <1>4, <1>5, <1>6, <1>7, <1>8 DEF IInv

LEMMA InvStep == IInv /\ [Next]_vars => IInv'
<1> SUFFICES ASSUME IInv, [Next]_vars PROVE IInv'
  OBVIOUS
<1>1. CASE Next
  BY <1>1, TypesKept, NumberedKept, WitnessKept, AloneKept DEF IInv
<1>2. CASE UNCHANGED vars
  <2>1. TypeOK' /\ WorkersOK'
    BY <1>2 DEF vars, IInv, TypeOK, WorkersOK
  <2>2. Numbered'
    BY <1>2 DEF vars, IInv, Numbered, Exists
  <2>3. Witnessed'
    BY <1>2 DEF vars, IInv, Witnessed, DeployWitness, BackupWitness, Mine, Exists
  <2>4. Alone'
    BY <1>2, AloneFewer DEF vars, IInv
  <2> QED BY <2>1, <2>2, <2>3, <2>4 DEF IInv
<1> QED BY <1>1, <1>2

LEMMA InvHolds == Spec => []IInv
BY InvInit, InvStep, PTL DEF Spec

\* The variables keep their types: above all, a row's statuses are those of the
\* deployment and of the backup, whatever is written by whom
\* (dccommon/consts.py, the deploy and backup statuses).
THEOREM TypesCorrect == Spec => []TypeOK
<1>1. IInv => TypeOK
  BY DEF IInv
<1> QED BY <1>1, InvHolds, PTL

\* Once the manager is up, a status that a start would turn into a failure has
\* somebody at work for it: no message lost, no process that dies and no failure
\* leaves it behind (subcloud_manager.py, handle_subcloud_operations_in_progress
\* and the handlers' error paths).
THEOREM TransitoryStaysWorked == Spec => []TransitoryHasWorker
<1>1. ASSUME IInv PROVE TransitoryHasWorker
  <2> SUFFICES ASSUME start = "up", Exists
               PROVE  /\ row.deploy \in Transitory => HasWorker(DeployOps)
                      /\ row.backup \in Transitory => HasWorker({"backup"})
    BY DEF TransitoryHasWorker
  <2>1. \A w \in Workers : worker[w].at \in Transitory => Active(w)
    BY IdleIs, TransitoryIs DEF Active, PrestageStates
  <2>2. ASSUME row.deploy \in Transitory PROVE HasWorker(DeployOps)
    <3>1. DeployWitness
      BY <1>1, <2>2 DEF IInv, Witnessed
    <3>2. {"add", "rehome", "reinstall"} \subseteq DeployOps
      BY DEF DeployOps
    <3> QED BY <2>1, <2>2, <3>1, <3>2 DEF DeployWitness, HasWorker, Finds
  <2>3. ASSUME row.backup \in Transitory PROVE HasWorker({"backup"})
    <3>1. BackupWitness
      BY <1>1, <2>3 DEF IInv, Witnessed
    <3> QED BY <2>1, <2>3, <3>1 DEF BackupWitness, HasWorker
  <2> QED BY <2>2, <2>3
<1> QED BY <1>1, InvHolds, PTL

\* What nothing was asked for beside shows in a status from its first phase to
\* its last, is alone on its subcloud, and takes down or builds only a subcloud
\* that is unmanaged (api/controllers/v1/subclouds.py, the checks of a request).
THEOREM WorkStaysShown == Spec => []WorkIsShown
<1>1. ASSUME IInv PROVE WorkIsShown
  <2> SUFFICES ASSUME ~mixed
        PROVE
          /\ \A w \in Workers :
               (Active(w) /\ Mine(worker[w]) /\ worker[w].at # "taken"
                  /\ worker[w].op \in (DeployOps \ Strategies) \cup {"backup"})
               => {row.deploy, row.backup} \cap Busy # {}
          /\ \A v, w \in Workers :
               (Active(v) /\ Active(w) /\ Mine(worker[v]) /\ Mine(worker[w])) => v = w
          /\ \A w \in Workers :
               (worker[w].op \in {"add", "rehome", "reinstall", "restore", "network"}
                  /\ Mine(worker[w])) => ~Managed
    BY DEF WorkIsShown
  <2>1. Alone /\ WorkersOK
    BY <1>1 DEF IInv
  <2>2. ASSUME NEW w \in Workers, Active(w), worker[w].at # "taken",
               worker[w].op \in PlainOps \cup {"backup"}
        PROVE  {row.deploy, row.backup} \cap Busy # {}
    <3>1. Shows(w) /\ worker[w] # Idle
      BY <2>1, <2>2 DEF Alone, Active
    <3>2. IsAt(worker[w].op, worker[w].at)
      BY <2>1, <3>1, WorkerParts
    <3>3. worker[w].at \in Busy
      BY <2>2, <3>2, StatesApart DEF IsAt
    <3> QED BY <2>2, <3>1, <3>3 DEF Shows
  <2>3. ASSUME NEW w \in Workers, worker[w].op \in TakesDown PROVE Active(w)
    <3>1. worker[w] # Idle
      BY <2>3, IdleIs DEF TakesDown
    <3>2. IsAt(worker[w].op, worker[w].at) /\ worker[w].op \in PlainOps
      BY <2>1, <2>3, <3>1, WorkerParts, OpsAre DEF TakesDown
    <3>3. worker[w].at # "waiting"
      BY <3>2, StatesApart DEF IsAt
    <3> QED BY <3>1, <3>3 DEF Active
  <2> QED BY <2>1, <2>2, <2>3 DEF Alone, OneAtATime, TakesDown, PlainOps
<1> QED BY <1>1, InvHolds, PTL

--------------------------------------------------------------------------------
\* The endpoints of a subcloud (EndpointUpdates.tla).  The inductive invariant says
\* for each type of update where its step can be and, while nobody else interferes,
\* what the step has achieved of the job it was given when it is there.

StepStates ==
  Ended \cup {"initial", "pre check", "updating", "importing", "start", "upload cert",
              "creating vim", "applying vim", "finishing"}

StepPlaces ==
  {"begin", "delete", "create", "build wait", "apply wait", "upload", "apply", "interim",
   "clean", "commit", "remove", "import"}

\* What the calls of a step are about.
Things == IF update = "firmware" THEN Images ELSE Patches

\* The state whose operator has a place.
StandsIn(state, pc) ==
  /\ pc \in {"upload", "apply", "interim"} => state = "updating"
  /\ pc \in {"remove", "import"} => state = "importing"
  /\ pc \in {"delete", "create", "build wait"} => state = "creating vim"
  /\ pc = "apply wait" => state = "applying vim"
  /\ pc \in {"clean", "commit"} => state = "finishing"

StepOK ==
  /\ step \in [state : StepStates, pc : StepPlaces, calls : [Calls -> SUBSET Things]]
  /\ StandsIn(step.state, step.pc)

StrategyOK ==
  /\ update \in Updates
  /\ opts \in [uploadOnly : BOOLEAN, toVersion : 0..MaxVersion, certFile : BOOLEAN]
  /\ job \in [applied : SUBSET Patches, committed : SUBSET Patches]
  /\ vim \in [state : VimStates, target : 0..MaxVersion]
  /\ undisturbed \in BOOLEAN
  /\ {faults, changes, restarts} \subseteq Nat

Verdicts == {"none", "unknown", "in-sync", "out-of-sync"}

AuditOK ==
  /\ audit = [pc |-> audit.pc, data |-> audit.data, verdict |-> audit.verdict]
  /\ audit.pc \in {"idle", "fetched", "judged"}
  /\ {status, audit.verdict} \subseteq Verdicts

\* A step of an operator enters a state,
LEMMA EnterGives ==
  ASSUME NEW s \in StepStates, Enter(s), update' = update
  PROVE  /\ StepOK'
         /\ step'.state = s /\ step'.pc = "begin" /\ step'.calls = NoCalls
<1>1. step' = [state |-> s, pc |-> "begin", calls |-> NoCalls]
  BY DEF Enter
<1>2. step'.state = s /\ step'.pc = "begin" /\ step'.calls = NoCalls
  BY <1>1
<1>3. NoCalls \in [Calls -> SUBSET Things]
  BY DEF NoCalls
<1>4. step' \in [state : StepStates, pc : StepPlaces, calls : [Calls -> SUBSET Things]]
  BY <1>1, <1>3 DEF StepPlaces
<1>5. Things' = Things
  BY DEF Things
<1>6. StandsIn(step.state, step.pc)'
  BY <1>2 DEF StandsIn
<1> QED
  BY <1>2, <1>4, <1>5, <1>6 DEF StepOK

\* or goes on in its state.
LEMMA AtGives ==
  ASSUME StepOK, NEW pc \in StepPlaces, At(pc), StandsIn(step.state, pc), update' = update
  PROVE  /\ StepOK'
         /\ step'.state = step.state /\ step'.pc = pc /\ step'.calls = step.calls
<1>1. step' = [step EXCEPT !.pc = pc]
  BY DEF At
<1>2. step \in [state : StepStates, pc : StepPlaces, calls : [Calls -> SUBSET Things]]
  BY DEF StepOK
<1>3. /\ step'.state = step.state /\ step'.pc = pc /\ step'.calls = step.calls
      /\ step' \in [state : StepStates, pc : StepPlaces, calls : [Calls -> SUBSET Things]]
  BY <1>1, <1>2
<1>4. Things' = Things
  BY DEF Things
<1>5. StandsIn(step.state, step.pc)'
  BY <1>3 DEF StandsIn
<1> QED
  BY <1>3, <1>4, <1>5 DEF StepOK

\* What a step of an operator does to the VIM strategy, when it creates one,
Created(target) ==
  \/ step'.state = "failed" /\ step'.pc = "begin" /\ vim' = vim
  \/ /\ step.state = "creating vim" /\ step'.state = "creating vim"
     /\ step'.pc \in {"delete", "create"}
     /\ vim' \in {vim, NoVim}
  \/ /\ step.state = "creating vim" /\ step'.state = "creating vim" /\ step'.pc = "build wait"
     /\ vim' = [state |-> "building", target |-> target]
  \/ /\ step.state = "creating vim" /\ step.pc = "build wait"
     /\ vim.state = "ready-to-apply" /\ vim' = vim
     /\ step'.state = "applying vim" /\ step'.pc = "begin"
  \/ /\ step.state = "creating vim" /\ step.pc = "build wait" /\ update = "patch"
     /\ vim.state = "nothing-to-do" /\ vim' = vim
     /\ step'.state = "finishing" /\ step'.pc = "begin"

LEMMA NextStateGives ==
  /\ step.state = "creating vim" => NextState = "applying vim"
  /\ step.state = "applying vim" /\ update \in {"patch", "firmware"} => NextState = "finishing"
  /\ step.state = "applying vim" /\ update \notin {"patch", "firmware"} => NextState = "complete"
  /\ step.state = "finishing" => NextState = "complete"
  /\ step.state = "pre check" /\ update = "patch" => NextState = "updating"
  /\ step.state = "pre check" /\ update # "patch" => NextState = "creating vim"
  /\ step.state \in {"updating", "importing", "upload cert"} => NextState = "creating vim"
  /\ step.state = "start" => NextState = "upload cert"
<1>1. CASE step.state = "creating vim"
  BY <1>1, Zenon DEF NextState
<1>2. CASE step.state = "applying vim"
  <2>1. CASE update \in {"patch", "firmware"}
    BY <1>2, <2>1, Zenon DEF NextState
  <2>2. CASE update \notin {"patch", "firmware"}
    BY <1>2, <2>2, Zenon DEF NextState
  <2> QED
    BY <1>2, <2>1, <2>2
<1>3. CASE step.state = "finishing"
  BY <1>3, Zenon DEF NextState
<1>4. CASE step.state = "pre check"
  <2>1. CASE update = "patch"
    BY <1>4, <2>1, Zenon DEF NextState
  <2>2. CASE update # "patch"
    <3>1. /\ ~(step.state = "pre check" /\ update = "patch")
          /\ ~(step.state = "start")
          /\ step.state \in {"pre check", "updating", "importing", "upload cert"}
      BY <1>4, <2>2
    <3>2. NextState = "creating vim"
      BY <3>1, Zenon DEF NextState
    <3> QED
      BY <1>4, <2>2, <3>2
  <2> QED
    BY <1>4, <2>1, <2>2
<1>5. CASE step.state = "updating"
  BY <1>5, Zenon DEF NextState
<1>6. CASE step.state = "importing"
  BY <1>6, Zenon DEF NextState
<1>7. CASE step.state = "upload cert"
  BY <1>7, Zenon DEF NextState
<1>8. CASE step.state = "start"
  BY <1>8, Zenon DEF NextState
<1> QED
  BY <1>1, <1>2, <1>3, <1>4, <1>5, <1>6, <1>7, <1>8

LEMMA CreatesMoves ==
  ASSUME StepOK, StrategyOK, NEW target \in 0..MaxVersion, CreatesVim(target)
  PROVE  /\ StepOK' /\ vim' \in [state : VimStates, target : 0..MaxVersion]
         /\ OperatorQuiet /\ sub' = sub
         /\ Created(target)
<1>0. /\ OperatorQuiet /\ sub' = sub
      /\ update' = update
  BY DEF CreatesVim, LookForVim, DeleteVim, CreateVim, AwaitBuild, OperatorQuiet
<1>a. /\ step \in [state : StepStates, pc : StepPlaces, calls : [Calls -> SUBSET Things]]
      /\ StandsIn(step.state, step.pc)
      /\ vim \in [state : VimStates, target : 0..MaxVersion]
  BY DEF StepOK, StrategyOK
<1>b. NoVim \in [state : VimStates, target : 0..MaxVersion]
  BY KubeStepsAssumption DEF NoVim, VimStates
<1>1. CASE Raise /\ vim' = vim
  <2>1. Enter("failed") /\ "failed" \in StepStates
    BY <1>1 DEF Raise, StepStates, Ended
  <2> QED
    BY <2>1, <1>0, <1>1, <1>a, EnterGives DEF Created
<1>2. CASE LookForVim
  <2>1. step.state = "creating vim" /\ vim' = vim
    BY <1>2 DEF LookForVim, Begins
  <2>2. At("create") \/ Raise \/ At("delete")
    BY <1>2, Zenon DEF LookForVim
  <2>3. CASE At("create")
    <3>1. StandsIn(step.state, "create") /\ "create" \in StepPlaces
      BY <2>1 DEF StandsIn, StepPlaces
    <3> QED
      BY <3>1, <2>1, <2>3, <1>0, <1>a, AtGives DEF Created
  <2>4. CASE At("delete")
    <3>1. StandsIn(step.state, "delete") /\ "delete" \in StepPlaces
      BY <2>1 DEF StandsIn, StepPlaces
    <3> QED
      BY <3>1, <2>1, <2>4, <1>0, <1>a, AtGives DEF Created
  <2> QED
    BY <2>1, <2>2, <2>3, <2>4, <1>1
<1>3. CASE DeleteVim
  <2>1. step.state = "creating vim"
    BY <1>3, <1>a DEF DeleteVim, StandsIn
  <2>2. (Raise /\ vim' = vim) \/ (vim' = NoVim /\ At("create"))
    BY <1>3 DEF DeleteVim
  <2>3. CASE vim' = NoVim /\ At("create")
    <3>1. StandsIn(step.state, "create") /\ "create" \in StepPlaces
      BY <2>1 DEF StandsIn, StepPlaces
    <3> QED
      BY <3>1, <2>1, <2>3, <1>0, <1>b, AtGives DEF Created
  <2> QED
    BY <2>2, <2>3, <1>1
<1>4. CASE CreateVim(target)
  <2>1. step.state = "creating vim"
    BY <1>4, <1>a DEF CreateVim, StandsIn
  <2>2. \/ Raise /\ vim' = vim
        \/ vim' = [state |-> "building", target |-> target] /\ At("build wait")
    BY <1>4 DEF CreateVim
  <2>3. CASE vim' = [state |-> "building", target |-> target] /\ At("build wait")
    <3>1. StandsIn(step.state, "build wait") /\ "build wait" \in StepPlaces
      BY <2>1 DEF StandsIn, StepPlaces
    <3>2. "building" \in VimStates
      BY DEF VimStates, VimBusy
    <3> QED
      BY <3>1, <3>2, <2>1, <2>3, <1>0, AtGives DEF Created
  <2> QED
    BY <2>2, <2>3, <1>1
<1>5. CASE AwaitBuild
  <2>1. step.state = "creating vim" /\ step.pc = "build wait" /\ vim' = vim
    BY <1>5, <1>a DEF AwaitBuild, StandsIn
  <2>2. \/ vim.state = "ready-to-apply" /\ Enter(NextState)
        \/ vim.state = "nothing-to-do" /\ update = "patch" /\ Enter("finishing")
        \/ Raise
    BY <1>5, Zenon DEF AwaitBuild
  <2>3. NextState = "applying vim" /\ "applying vim" \in StepStates /\ "finishing" \in StepStates
    BY <2>1, NextStateGives DEF StepStates
  <2> QED
    BY <2>1, <2>2, <2>3, <1>0, <1>1, <1>a, EnterGives DEF Created
<1> QED
  BY <1>2, <1>3, <1>4, <1>5 DEF CreatesVim

\* and when it has it applied.
AppliedOne ==
  \/ step'.state = "failed" /\ step'.pc = "begin" /\ vim' = vim
  \/ /\ step.state = "applying vim" /\ vim.state = "none" /\ update = "firmware" /\ vim' = vim
     /\ step'.state = "finishing" /\ step'.pc = "begin"
  \/ /\ step.state = "applying vim" /\ step'.state = "applying vim" /\ step'.pc = "apply wait"
     /\ \/ vim' = vim
        \/ vim.state = "ready-to-apply" /\ vim'.state = "applying" /\ vim'.target = vim.target
  \/ /\ step.state = "applying vim" /\ vim.state = "applied" /\ vim' = vim
     /\ step'.state = (IF update \in {"patch", "firmware"} THEN "finishing" ELSE "complete")
     /\ step'.pc = "begin"

LEMMA AppliesMoves ==
  ASSUME StepOK, StrategyOK, AppliesVim
  PROVE  /\ StepOK' /\ vim' \in [state : VimStates, target : 0..MaxVersion]
         /\ OperatorQuiet /\ sub' = sub
         /\ AppliedOne
<1>0. /\ OperatorQuiet /\ sub' = sub
      /\ update' = update
  BY DEF AppliesVim, ApplyVim, AwaitApply, OperatorQuiet
<1>a. /\ step \in [state : StepStates, pc : StepPlaces, calls : [Calls -> SUBSET Things]]
      /\ StandsIn(step.state, step.pc)
      /\ vim \in [state : VimStates, target : 0..MaxVersion]
  BY DEF StepOK, StrategyOK
<1>1. CASE Raise /\ vim' = vim
  <2>1. Enter("failed") /\ "failed" \in StepStates
    BY <1>1 DEF Raise, StepStates, Ended
  <2> QED
    BY <2>1, <1>0, <1>1, <1>a, EnterGives DEF AppliedOne
<1>b. /\ step.state = "applying vim" =>
           NextState = IF update \in {"patch", "firmware"} THEN "finishing" ELSE "complete"
      /\ {"finishing", "complete"} \subseteq StepStates
  BY NextStateGives DEF StepStates, Ended
<1>2. CASE ApplyVim
  <2>1. step.state = "applying vim"
    BY <1>2 DEF ApplyVim, Begins
  <2>2. \/ vim.state = "none" /\ update = "firmware" /\ Enter(NextState) /\ vim' = vim
        \/ Raise /\ vim' = vim
        \/ vim.state = "ready-to-apply" /\ vim' = [vim EXCEPT !.state = "applying"] /\ At("apply wait")
        \/ At("apply wait") /\ vim' = vim
    BY <1>2, Zenon DEF ApplyVim
  <2>3. StandsIn(step.state, "apply wait") /\ "apply wait" \in StepPlaces /\ "applying" \in VimStates
    BY <2>1 DEF StandsIn, StepPlaces, VimStates, VimBusy
  <2>4. CASE vim.state = "none" /\ update = "firmware" /\ Enter(NextState) /\ vim' = vim
    BY <2>1, <2>4, <1>0, <1>a, <1>b, EnterGives DEF AppliedOne
  <2>5. CASE vim.state = "ready-to-apply" /\ vim' = [vim EXCEPT !.state = "applying"] /\ At("apply wait")
    BY <2>1, <2>3, <2>5, <1>0, <1>a, AtGives DEF AppliedOne
  <2>6. CASE At("apply wait") /\ vim' = vim
    BY <2>1, <2>3, <2>6, <1>0, <1>a, AtGives DEF AppliedOne
  <2> QED
    BY <2>2, <2>4, <2>5, <2>6, <1>1
<1>3. CASE AwaitApply
  <2>1. step.state = "applying vim" /\ vim' = vim
    BY <1>3, <1>a DEF AwaitApply, StandsIn
  <2>2. \/ vim.state = "applied" /\ Enter(NextState)
        \/ Raise
    BY <1>3 DEF AwaitApply
  <2> QED
    BY <2>1, <2>2, <1>0, <1>1, <1>a, <1>b, EnterGives DEF AppliedOne
<1> QED
  BY <1>2, <1>3 DEF AppliesVim

VimStages == {"creating vim", "applying vim", "finishing"}

\* Kubernetes: the VIM is asked for a version that the strategy admits.
KubeProgress ==
  /\ step.state \in {"pre check", "creating vim"} => vim.state # "applying"
  /\ step.state = "creating vim" => Target <= ToVersion
  /\ step.pc = "build wait" \/ step.state = "applying vim" => vim.target <= ToVersion

KubeInv ==
  /\ central \in KubeCentrals
  /\ sub \in KubeSubs
  /\ vim.state \in {"ready-to-apply", "applying"} => vim.target # 0
  /\ undisturbed => KubeProgress

\* The root certificate: a strategy that has been applied has renewed it.
RootcaProgress ==
  \/ step.state = "applying vim" /\ vim.state = "applied"
  \/ step.state = "complete"
  => ~sub.expiring

RootcaInv ==
  /\ central = {}
  /\ sub \in RootcaSubs
  /\ undisturbed => RootcaProgress

TypesOK == StepOK /\ StrategyOK

\* Actions that leave alone what an invariant is about.
progressVars == <<update, step, opts, job, vim, central, sub, undisturbed>>

\* What the VIM, and the strategy around a step, do alike for every type.
LEMMA RaisesMoves ==
  ASSUME TypesOK, OperatorRaises
  PROVE  /\ TypesOK'
         /\ UNCHANGED <<update, opts, job, vim, central, sub, auditVars, undisturbed>>
         /\ step'.state = "failed" /\ step'.pc = "begin"
<1>1. /\ UNCHANGED <<update, opts, job, vim, central, sub, auditVars, undisturbed>>
      /\ Enter("failed") /\ "failed" \in StepStates
  BY DEF OperatorRaises, Raise, StepStates, Ended
<1>2. StepOK' /\ step'.state = "failed" /\ step'.pc = "begin"
  BY <1>1, EnterGives
<1>3. {faults', changes', restarts'} \subseteq Nat
  BY DEF OperatorRaises, Fault, TypesOK, StrategyOK
<1> QED
  BY <1>1, <1>2, <1>3 DEF TypesOK, StrategyOK

LEMMA JobType ==
  /\ NoJob \in [applied : SUBSET Patches, committed : SUBSET Patches]
  /\ PatchJob \in [applied : SUBSET Patches, committed : SUBSET Patches]
  /\ JobData \in [applied : SUBSET Patches, committed : SUBSET Patches]
<1>1. NoJob \in [applied : SUBSET Patches, committed : SUBSET Patches]
  BY DEF NoJob
<1>2. PatchJob \in [applied : SUBSET Patches, committed : SUBSET Patches]
  BY PatchStepsAssumption DEF PatchJob, In
<1> QED
  BY <1>1, <1>2 DEF JobData

LEMMA RestartMoves ==
  ASSUME TypesOK, Restart(JobData)
  PROVE  /\ TypesOK' /\ job' = JobData
         /\ UNCHANGED <<update, opts, vim, central, sub, auditVars, undisturbed>>
         /\ step.state \notin Ended \cup {"initial"}
         /\ step'.state = step.state /\ step'.pc = "begin"
<1>1. /\ UNCHANGED <<update, opts, vim, central, sub, auditVars, undisturbed, faults, changes>>
      /\ step.state \notin Ended \cup {"initial"}
      /\ Enter(step.state) /\ job' = JobData /\ restarts' = restarts + 1
  BY DEF Restart
<1>2. StepOK' /\ step'.state = step.state /\ step'.pc = "begin"
  BY <1>1, EnterGives DEF TypesOK, StepOK
<1>3. {faults', changes', restarts'} \subseteq Nat
  BY <1>1 DEF TypesOK, StrategyOK
<1> QED
  BY <1>1, <1>2, <1>3, JobType DEF TypesOK, StrategyOK

LEMMA OptionsType ==
  ASSUME NEW o \in {PlainOpts} \cup Options, TypesOK
  PROVE  o \in [uploadOnly : BOOLEAN, toVersion : 0..MaxVersion, certFile : BOOLEAN]
<1>1. PlainOpts \in [uploadOnly : BOOLEAN, toVersion : 0..MaxVersion, certFile : BOOLEAN]
  BY KubeStepsAssumption DEF PlainOpts
<1>2. CASE o \in Options
  <2>1. CASE update = "patch"
    <3>1. Options = {[PlainOpts EXCEPT !.uploadOnly = TRUE]}
      BY <2>1, Zenon DEF Options
    <3> QED
      BY <3>1, <1>1, <1>2
  <2>2. CASE update = "kubernetes"
    <3>1. ~(update = "patch")
      BY <2>2
    <3>2. Options = {[PlainOpts EXCEPT !.toVersion = v] : v \in Versions}
      BY <2>2, <3>1, Zenon DEF Options
    <3> QED
      BY <3>2, <1>1, <1>2, KubeStepsAssumption DEF Versions
  <2>3. CASE update = "kube rootca"
    <3>1. ~(update = "patch") /\ ~(update = "kubernetes")
      BY <2>3
    <3>2. Options = {[PlainOpts EXCEPT !.certFile = TRUE]}
      BY <2>3, <3>1, Zenon DEF Options
    <3> QED
      BY <3>2, <1>1, <1>2
  <2>4. CASE update \notin {"patch", "kubernetes", "kube rootca"}
    <3>1. ~(update = "patch") /\ ~(update = "kubernetes") /\ ~(update = "kube rootca")
      BY <2>4
    <3>2. Options = {}
      BY <3>1, Zenon DEF Options
    <3> QED
      BY <3>2, <1>2
  <2> QED
    BY <2>1, <2>2, <2>3, <2>4
<1> QED
  BY <1>1, <1>2

LEMMA RequestMoves ==
  ASSUME TypesOK, StrategyRequest
  PROVE  /\ TypesOK'
         /\ UNCHANGED <<update, job, central, sub, auditVars, undisturbed>>
         /\ vim' \in {vim, NoVim}
         /\ step'.state = "initial" /\ step'.pc = "begin"
<1>1. PICK o \in {PlainOpts} \cup Options :
        /\ vim' = IF vim.state \in VimBusy THEN vim ELSE NoVim
        /\ opts' = o
        /\ Enter("initial")
        /\ UNCHANGED <<update, job, central, sub, auditVars, undisturbed, faults, restarts>>
        /\ changes' \in {changes, changes + 1}
  BY DEF StrategyRequest, NewStrategy
<1>2. StepOK' /\ step'.state = "initial" /\ step'.pc = "begin"
  BY <1>1, EnterGives DEF StepStates
<1>3. {faults', changes', restarts'} \subseteq Nat
  BY <1>1 DEF TypesOK, StrategyOK
<1>4. NoVim \in [state : VimStates, target : 0..MaxVersion]
  BY KubeStepsAssumption DEF NoVim, VimStates
<1>5. o \in [uploadOnly : BOOLEAN, toVersion : 0..MaxVersion, certFile : BOOLEAN]
  BY OptionsType
<1> QED
  BY <1>1, <1>2, <1>3, <1>4, <1>5 DEF TypesOK, StrategyOK

LEMMA StartMoves ==
  ASSUME TypesOK, StartStep(JobData)
  PROVE  /\ TypesOK' /\ job' = JobData
         /\ UNCHANGED <<update, opts, vim, central, sub, auditVars>>
         /\ undisturbed' = ~(update = "kubernetes" /\ vim.state \in VimBusy)
         /\ step'.state = (IF update = "firmware" THEN "importing" ELSE "pre check")
         /\ step'.pc = "begin"
<1>1. /\ UNCHANGED <<update, opts, vim, central, sub, auditVars, bounded>>
      /\ undisturbed' = ~(update = "kubernetes" /\ vim.state \in VimBusy)
      /\ Enter(FirstState) /\ job' = JobData
  BY DEF StartStep
<1>2. FirstState = IF update = "firmware" THEN "importing" ELSE "pre check"
  <2>1. CASE update = "firmware"
    BY <2>1, Zenon DEF FirstState
  <2>2. CASE update # "firmware"
    BY <2>2, Zenon DEF FirstState
  <2> QED
    BY <2>1, <2>2
<1>3. /\ StepOK' /\ step'.pc = "begin"
      /\ step'.state = (IF update = "firmware" THEN "importing" ELSE "pre check")
  BY <1>1, <1>2, EnterGives DEF StepStates
<1>4. {faults', changes', restarts'} \subseteq Nat /\ undisturbed' \in BOOLEAN
  BY <1>1 DEF TypesOK, StrategyOK, bounded
<1> QED
  BY <1>1, <1>3, <1>4, JobType DEF TypesOK, StrategyOK

LEMMA AuditsMove ==
  ASSUME TypesOK, Audits \/ AuditSkips
  PROVE  TypesOK' /\ UNCHANGED progressVars
<1>1. UNCHANGED progressVars
  BY DEF Audits, AuditFetches, AuditCompares, AuditReports, AuditSkips, progressVars
<1>2. {faults', changes', restarts'} \subseteq Nat
  BY DEF Audits, AuditFetches, AuditCompares, AuditReports, AuditSkips, Fault, bounded,
         TypesOK, StrategyOK
<1> QED
  BY <1>1, <1>2 DEF TypesOK, StepOK, StrategyOK, Things, progressVars

LEMMA BoundedGrows ==
  ASSUME StrategyOK, UNCHANGED bounded \/ Fault \/ Change
  PROVE  {faults', changes', restarts'} \subseteq Nat
BY DEF StrategyOK, bounded, Fault, Change

\* The VIM gets on, whatever becomes of the subcloud.
LEMMA VimMoves ==
  ASSUME TypesOK, VimQuiet, UNCHANGED bounded \/ Fault,
         \/ vim' = vim
         \/ \E s \in VimStates : vim' = [vim EXCEPT !.state = s]
  PROVE  TypesOK'
<1>1. vim' \in [state : VimStates, target : 0..MaxVersion]
  BY DEF TypesOK, StrategyOK
<1>2. {faults', changes', restarts'} \subseteq Nat
  BY BoundedGrows DEF TypesOK
<1>3. StepOK'
  BY DEF TypesOK, StepOK, Things, VimQuiet
<1> QED
  BY <1>1, <1>2, <1>3 DEF TypesOK, StrategyOK, VimQuiet

LEMMA ElsewhereMoves ==
  ASSUME TypesOK, VimElsewhere
  PROVE  /\ TypesOK' /\ ~undisturbed'
         /\ UNCHANGED <<update, step, opts, job, central, sub, auditVars>>
<1>0. vim \in [state : VimStates, target : 0..MaxVersion]
  BY DEF TypesOK, StrategyOK
<1>1. vim' \in [state : VimStates, target : 0..MaxVersion]
  <2>1. NoVim \in [state : VimStates, target : 0..MaxVersion]
    BY KubeStepsAssumption DEF NoVim, VimStates
  <2>2. {"building", "applying", "aborted"} \subseteq VimStates
    BY DEF VimStates, VimBusy
  <2> QED
    BY <1>0, <2>1, <2>2 DEF VimElsewhere
<1>2. {faults', changes', restarts'} \subseteq Nat
  BY BoundedGrows DEF TypesOK, VimElsewhere
<1>3. StepOK'
  BY DEF TypesOK, StepOK, Things, VimElsewhere
<1> QED
  BY <1>1, <1>2, <1>3 DEF TypesOK, StrategyOK, VimElsewhere

\* The version to go to.
LEMMA TargetType ==
  ASSUME sub \in KubeSubs
  PROVE  Target \in 0..MaxVersion
BY KubeStepsAssumption DEF Target, KubeSubs

LEMMA KubeVersions ==
  ASSUME TypesOK, central \in KubeCentrals, sub \in KubeSubs
  PROVE  /\ Target \in 0..MaxVersion /\ ToVersion \in 0..MaxVersion
         /\ vim.target \in 0..MaxVersion
BY TargetType DEF ToVersion, KubeCentrals, TypesOK, StrategyOK

\* The operators ask for no version but the target.
LEMMA KubeOperatorsStep ==
  ASSUME TypesOK, KubeInv, KubeOperators
  PROVE  TypesOK' /\ KubeInv'
<1>0. /\ update = "kubernetes" /\ central \in KubeCentrals /\ sub \in KubeSubs
      /\ vim.state \in {"ready-to-apply", "applying"} => vim.target # 0
      /\ undisturbed => KubeProgress
      /\ StepOK /\ StrategyOK
  BY DEF KubeOperators, KubeInv, TypesOK
<1>v. Target \in 0..MaxVersion /\ ToVersion \in 0..MaxVersion /\ vim.target \in 0..MaxVersion
  BY <1>0, KubeVersions
<1>q. ASSUME StepOK', vim' \in [state : VimStates, target : 0..MaxVersion],
             OperatorQuiet, sub' = sub,
             vim'.state \in {"ready-to-apply", "applying"} => vim'.target # 0,
             KubeProgress => KubeProgress'
      PROVE  TypesOK' /\ KubeInv'
  <2>1. UNCHANGED <<update, opts, job, central, undisturbed, bounded>>
    BY <1>q DEF OperatorQuiet
  <2>2. StrategyOK'
    BY <1>0, <1>q, <2>1 DEF StrategyOK, bounded
  <2> QED
    BY <1>0, <1>q, <2>1, <2>2 DEF TypesOK, KubeInv
<1>s. ASSUME OperatorQuiet, sub' = sub
      PROVE  Target' = Target /\ ToVersion' = ToVersion
  BY <1>s DEF OperatorQuiet, Target, ToVersion
<1>n. NoVim.state = "none"
  BY DEF NoVim
<1>1. CASE KubePreCheck
  <2>1. OperatorQuiet /\ vim' = vim /\ sub' = sub /\ step.state = "pre check" /\ update' = update
    BY <1>1 DEF KubePreCheck, Begins, OperatorQuiet
  <2>2. \/ Enter("failed")
        \/ Enter("complete")
        \/ Target <= ToVersion /\ Enter(NextState)
    <3>1. \/ Enter("failed")
          \/ Enter("complete")
          \/ ~(Target = 0 \/ Target > ToVersion) /\ Enter(NextState)
      BY <1>1, Zenon DEF KubePreCheck, Raise
    <3>2. ~(Target > ToVersion) => Target <= ToVersion
      BY <1>v
    <3> QED
      BY <3>1, <3>2, Zenon
  <2>3. NextState = "creating vim" /\ {"failed", "complete", "creating vim"} \subseteq StepStates
    BY <1>0, <2>1, NextStateGives DEF StepStates, Ended
  <2>4. /\ StepOK' /\ step'.pc = "begin"
        /\ \/ step'.state \in {"failed", "complete"}
           \/ step'.state = "creating vim" /\ Target <= ToVersion
    BY <2>1, <2>2, <2>3, EnterGives
  <2>5. KubeProgress => KubeProgress'
    BY <2>1, <2>4, <1>s DEF KubeProgress
  <2> QED
    BY <2>1, <2>4, <2>5, <1>0, <1>q DEF StrategyOK
<1>2. CASE CreatesVim(Target)
  <2>1. /\ StepOK' /\ vim' \in [state : VimStates, target : 0..MaxVersion]
        /\ OperatorQuiet /\ sub' = sub
        /\ Created(Target)
    BY <1>0, <1>2, <1>v, CreatesMoves
  <2>2. Target' = Target /\ ToVersion' = ToVersion
    BY <2>1, <1>s
  <2>3. CASE step'.state = "failed" /\ step'.pc = "begin" /\ vim' = vim
    <3>1. KubeProgress'
      BY <2>3 DEF KubeProgress
    <3> QED
      BY <2>1, <2>3, <3>1, <1>0, <1>q
  <2>4. CASE /\ step.state = "creating vim" /\ step'.state = "creating vim"
             /\ step'.pc \in {"delete", "create"}
             /\ vim' \in {vim, NoVim}
    <3>1. vim'.state \in {vim.state, "none"} /\ (vim'.state # "none" => vim' = vim)
      BY <2>4, <1>n
    <3>2. KubeProgress => KubeProgress'
      BY <2>2, <2>4, <3>1 DEF KubeProgress
    <3> QED
      BY <2>1, <3>1, <3>2, <1>0, <1>q
  <2>5. CASE /\ step.state = "creating vim" /\ step'.state = "creating vim"
             /\ step'.pc = "build wait"
             /\ vim' = [state |-> "building", target |-> Target]
    <3>1. vim'.state = "building" /\ vim'.target = Target
      BY <2>5
    <3>2. KubeProgress => KubeProgress'
      BY <2>2, <2>5, <3>1 DEF KubeProgress
    <3> QED
      BY <2>1, <3>1, <3>2, <1>q
  <2>6. CASE /\ step.state = "creating vim" /\ step.pc = "build wait"
             /\ vim.state = "ready-to-apply" /\ vim' = vim
             /\ step'.state = "applying vim" /\ step'.pc = "begin"
    <3>1. KubeProgress => KubeProgress'
      BY <2>2, <2>6 DEF KubeProgress
    <3> QED
      BY <2>1, <2>6, <3>1, <1>0, <1>q
  <2> QED
    BY <2>1, <2>3, <2>4, <2>5, <2>6, <1>0 DEF Created
<1>3. CASE AppliesVim
  <2>1. /\ StepOK' /\ vim' \in [state : VimStates, target : 0..MaxVersion]
        /\ OperatorQuiet /\ sub' = sub
        /\ AppliedOne
    BY <1>0, <1>3, AppliesMoves
  <2>2. KubeProgress => KubeProgress'
    BY <2>1, <1>0, <1>s DEF KubeProgress, AppliedOne
  <2>3. vim'.state \in {"ready-to-apply", "applying"} => vim'.target # 0
    BY <2>1, <1>0 DEF AppliedOne
  <2> QED
    BY <2>1, <2>2, <2>3, <1>q
<1> QED
  BY <1>1, <1>2, <1>3 DEF KubeOperators

\* The VIM goes to the version it was asked for.
LEMMA KubeVimStep ==
  ASSUME TypesOK, KubeInv, update = "kubernetes",
         KubeVimBuilds \/ KubeVimApplies \/ KubeVimFails \/ VimBuildFails
  PROVE  TypesOK' /\ KubeInv'
<1>0. /\ central \in KubeCentrals /\ sub \in KubeSubs
      /\ vim.state \in {"ready-to-apply", "applying"} => vim.target # 0
      /\ undisturbed => KubeProgress
      /\ vim \in [state : VimStates, target : 0..MaxVersion]
  BY DEF KubeInv, TypesOK, StrategyOK
<1>1. VimQuiet /\ (UNCHANGED bounded \/ Fault)
  BY DEF KubeVimBuilds, KubeVimApplies, KubeVimFails, VimBuildFails
<1>q. UNCHANGED <<update, step, opts, central, undisturbed>>
  BY <1>1 DEF VimQuiet
<1>2. CASE KubeVimBuilds \/ VimBuildFails
  <2>1. PICK s \in {"build-failed", "ready-to-apply"} :
          /\ vim.state = "building" /\ vim' = [vim EXCEPT !.state = s] /\ sub' = sub
          /\ s = "ready-to-apply" => vim.target # 0
    BY <1>2 DEF KubeVimBuilds, VimBuildFails, Built
  <2>2. TypesOK'
    BY <1>1, <2>1, VimMoves DEF VimStates, VimBusy
  <2>3. vim'.state = s /\ vim'.target = vim.target
    BY <1>0, <2>1
  <2>4. Target' = Target /\ ToVersion' = ToVersion
    BY <1>q, <2>1 DEF Target, ToVersion
  <2>5. KubeProgress => KubeProgress'
    BY <2>1, <2>3, <2>4, <1>q DEF KubeProgress
  <2> QED
    BY <1>0, <1>q, <2>1, <2>2, <2>3, <2>5 DEF KubeInv
<1>3. CASE KubeVimApplies \/ KubeVimFails
  <2>1. PICK s \in {"applied", "apply-failed"} :
          vim.state = "applying" /\ vim' = [vim EXCEPT !.state = s]
    BY <1>3 DEF KubeVimApplies, KubeVimFails, Applied
  <2>2. TypesOK'
    BY <1>1, <2>1, VimMoves DEF VimStates, VimBusy
  <2>3. vim'.state = s /\ vim'.target = vim.target
    BY <1>0, <2>1
  <2>4. vim.target \in Versions
    BY <1>0, <2>1, KubeStepsAssumption DEF Versions
  <2>5. sub' \in KubeSubs
    <3>1. \/ sub' = [sub EXCEPT !.active = vim.target, !.upgrade = 0,
                                !.available = IF @ > vim.target THEN @ ELSE 0]
          \/ sub' = [sub EXCEPT !.upgrade = vim.target]
      BY <1>3 DEF KubeVimApplies, KubeVimFails
    <3>2. sub \in [active : Versions, available : 0..MaxVersion, upgrade : 0..MaxVersion]
      BY <1>0 DEF KubeSubs
    <3>3. /\ (IF sub.available > vim.target THEN sub.available ELSE 0) \in 0..MaxVersion
          /\ 0 \in 0..MaxVersion /\ vim.target \in 0..MaxVersion
      BY <2>4, <3>2, KubeStepsAssumption DEF Versions
    <3> QED
      BY <2>4, <3>1, <3>2, <3>3 DEF KubeSubs
  <2>6. ToVersion' = ToVersion
    BY <1>q DEF ToVersion
  <2>7. KubeProgress => KubeProgress'
    BY <2>1, <2>3, <2>6, <1>q DEF KubeProgress
  <2> QED
    BY <1>0, <1>q, <2>1, <2>2, <2>3, <2>5, <2>7 DEF KubeInv
<1> QED
  BY <1>2, <1>3

\* A step that others disturb is not the step's any more.
LEMMA KubeChangesStep ==
  ASSUME TypesOK, update = "kubernetes", central \in KubeCentrals, sub \in KubeSubs, KubeChanges
  PROVE  central' \in KubeCentrals /\ sub' \in KubeSubs
<1>1. \/ central' \in KubeCentrals /\ sub' = sub
      \/ /\ \E v \in Versions : v > sub.active /\ sub' = [sub EXCEPT !.available = v]
         /\ central' = central
  BY DEF KubeChanges
<1> QED
  BY <1>1, KubeStepsAssumption DEF KubeSubs, Versions

LEMMA OthersMove ==
  ASSUME TypesOK, OthersChange
  PROVE  /\ TypesOK' /\ ~undisturbed'
         /\ UNCHANGED <<update, step, opts, job, vim, auditVars>>
<1>1. /\ UNCHANGED <<update, step, opts, job, vim, auditVars>>
      /\ undisturbed' = FALSE /\ Change
  BY DEF OthersChange
<1>2. {faults', changes', restarts'} \subseteq Nat
  BY <1>1, BoundedGrows DEF TypesOK
<1> QED
  BY <1>1, <1>2 DEF TypesOK, StepOK, StrategyOK, Things

LEMMA OthersOf ==
  ASSUME OthersChange
  PROVE  /\ update = "patch" => \E p \in Patches : PatchCentralMoves(p)
         /\ update = "firmware" => FirmwareChanges
         /\ update \notin {"patch", "firmware"} => KubeChanges
<1>1. CASE update = "patch"
  <2>1. ~(update = "firmware")
    BY <1>1
  <2>2. \E p \in Patches : PatchCentralMoves(p)
    BY <1>1, <2>1, Zenon DEF OthersChange
  <2> QED
    BY <1>1, <2>2
<1>2. CASE update = "firmware"
  <2>1. ~(update = "patch")
    BY <1>2
  <2>2. FirmwareChanges
    BY <1>2, <2>1, Zenon DEF OthersChange
  <2> QED
    BY <1>2, <2>2
<1>3. CASE update \notin {"patch", "firmware"}
  <2>1. ~(update = "patch") /\ ~(update = "firmware")
    BY <1>3
  <2>2. KubeChanges
    BY <2>1, Zenon DEF OthersChange
  <2> QED
    BY <1>3, <2>2
<1> QED
  BY <1>1, <1>2, <1>3

LEMMA KubeStep ==
  ASSUME TypesOK, KubeInv, update = "kubernetes", [EndpointNext]_endpointVars
  PROVE  TypesOK' /\ KubeInv'
<1>0. /\ central \in KubeCentrals /\ sub \in KubeSubs
      /\ vim.state \in {"ready-to-apply", "applying"} => vim.target # 0
      /\ undisturbed => KubeProgress
  BY DEF KubeInv
<1>n. NoVim.state = "none"
  BY DEF NoVim
<1>1. CASE StrategyRequest
  <2>1. /\ TypesOK'
        /\ UNCHANGED <<update, job, central, sub, auditVars, undisturbed>>
        /\ vim' \in {vim, NoVim}
        /\ step'.state = "initial" /\ step'.pc = "begin"
    BY <1>1, RequestMoves
  <2>2. KubeProgress'
    BY <2>1 DEF KubeProgress
  <2> QED
    BY <1>0, <1>n, <2>1, <2>2 DEF KubeInv
<1>2. CASE StartStep(JobData)
  <2>1. /\ TypesOK'
        /\ UNCHANGED <<update, opts, vim, central, sub, auditVars>>
        /\ undisturbed' = ~(update = "kubernetes" /\ vim.state \in VimBusy)
        /\ step'.state = "pre check" /\ step'.pc = "begin"
    BY <1>2, StartMoves
  <2>2. undisturbed' => KubeProgress'
    BY <2>1 DEF KubeProgress, VimBusy
  <2> QED
    BY <1>0, <2>1, <2>2 DEF KubeInv
<1>3. CASE KubeOperators
  BY <1>3, KubeOperatorsStep
<1>4. CASE OperatorRaises
  <2>1. /\ TypesOK'
        /\ UNCHANGED <<update, opts, job, vim, central, sub, auditVars, undisturbed>>
        /\ step'.state = "failed" /\ step'.pc = "begin"
    BY <1>4, RaisesMoves
  <2>2. KubeProgress'
    BY <2>1 DEF KubeProgress
  <2> QED
    BY <1>0, <2>1, <2>2 DEF KubeInv
<1>5. CASE Restart(JobData)
  <2>1. /\ TypesOK'
        /\ UNCHANGED <<update, opts, vim, central, sub, auditVars, undisturbed>>
        /\ step'.state = step.state /\ step'.pc = "begin"
    BY <1>5, RestartMoves
  <2>2. Target' = Target /\ ToVersion' = ToVersion
    BY <2>1 DEF Target, ToVersion
  <2>3. KubeProgress => KubeProgress'
    BY <2>1, <2>2 DEF KubeProgress
  <2> QED
    BY <1>0, <2>1, <2>3 DEF KubeInv
<1>6. ASSUME TypesOK', UNCHANGED progressVars
      PROVE  KubeInv'
  BY <1>0, <1>6 DEF KubeInv, KubeProgress, Target, ToVersion, progressVars
<1>7. CASE Audits \/ AuditSkips
  BY <1>6, <1>7, AuditsMove
<1>8. CASE KubeVimBuilds \/ KubeVimApplies \/ KubeVimFails \/ VimBuildFails
  BY <1>8, KubeVimStep
<1>9. CASE VimElsewhere
  <2>1. /\ TypesOK' /\ ~undisturbed'
        /\ UNCHANGED <<update, step, opts, job, central, sub, auditVars>>
    BY <1>9, ElsewhereMoves
  <2>2. vim'.state \in {"ready-to-apply", "applying"} => vim'.target # 0
    BY <1>0, <1>9, <1>n DEF VimElsewhere, TypesOK, StrategyOK
  <2> QED
    BY <1>0, <2>1, <2>2 DEF KubeInv
<1>10. CASE OthersChange
  <2>1. /\ TypesOK' /\ ~undisturbed'
        /\ UNCHANGED <<update, step, opts, job, vim, auditVars>>
    BY <1>10, OthersMove
  <2>2. central' \in KubeCentrals /\ sub' \in KubeSubs
    BY <1>0, <1>10, OthersOf, KubeChangesStep
  <2> QED
    BY <1>0, <2>1, <2>2 DEF KubeInv
<1>11. CASE UNCHANGED endpointVars
  <2>1. TypesOK' /\ UNCHANGED progressVars
    BY <1>11 DEF endpointVars, progressVars, bounded, TypesOK, StepOK, StrategyOK, Things
  <2> QED
    BY <1>6, <2>1
<1> QED
  BY <1>1, <1>2, <1>3, <1>4, <1>5, <1>7, <1>8, <1>9, <1>10, <1>11
     DEF EndpointNext, Operators, VimWorks, VimGoesWrong, PatchOperators, FirmwareOperators,
         RootcaOperators

LEMMA RootcaOperatorsStep ==
  ASSUME TypesOK, RootcaInv, RootcaOperators
  PROVE  TypesOK' /\ RootcaInv'
<1>0. /\ update = "kube rootca" /\ central = {} /\ sub \in RootcaSubs
      /\ undisturbed => RootcaProgress
      /\ StepOK /\ StrategyOK
      /\ vim \in [state : VimStates, target : 0..MaxVersion]
      /\ sub \in [expiring : BOOLEAN, update : RootcaUpdates]
  BY DEF RootcaOperators, RootcaInv, TypesOK, StrategyOK, RootcaSubs
<1>q. ASSUME StepOK', vim' \in [state : VimStates, target : 0..MaxVersion],
             OperatorQuiet, sub' \in RootcaSubs, RootcaProgress => RootcaProgress'
      PROVE  TypesOK' /\ RootcaInv'
  <2>1. UNCHANGED <<update, opts, job, central, undisturbed, bounded>>
    BY <1>q DEF OperatorQuiet
  <2>2. StrategyOK'
    BY <1>0, <1>q, <2>1 DEF StrategyOK, bounded
  <2> QED
    BY <1>0, <1>q, <2>1, <2>2 DEF TypesOK, RootcaInv
<1>n. NoVim.state = "none"
  BY DEF NoVim
<1>1. CASE RootcaPreCheck \/ StartUpdate \/ UploadCert
  <2>1. /\ OperatorQuiet /\ vim' = vim /\ update' = update
        /\ step.state \in {"pre check", "start", "upload cert"}
    BY <1>1 DEF RootcaPreCheck, StartUpdate, UploadCert, Begins, OperatorQuiet
  <2>2. PICK s \in {"start", "creating vim", "upload cert", "failed"} : Enter(s)
    <3>1. /\ step.state = "pre check" => NextState = "creating vim"
          /\ step.state = "start" => NextState = "upload cert"
          /\ step.state = "upload cert" => NextState = "creating vim"
      BY <1>0, NextStateGives
    <3> QED
      BY <1>1, <3>1 DEF RootcaPreCheck, StartUpdate, UploadCert, Begins, Raise
  <2>3. /\ StepOK' /\ step'.pc = "begin"
        /\ step'.state \in {"start", "creating vim", "upload cert", "failed"}
    BY <2>1, <2>2, EnterGives DEF StepStates, Ended
  <2>4. sub' \in RootcaSubs /\ sub'.expiring = sub.expiring
    <3>1. sub' = sub \/ \E u \in {"started", "cert uploaded"} : sub' = [sub EXCEPT !.update = u]
      BY <1>1 DEF RootcaPreCheck, StartUpdate, UploadCert
    <3> QED
      BY <1>0, <3>1 DEF RootcaSubs, RootcaUpdates
  <2>5. RootcaProgress'
    BY <2>3 DEF RootcaProgress
  <2> QED
    BY <1>0, <1>q, <2>1, <2>3, <2>4, <2>5
<1>2. CASE CreatesVim(0)
  <2>1. /\ StepOK' /\ vim' \in [state : VimStates, target : 0..MaxVersion]
        /\ OperatorQuiet /\ sub' = sub
        /\ Created(0)
    <3>1. 0 \in 0..MaxVersion
      BY KubeStepsAssumption
    <3> QED
      BY <1>0, <1>2, <3>1, CreatesMoves
  <2>2. /\ step'.state \in {"failed", "creating vim", "applying vim"}
        /\ step'.state = "applying vim" => vim'.state = "ready-to-apply"
    <3>1. update # "patch"
      BY <1>0
    <3>2. \/ step'.state = "failed"
          \/ step'.state = "creating vim"
          \/ step'.state = "applying vim" /\ vim.state = "ready-to-apply" /\ vim' = vim
      BY <2>1, <3>1, Zenon DEF Created
    <3> QED
      BY <3>2
  <2>3. RootcaProgress'
    BY <2>2 DEF RootcaProgress
  <2> QED
    BY <1>0, <1>q, <2>1, <2>3
<1>3. CASE AppliesVim
  <2>1. /\ StepOK' /\ vim' \in [state : VimStates, target : 0..MaxVersion]
        /\ OperatorQuiet /\ sub' = sub
        /\ AppliedOne
    BY <1>0, <1>3, AppliesMoves
  <2>2. RootcaProgress => RootcaProgress'
    BY <2>1, <1>0 DEF RootcaProgress, AppliedOne
  <2> QED
    BY <1>0, <1>q, <2>1, <2>2
<1> QED
  BY <1>1, <1>2, <1>3 DEF RootcaOperators

LEMMA RootcaVimStep ==
  ASSUME TypesOK, RootcaInv, update = "kube rootca",
         KubeVimBuilds \/ KubeVimApplies \/ KubeVimFails \/ VimBuildFails
  PROVE  TypesOK' /\ RootcaInv'
<1>0. /\ central = {} /\ sub \in RootcaSubs
      /\ undisturbed => RootcaProgress
      /\ vim \in [state : VimStates, target : 0..MaxVersion]
      /\ sub \in [expiring : BOOLEAN, update : RootcaUpdates]
  BY DEF RootcaInv, TypesOK, StrategyOK, RootcaSubs
<1>1. VimQuiet /\ (UNCHANGED bounded \/ Fault)
  BY DEF KubeVimBuilds, KubeVimApplies, KubeVimFails, VimBuildFails
<1>q. UNCHANGED <<update, step, opts, central, undisturbed>>
  BY <1>1 DEF VimQuiet
<1>2. PICK s \in VimStates :
        /\ vim' = [vim EXCEPT !.state = s]
        /\ s = "applied" => KubeVimApplies
  <2>1. CASE KubeVimBuilds \/ VimBuildFails
    <3>1. \E s \in {"build-failed", "ready-to-apply"} : vim' = [vim EXCEPT !.state = s]
      <4>1. CASE KubeVimBuilds
        <5>1. \/ Built("build-failed")
              \/ Built("ready-to-apply")
          BY <4>1 DEF KubeVimBuilds
        <5> QED
          BY <5>1 DEF Built
      <4> QED
        BY <2>1, <4>1 DEF VimBuildFails, Built
    <3>2. {"build-failed", "ready-to-apply"} \subseteq VimStates \ {"applied"}
      BY DEF VimStates
    <3>3. PICK x \in {"build-failed", "ready-to-apply"} : vim' = [vim EXCEPT !.state = x]
      BY <3>1
    <3>4. x \in VimStates /\ x # "applied"
      BY <3>2
    <3> QED
      BY <3>3, <3>4
  <2>2. CASE KubeVimFails
    <3>1. vim' = [vim EXCEPT !.state = "apply-failed"]
      BY <2>2 DEF KubeVimFails, Applied
    <3>2. "apply-failed" \in VimStates /\ "apply-failed" # "applied"
      BY DEF VimStates
    <3> QED
      BY <3>1, <3>2, Zenon
  <2>3. CASE KubeVimApplies
    <3>1. vim' = [vim EXCEPT !.state = "applied"]
      BY <2>3 DEF KubeVimApplies, Applied
    <3>2. "applied" \in VimStates
      BY DEF VimStates
    <3> QED
      BY <2>3, <3>1, <3>2, Zenon
  <2> QED
    BY <2>1, <2>2, <2>3
<1>3. TypesOK' /\ vim'.state = s
  BY <1>0, <1>1, <1>2, VimMoves
<1>4. CASE KubeVimApplies
  <2>1. sub' = [expiring |-> FALSE, update |-> "none"]
    BY <1>4 DEF KubeVimApplies
  <2>2. sub' \in RootcaSubs /\ ~sub'.expiring
    BY <2>1 DEF RootcaSubs, RootcaUpdates
  <2>3. RootcaProgress'
    BY <2>2 DEF RootcaProgress
  <2> QED
    BY <1>0, <1>q, <1>3, <2>2, <2>3 DEF RootcaInv
<1>5. CASE ~KubeVimApplies
  <2>1. sub' = sub \/ sub' = [sub EXCEPT !.update = "updating"]
    BY <1>5 DEF KubeVimBuilds, KubeVimFails, VimBuildFails, Built
  <2>2. sub' \in RootcaSubs /\ sub'.expiring = sub.expiring
    BY <1>0, <2>1 DEF RootcaSubs, RootcaUpdates
  <2>3. vim'.state # "applied"
    BY <1>2, <1>3, <1>5
  <2>4. RootcaProgress => RootcaProgress'
    BY <1>q, <2>2, <2>3 DEF RootcaProgress
  <2> QED
    BY <1>0, <1>q, <1>3, <2>2, <2>4 DEF RootcaInv
<1> QED
  BY <1>4, <1>5

LEMMA RootcaStep ==
  ASSUME TypesOK, RootcaInv, update = "kube rootca", [EndpointNext]_endpointVars
  PROVE  TypesOK' /\ RootcaInv'
<1>0. /\ central = {} /\ sub \in RootcaSubs
      /\ undisturbed => RootcaProgress
      /\ sub \in [expiring : BOOLEAN, update : RootcaUpdates]
  BY DEF RootcaInv, RootcaSubs
<1>1. CASE StrategyRequest
  <2>1. /\ TypesOK'
        /\ UNCHANGED <<update, job, central, sub, auditVars, undisturbed>>
        /\ step'.state = "initial"
    BY <1>1, RequestMoves
  <2>2. RootcaProgress'
    BY <2>1 DEF RootcaProgress
  <2> QED
    BY <1>0, <2>1, <2>2 DEF RootcaInv
<1>2. CASE StartStep(JobData)
  <2>1. /\ TypesOK'
        /\ UNCHANGED <<update, opts, vim, central, sub, auditVars>>
        /\ step'.state = "pre check"
    BY <1>2, StartMoves
  <2>2. RootcaProgress'
    BY <2>1 DEF RootcaProgress
  <2> QED
    BY <1>0, <2>1, <2>2 DEF RootcaInv
<1>3. CASE RootcaOperators
  BY <1>3, RootcaOperatorsStep
<1>4. CASE OperatorRaises
  <2>1. /\ TypesOK'
        /\ UNCHANGED <<update, opts, job, vim, central, sub, auditVars, undisturbed>>
        /\ step'.state = "failed"
    BY <1>4, RaisesMoves
  <2>2. RootcaProgress'
    BY <2>1 DEF RootcaProgress
  <2> QED
    BY <1>0, <2>1, <2>2 DEF RootcaInv
<1>5. CASE Restart(JobData)
  <2>1. /\ TypesOK'
        /\ UNCHANGED <<update, opts, vim, central, sub, auditVars, undisturbed>>
        /\ step'.state = step.state
    BY <1>5, RestartMoves
  <2>3. RootcaProgress => RootcaProgress'
    BY <2>1 DEF RootcaProgress
  <2> QED
    BY <1>0, <2>1, <2>3 DEF RootcaInv
<1>6. ASSUME TypesOK', UNCHANGED progressVars
      PROVE  RootcaInv'
  BY <1>0, <1>6 DEF RootcaInv, RootcaProgress, progressVars
<1>7. CASE Audits \/ AuditSkips
  BY <1>6, <1>7, AuditsMove
<1>8. CASE KubeVimBuilds \/ KubeVimApplies \/ KubeVimFails \/ VimBuildFails
  BY <1>8, RootcaVimStep
<1>9. CASE VimElsewhere
  <2>1. /\ TypesOK' /\ ~undisturbed'
        /\ UNCHANGED <<update, step, opts, job, central, sub, auditVars>>
    BY <1>9, ElsewhereMoves
  <2> QED
    BY <1>0, <2>1 DEF RootcaInv
<1>10. CASE OthersChange
  <2>1. /\ TypesOK' /\ ~undisturbed'
        /\ UNCHANGED <<update, step, opts, job, vim, auditVars>>
    BY <1>10, OthersMove
  <2>2. /\ central' = central
        /\ \/ sub' = [sub EXCEPT !.expiring = TRUE]
           \/ sub' = [sub EXCEPT !.update = "aborted"]
    BY <1>10, OthersOf DEF KubeChanges
  <2>3. sub' \in RootcaSubs
    BY <1>0, <2>2 DEF RootcaSubs, RootcaUpdates
  <2> QED
    BY <1>0, <2>1, <2>2, <2>3 DEF RootcaInv
<1>11. CASE UNCHANGED endpointVars
  <2>1. TypesOK' /\ UNCHANGED progressVars
    BY <1>11 DEF endpointVars, progressVars, bounded, TypesOK, StepOK, StrategyOK, Things
  <2> QED
    BY <1>6, <2>1
<1> QED
  BY <1>1, <1>2, <1>3, <1>4, <1>5, <1>7, <1>8, <1>9, <1>10, <1>11
     DEF EndpointNext, Operators, VimWorks, VimGoesWrong, PatchOperators, FirmwareOperators,
         KubeOperators

\* Firmware: the first device of an image.
IsFirst(d, i) == d \in For(i) /\ \A c \in For(i) : d <= c

FirmwareProgress ==
  /\ step.pc = "remove" => step.calls["apply"] = central
  /\ step.pc = "import" =>
       \A i \in central, d \in Devices :
         IsFirst(d, i) /\ sub.written[d][i] = "none" => i \in step.calls["apply"]
  /\ step.state \in VimStages \cup {"complete"} =>
       \A i \in central, d \in Devices : IsFirst(d, i) => sub.written[d][i] # "none"
  /\ step.state = "complete" =>
       \A d \in sub.enabled, i \in sub.applied : sub.written[d][i] \notin {"pending", "failed"}

WrittenIsApplied == \A d \in Devices, i \in Images : sub.written[d][i] # "none" => i \in sub.applied

ApplyIsThere ==
  step.pc \in {"remove", "import"} => step.calls["apply"] \ step.calls["upload"] \subseteq sub.images

FirmwareInv ==
  /\ central \in FirmwareCentrals
  /\ sub \in FirmwareSubs
  /\ WrittenIsApplied
  /\ ApplyIsThere
  /\ undisturbed => FirmwareProgress

\* What is in the record of the subcloud.
LEMMA FirmwareSubType ==
  sub \in FirmwareSubs <=>
    /\ sub \in [images : SUBSET Images, applied : SUBSET Images, enabled : SUBSET Devices,
                written : [Devices -> [Images -> ImageStates]]]
    /\ sub.applied \subseteq sub.images
BY DEF FirmwareSubs

LEMMA ForType ==
  ASSUME sub \in FirmwareSubs, NEW i \in Images
  PROVE  For(i) \subseteq Devices
BY FirmwareSubType DEF For

\* The first device is the one the operator looks at.
LEMMA FirstChosen ==
  ASSUME sub \in FirmwareSubs, NEW i \in Images, NEW d \in Devices, IsFirst(d, i)
  PROVE  /\ For(i) # {}
         /\ (CHOOSE e \in For(i) : \A c \in For(i) : e <= c) = d
<1> DEFINE e == CHOOSE e \in For(i) : \A c \in For(i) : e <= c
<1>1. d \in For(i) /\ \A c \in For(i) : d <= c
  BY DEF IsFirst
<1>2. e \in For(i) /\ \A c \in For(i) : e <= c
  BY <1>1
<1>3. d \in Nat /\ e \in Nat
  <2>1. For(i) \subseteq Nat
    BY ForType, FirmwareStepsAssumption DEF Devices
  <2> QED
    BY <1>1, <1>2, <2>1
<1>4. d <= e /\ e <= d
  BY <1>1, <1>2
<1> HIDE DEF e
<1>5. e = d
  BY <1>3, <1>4
<1> QED
  BY <1>1, <1>5 DEF e

\* The calls of an operator get fewer.
LEMMA CallsChange ==
  ASSUME StepOK, update' = update,
         NEW c \in Calls, NEW S \in SUBSET Things, step' = [step EXCEPT !.calls[c] = S]
  PROVE  /\ StepOK' /\ step'.state = step.state /\ step'.pc = step.pc
         /\ \A b \in Calls : step'.calls[b] = IF b = c THEN S ELSE step.calls[b]
<1>1. step \in [state : StepStates, pc : StepPlaces, calls : [Calls -> SUBSET Things]]
  BY DEF StepOK
<1>2. step' = [step EXCEPT !.calls = [step.calls EXCEPT ![c] = S]]
  BY <1>1
<1>3. /\ step'.state = step.state /\ step'.pc = step.pc
      /\ step'.calls = [step.calls EXCEPT ![c] = S]
  BY <1>1, <1>2
<1>4. [step.calls EXCEPT ![c] = S] \in [Calls -> SUBSET Things]
  BY <1>1
<1>5. step' \in [state : StepStates, pc : StepPlaces, calls : [Calls -> SUBSET Things]]
  BY <1>1, <1>2, <1>4
<1>6. Things' = Things
  BY DEF Things
<1>7. StandsIn(step.state, step.pc)'
  BY <1>3 DEF StepOK, StandsIn
<1>8. \A b \in Calls : step'.calls[b] = IF b = c THEN S ELSE step.calls[b]
  BY <1>1, <1>3
<1> QED
  BY <1>3, <1>5, <1>6, <1>7, <1>8 DEF StepOK

LEMMA SameDevices ==
  ASSUME sub'.enabled = sub.enabled
  PROVE  /\ \A i : For(i)' = For(i)
         /\ \A d, i : IsFirst(d, i)' <=> IsFirst(d, i)
<1>1. \A i : For(i)' = For(i)
  BY DEF For
<1> QED
  BY <1>1 DEF IsFirst

\* What the operators of a firmware step leave alone.
LEMMA FirmwareQuiet ==
  ASSUME TypesOK, central \in FirmwareCentrals, StepOK', OperatorQuiet,
         vim' \in [state : VimStates, target : 0..MaxVersion]
  PROVE  /\ TypesOK' /\ central' \in FirmwareCentrals
         /\ UNCHANGED <<update, central, undisturbed>>
<1>1. UNCHANGED <<update, opts, job, central, undisturbed, bounded>>
  BY DEF OperatorQuiet
<1> QED
  BY <1>1 DEF TypesOK, StrategyOK, bounded

LEMMA CompareImagesStep ==
  ASSUME TypesOK, FirmwareInv, update = "firmware", CompareImages
  PROVE  TypesOK' /\ FirmwareInv'
<1>0. /\ StepOK /\ StrategyOK /\ central \in FirmwareCentrals /\ sub \in FirmwareSubs
      /\ OperatorQuiet /\ vim' = vim /\ sub' = sub /\ update' = update /\ central' = central
      /\ central \subseteq Images /\ sub.images \subseteq Images /\ sub.applied \subseteq Images
      /\ step.state = "importing"
  BY DEF TypesOK, FirmwareInv, CompareImages, OperatorQuiet, Begins, FirmwareCentrals, FirmwareSubs
<1>1. step \in [state : StepStates, pc : StepPlaces, calls : [Calls -> SUBSET Things]]
  BY <1>0 DEF StepOK
<1>2. step' = [step EXCEPT !.pc = "remove",
                 !.calls = [[[step.calls EXCEPT !["remove"] = sub.applied \ central]
                                         EXCEPT !["upload"] = central \ sub.images]
                                         EXCEPT !["apply"] = central]]
  BY <1>1 DEF CompareImages, Calls
<1> DEFINE K == [[[step.calls EXCEPT !["remove"] = sub.applied \ central]
                              EXCEPT !["upload"] = central \ sub.images]
                              EXCEPT !["apply"] = central]
<1>3. Things = Images /\ Things' = Images
  BY <1>0 DEF Things
<1>4. /\ K \in [Calls -> SUBSET Images]
      /\ K["apply"] = central /\ K["upload"] = central \ sub.images
  BY <1>0, <1>1, <1>3 DEF Calls
<1> HIDE DEF K
<1>5. step' = [step EXCEPT !.pc = "remove", !.calls = K]
  BY <1>2 DEF K
<1>6. /\ step'.state = "importing" /\ step'.pc = "remove" /\ step'.calls = K
      /\ step' \in [state : StepStates, pc : StepPlaces, calls : [Calls -> SUBSET Images]]
  BY <1>0, <1>1, <1>3, <1>4, <1>5 DEF StepPlaces
<1>7. StepOK'
  <2>1. StandsIn(step.state, step.pc)'
    BY <1>6 DEF StandsIn
  <2> QED
    BY <1>3, <1>6, <2>1 DEF StepOK
<1>8. ApplyIsThere'
  BY <1>0, <1>4, <1>6 DEF ApplyIsThere
<1>9. FirmwareProgress'
  BY <1>0, <1>4, <1>6 DEF FirmwareProgress, VimStages
<1>10. /\ TypesOK' /\ central' \in FirmwareCentrals
       /\ UNCHANGED <<update, central, undisturbed>>
  BY <1>0, <1>7, FirmwareQuiet DEF TypesOK, StrategyOK
<1> QED
  BY <1>0, <1>8, <1>9, <1>10 DEF FirmwareInv, WrittenIsApplied

LEMMA RemoveImageStep ==
  ASSUME TypesOK, FirmwareInv, update = "firmware", NEW i \in Images, RemoveImage(i)
  PROVE  TypesOK' /\ FirmwareInv'
<1>0. /\ StepOK /\ StrategyOK /\ central \in FirmwareCentrals /\ sub \in FirmwareSubs
      /\ OperatorQuiet /\ vim' = vim /\ update' = update /\ central' = central
      /\ undisturbed' = undisturbed
      /\ step.pc = "remove" /\ step.state = "importing"
      /\ step' = [step EXCEPT !.calls["remove"] = step.calls["remove"] \ {i}]
      /\ WrittenIsApplied /\ ApplyIsThere /\ (undisturbed => FirmwareProgress)
  BY DEF TypesOK, FirmwareInv, RemoveImage, OperatorQuiet, StepOK, StandsIn
<1>1. step \in [state : StepStates, pc : StepPlaces, calls : [Calls -> SUBSET Things]]
  BY <1>0 DEF StepOK
<1>2. /\ StepOK' /\ step'.state = step.state /\ step'.pc = step.pc
      /\ step'.calls["apply"] = step.calls["apply"]
      /\ step'.calls["upload"] = step.calls["upload"]
  <2>1. {"remove", "apply", "upload"} \subseteq Calls
    BY DEF Calls
  <2>2. step.calls["remove"] \ {i} \in SUBSET Things
    BY <1>1, <2>1
  <2> QED
    BY <1>0, <2>1, <2>2, CallsChange
<1> DEFINE W == [d \in Devices |-> [sub.written[d] EXCEPT ![i] = "none"]]
<1>3. sub \in [images : SUBSET Images, applied : SUBSET Images, enabled : SUBSET Devices,
               written : [Devices -> [Images -> ImageStates]]]
  BY <1>0, FirmwareSubType
<1>4. /\ W \in [Devices -> [Images -> ImageStates]]
      /\ \A d \in Devices, j \in Images : W[d][j] = IF j = i THEN "none" ELSE sub.written[d][j]
  <2>1. \A d \in Devices : [sub.written[d] EXCEPT ![i] = "none"] \in [Images -> ImageStates]
    BY <1>3 DEF ImageStates
  <2>2. \A d \in Devices, j \in Images :
          [sub.written[d] EXCEPT ![i] = "none"][j] = IF j = i THEN "none" ELSE sub.written[d][j]
    BY <1>3
  <2> QED
    BY <2>1, <2>2
<1>5. sub' = [sub EXCEPT !.applied = sub.applied \ {i}, !.written = W]
  BY DEF RemoveImage
<1> HIDE DEF W
<1>6. /\ sub' \in FirmwareSubs /\ sub'.images = sub.images /\ sub'.applied = sub.applied \ {i}
      /\ sub'.written = W
  BY <1>0, <1>3, <1>4, <1>5 DEF FirmwareSubs
<1>7. WrittenIsApplied'
  BY <1>0, <1>4, <1>6 DEF WrittenIsApplied
<1>8. ApplyIsThere'
  BY <1>0, <1>2, <1>6 DEF ApplyIsThere
<1>9. FirmwareProgress => FirmwareProgress'
  BY <1>0, <1>2 DEF FirmwareProgress, VimStages
<1>10. TypesOK' /\ central' \in FirmwareCentrals
  BY <1>0, <1>2, FirmwareQuiet DEF TypesOK, StrategyOK
<1> QED
  BY <1>0, <1>6, <1>7, <1>8, <1>9, <1>10 DEF FirmwareInv

LEMMA FindDevicesStep ==
  ASSUME TypesOK, FirmwareInv, update = "firmware", FindDevices
  PROVE  TypesOK' /\ FirmwareInv'
<1>0. /\ StepOK /\ StrategyOK /\ central \in FirmwareCentrals /\ sub \in FirmwareSubs
      /\ OperatorQuiet /\ vim' = vim /\ sub' = sub /\ update' = update /\ central' = central
      /\ undisturbed' = undisturbed /\ central \subseteq Images
      /\ step.pc = "remove" /\ step.state = "importing"
      /\ WrittenIsApplied /\ ApplyIsThere /\ (undisturbed => FirmwareProgress)
  BY DEF TypesOK, FirmwareInv, FindDevices, OperatorQuiet, StepOK, StandsIn, FirmwareCentrals
<1>1. step \in [state : StepStates, pc : StepPlaces, calls : [Calls -> SUBSET Things]]
  BY <1>0 DEF StepOK
<1> DEFINE first(i) == CHOOSE d \in For(i) : \A c \in For(i) : d <= c
           U == {i \in step.calls["upload"] : For(i) # {}}
           A == {i \in step.calls["apply"] : For(i) # {} /\ sub.written[first(i)][i] = "none"}
           K == [[step.calls EXCEPT !["upload"] = U] EXCEPT !["apply"] = A]
<1>2. step' = [step EXCEPT !.pc = "import", !.calls = K]
  BY <1>1 DEF FindDevices, Calls
<1>3. Things = Images /\ Things' = Images
  BY <1>0 DEF Things
<1>4. /\ U \subseteq step.calls["upload"] /\ A \subseteq step.calls["apply"]
      /\ U \in SUBSET Images /\ A \in SUBSET Images
  BY <1>1, <1>3 DEF Calls
<1>5. A \ U \subseteq step.calls["apply"] \ step.calls["upload"]
  OBVIOUS
<1>6. ASSUME NEW i \in step.calls["apply"], NEW d \in Devices, IsFirst(d, i),
             sub.written[d][i] = "none"
      PROVE  i \in A
  <2>1. i \in Images
    BY <1>1, <1>3 DEF Calls
  <2>2. For(i) # {} /\ first(i) = d
    BY <2>1, <1>0, <1>6, FirstChosen
  <2> HIDE DEF first
  <2> QED
    BY <2>2, <1>6
<1> HIDE DEF U, A, first
<1>7. /\ K \in [Calls -> SUBSET Images]
      /\ K["apply"] = A /\ K["upload"] = U
  BY <1>1, <1>3, <1>4 DEF Calls
<1> HIDE DEF K
<1>8. /\ step'.state = "importing" /\ step'.pc = "import" /\ step'.calls = K
      /\ step' \in [state : StepStates, pc : StepPlaces, calls : [Calls -> SUBSET Images]]
  BY <1>0, <1>1, <1>3, <1>7, <1>2 DEF StepPlaces
<1>9. StepOK'
  <2>1. StandsIn(step.state, step.pc)'
    BY <1>8 DEF StandsIn
  <2> QED
    BY <1>3, <1>8, <2>1 DEF StepOK
<1>10. ApplyIsThere'
  BY <1>0, <1>5, <1>7, <1>8 DEF ApplyIsThere
<1>11. FirmwareProgress => FirmwareProgress'
  <2> SUFFICES ASSUME FirmwareProgress
               PROVE  FirmwareProgress'
    OBVIOUS
  <2>1. step.calls["apply"] = central
    BY <1>0 DEF FirmwareProgress
  <2>2. \A i \in central, d \in Devices :
          IsFirst(d, i) /\ sub.written[d][i] = "none" => i \in step'.calls["apply"]
    BY <2>1, <1>6, <1>7, <1>8
  <2>3. \A d, i : IsFirst(d, i)' <=> IsFirst(d, i)
    BY <1>0, SameDevices
  <2> QED
    BY <2>2, <2>3, <1>0, <1>8 DEF FirmwareProgress, VimStages
<1>12. TypesOK' /\ central' \in FirmwareCentrals
  BY <1>0, <1>9, FirmwareQuiet DEF TypesOK, StrategyOK
<1> QED
  BY <1>0, <1>10, <1>11, <1>12 DEF FirmwareInv, WrittenIsApplied

LEMMA UploadImageStep ==
  ASSUME TypesOK, FirmwareInv, update = "firmware", NEW i \in Images, UploadImage(i)
  PROVE  TypesOK' /\ FirmwareInv'
<1>0. /\ StepOK /\ StrategyOK /\ central \in FirmwareCentrals /\ sub \in FirmwareSubs
      /\ OperatorQuiet /\ vim' = vim /\ update' = update /\ central' = central
      /\ undisturbed' = undisturbed
      /\ step.pc = "import" /\ step.state = "importing"
      /\ step' = [step EXCEPT !.calls["upload"] = step.calls["upload"] \ {i}]
      /\ sub' = [sub EXCEPT !.images = sub.images \cup {i}]
      /\ WrittenIsApplied /\ ApplyIsThere /\ (undisturbed => FirmwareProgress)
  BY DEF TypesOK, FirmwareInv, UploadImage, OperatorQuiet, StepOK, StandsIn
<1>1. step \in [state : StepStates, pc : StepPlaces, calls : [Calls -> SUBSET Things]]
  BY <1>0 DEF StepOK
<1>2. /\ StepOK' /\ step'.state = step.state /\ step'.pc = step.pc
      /\ step'.calls["apply"] = step.calls["apply"]
      /\ step'.calls["upload"] = step.calls["upload"] \ {i}
  <2>1. {"apply", "upload"} \subseteq Calls
    BY DEF Calls
  <2>2. step.calls["upload"] \ {i} \in SUBSET Things
    BY <1>1, <2>1
  <2> QED
    BY <1>0, <2>1, <2>2, CallsChange
<1>3. sub \in [images : SUBSET Images, applied : SUBSET Images, enabled : SUBSET Devices,
               written : [Devices -> [Images -> ImageStates]]]
  BY <1>0, FirmwareSubType
<1>4. /\ sub' \in FirmwareSubs /\ sub'.images = sub.images \cup {i}
      /\ sub'.applied = sub.applied /\ sub'.enabled = sub.enabled /\ sub'.written = sub.written
  BY <1>0, <1>3 DEF FirmwareSubs
<1>5. WrittenIsApplied'
  BY <1>0, <1>4 DEF WrittenIsApplied
<1>6. ApplyIsThere'
  BY <1>0, <1>2, <1>4 DEF ApplyIsThere
<1>7. FirmwareProgress => FirmwareProgress'
  <2>1. \A d, j : IsFirst(d, j)' <=> IsFirst(d, j)
    BY <1>4, SameDevices
  <2> QED
    BY <2>1, <1>0, <1>2, <1>4 DEF FirmwareProgress, VimStages
<1>8. TypesOK' /\ central' \in FirmwareCentrals
  BY <1>0, <1>2, FirmwareQuiet DEF TypesOK, StrategyOK
<1> QED
  BY <1>0, <1>4, <1>5, <1>6, <1>7, <1>8 DEF FirmwareInv

\* An image that is applied is written, or to be written, where it fits.
LEMMA ApplyImageStep ==
  ASSUME TypesOK, FirmwareInv, update = "firmware", NEW i \in Images, ApplyImage(i)
  PROVE  TypesOK' /\ FirmwareInv'
<1>0. /\ StepOK /\ StrategyOK /\ central \in FirmwareCentrals /\ sub \in FirmwareSubs
      /\ OperatorQuiet /\ vim' = vim /\ update' = update /\ central' = central
      /\ undisturbed' = undisturbed /\ central \subseteq Images
      /\ step.pc = "import" /\ step.state = "importing"
      /\ i \in step.calls["apply"] \ step.calls["upload"]
      /\ step' = [step EXCEPT !.calls["apply"] = step.calls["apply"] \ {i}]
      /\ WrittenIsApplied /\ ApplyIsThere /\ (undisturbed => FirmwareProgress)
  BY DEF TypesOK, FirmwareInv, ApplyImage, OperatorQuiet, StepOK, StandsIn, FirmwareCentrals
<1>1. step \in [state : StepStates, pc : StepPlaces, calls : [Calls -> SUBSET Things]]
  BY <1>0 DEF StepOK
<1>2. /\ StepOK' /\ step'.state = step.state /\ step'.pc = step.pc
      /\ step'.calls["apply"] = step.calls["apply"] \ {i}
      /\ step'.calls["upload"] = step.calls["upload"]
  <2>1. {"apply", "upload"} \subseteq Calls
    BY DEF Calls
  <2>2. step.calls["apply"] \ {i} \in SUBSET Things
    BY <1>1, <2>1
  <2> QED
    BY <1>0, <2>1, <2>2, CallsChange
<1> DEFINE state(d) == IF d \in For(i) /\ sub.written[d][i] = "none" THEN "pending"
                       ELSE sub.written[d][i]
           W == [d \in Devices |-> [sub.written[d] EXCEPT ![i] = state(d)]]
<1>3. sub \in [images : SUBSET Images, applied : SUBSET Images, enabled : SUBSET Devices,
               written : [Devices -> [Images -> ImageStates]]]
  BY <1>0, FirmwareSubType
<1>d. \A d \in Devices : state(d) \in ImageStates
  BY <1>3 DEF ImageStates
<1>s. ASSUME NEW d \in Devices
      PROVE  (sub.written[d][i] # "none" \/ d \in For(i)) <=> state(d) # "none"
  <2>1. CASE d \in For(i) /\ sub.written[d][i] = "none"
    <3>1. state(d) = "pending"
      BY <2>1
    <3> QED
      BY <2>1, <3>1
  <2>2. CASE ~(d \in For(i) /\ sub.written[d][i] = "none")
    <3>1. state(d) = sub.written[d][i]
      BY <2>2
    <3> HIDE DEF state
    <3> QED
      BY <2>2, <3>1
  <2> QED
    BY <2>1, <2>2
<1>c. sub' = [sub EXCEPT !.applied = sub.applied \cup {i},
                !.written = [d \in Devices |->
                  [sub.written[d] EXCEPT
                     ![i] = IF d \in For(i) /\ sub.written[d][i] = "none" THEN "pending"
                            ELSE sub.written[d][i]]]]
  BY <1>3 DEF ApplyImage
<1>5. sub' = [sub EXCEPT !.applied = sub.applied \cup {i}, !.written = W]
  BY <1>c
<1> HIDE DEF state
<1>4. /\ W \in [Devices -> [Images -> ImageStates]]
      /\ \A d \in Devices, j \in Images : W[d][j] = IF j = i THEN state(d) ELSE sub.written[d][j]
  <2>1. \A d \in Devices : [sub.written[d] EXCEPT ![i] = state(d)] \in [Images -> ImageStates]
    BY <1>3, <1>d
  <2>2. \A d \in Devices, j \in Images :
          [sub.written[d] EXCEPT ![i] = state(d)][j] = IF j = i THEN state(d) ELSE sub.written[d][j]
    BY <1>3
  <2> QED
    BY <2>1, <2>2
<1> HIDE DEF W
<1>i. i \in sub.images
  BY <1>0 DEF ApplyIsThere
<1>6. /\ sub' \in FirmwareSubs /\ sub'.images = sub.images
      /\ sub'.applied = sub.applied \cup {i}
      /\ sub'.enabled = sub.enabled /\ sub'.written = W
  <2>1. sub.applied \subseteq sub.images
    BY <1>0, FirmwareSubType
  <2>2. W \in [Devices -> [Images -> ImageStates]]
    BY <1>4
  <2> QED
    BY <2>1, <2>2, <1>i, <1>3, <1>5 DEF FirmwareSubs
<1>7. WrittenIsApplied'
  BY <1>0, <1>4, <1>6 DEF WrittenIsApplied
<1>8. ApplyIsThere'
  BY <1>0, <1>2, <1>6 DEF ApplyIsThere
<1>9. FirmwareProgress => FirmwareProgress'
  <2> SUFFICES ASSUME FirmwareProgress
               PROVE  FirmwareProgress'
    OBVIOUS
  <2>1. \A d, j : IsFirst(d, j)' <=> IsFirst(d, j)
    BY <1>6, SameDevices
  <2>2. ASSUME NEW j \in central, NEW d \in Devices, IsFirst(d, j), W[d][j] = "none"
        PROVE  j \in step'.calls["apply"]
    <3>1. j \in Images /\ d \in For(j)
      BY <1>0, <2>2 DEF IsFirst
    <3>2. j # i
      BY <2>2, <3>1, <1>4, <1>s
    <3>3. sub.written[d][j] = "none"
      BY <2>2, <3>1, <3>2, <1>4
    <3> QED
      BY <2>2, <3>2, <3>3, <1>0, <1>2 DEF FirmwareProgress
  <2> QED
    BY <2>1, <2>2, <1>0, <1>2, <1>6 DEF FirmwareProgress, VimStages
<1>10. TypesOK' /\ central' \in FirmwareCentrals
  BY <1>0, <1>2, FirmwareQuiet DEF TypesOK, StrategyOK
<1> QED
  BY <1>0, <1>6, <1>7, <1>8, <1>9, <1>10 DEF FirmwareInv

\* Once the images are imported a step is about the VIM alone.
LEMMA FirmwareVimStages ==
  ASSUME TypesOK, FirmwareInv, update = "firmware",
         Imported \/ FirmwareCreatesVim \/ FirmwareAppliesVim
  PROVE  TypesOK' /\ FirmwareInv'
<1>0. /\ StepOK /\ StrategyOK /\ central \in FirmwareCentrals /\ sub \in FirmwareSubs
      /\ WrittenIsApplied /\ (undisturbed => FirmwareProgress)
      /\ step \in [state : StepStates, pc : StepPlaces, calls : [Calls -> SUBSET Things]]
      /\ central \subseteq Images
  BY DEF TypesOK, FirmwareInv, StepOK, FirmwareCentrals
<1>1. /\ StepOK' /\ vim' \in [state : VimStates, target : 0..MaxVersion]
      /\ OperatorQuiet /\ sub' = sub
      /\ step'.pc \notin {"remove", "import"}
      /\ step'.state \in VimStages \cup {"failed"}
      /\ \/ step.pc = "import" /\ step.calls = NoCalls
         \/ step.state \in VimStages
         \/ step'.state = "failed"
  <2>1. CASE Imported
    <3>1. /\ step.state = "importing" /\ step.pc = "import" /\ step.calls = NoCalls
          /\ Enter(NextState) /\ OperatorQuiet /\ vim' = vim /\ sub' = sub /\ update' = update
      BY <2>1 DEF Imported, TypesOK, StepOK, StandsIn, OperatorQuiet
    <3>2. NextState = "creating vim" /\ "creating vim" \in StepStates
      BY <3>1, NextStateGives DEF StepStates
    <3> QED
      BY <3>1, <3>2, <1>0, EnterGives DEF StrategyOK, VimStages
  <2>2. CASE FirmwareCreatesVim
    <3>1. 0 \in 0..MaxVersion
      BY KubeStepsAssumption
    <3>2. /\ StepOK' /\ vim' \in [state : VimStates, target : 0..MaxVersion]
          /\ OperatorQuiet /\ sub' = sub
          /\ Created(0)
      BY <2>2, <3>1, <1>0, CreatesMoves DEF FirmwareCreatesVim
    <3>3. /\ step'.pc \in {"begin", "delete", "create", "build wait"}
          /\ step'.state = "failed" \/ (step.state \in VimStages /\ step'.state \in VimStages)
      BY <3>2 DEF Created, VimStages
    <3> QED
      BY <3>2, <3>3
  <2>3. CASE FirmwareAppliesVim
    <3>2. /\ StepOK' /\ vim' \in [state : VimStates, target : 0..MaxVersion]
          /\ OperatorQuiet /\ sub' = sub
          /\ AppliedOne
      BY <2>3, <1>0, AppliesMoves DEF FirmwareAppliesVim
    <3>3. /\ step'.pc \in {"begin", "apply wait"}
          /\ step'.state = "failed" \/ (step.state \in VimStages /\ step'.state \in VimStages)
      BY <3>2 DEF AppliedOne, VimStages
    <3> QED
      BY <3>2, <3>3
  <2> QED
    BY <2>1, <2>2, <2>3
<1>2. /\ TypesOK' /\ central' \in FirmwareCentrals
      /\ UNCHANGED <<update, central, undisturbed>>
  BY <1>0, <1>1, FirmwareQuiet
<1>3. FirmwareProgress => FirmwareProgress'
  <2> SUFFICES ASSUME FirmwareProgress, step'.state \in VimStages
               PROVE  \A i \in central, d \in Devices : IsFirst(d, i) => sub.written[d][i] # "none"
    <3>1. \A d, i : IsFirst(d, i)' <=> IsFirst(d, i)
      BY <1>1, SameDevices
    <3> QED
      BY <3>1, <1>1, <1>2 DEF FirmwareProgress, VimStages
  <2>1. CASE step.state \in VimStages
    BY <2>1 DEF FirmwareProgress
  <2>2. CASE step.pc = "import" /\ step.calls = NoCalls
    <3>1. step.calls["apply"] = {}
      BY <2>2 DEF NoCalls, Calls
    <3> QED
      BY <2>2, <3>1 DEF FirmwareProgress
  <2> QED
    BY <1>1, <2>1, <2>2 DEF VimStages
<1> QED
  BY <1>0, <1>1, <1>2, <1>3 DEF FirmwareInv, WrittenIsApplied, ApplyIsThere

LEMMA FinishFirmwareStep ==
  ASSUME TypesOK, FirmwareInv, update = "firmware", FinishFirmware
  PROVE  TypesOK' /\ FirmwareInv'
<1>0. /\ StepOK /\ StrategyOK /\ central \in FirmwareCentrals /\ sub \in FirmwareSubs
      /\ WrittenIsApplied /\ (undisturbed => FirmwareProgress)
      /\ UNCHANGED <<update, opts, job, vim, central, sub, audit, undisturbed, bounded>>
      /\ step.state = "finishing"
  BY DEF TypesOK, FirmwareInv, FinishFirmware, Begins
<1>1. /\ NextState = "complete" /\ {"failed", "complete"} \subseteq StepStates
  BY <1>0, NextStateGives DEF StepStates, Ended
<1>2. \/ Enter("failed")
      \/ /\ Enter("complete")
         /\ \A d \in sub.enabled, i \in sub.applied : sub.written[d][i] \notin {"pending", "failed"}
  BY <1>1 DEF FinishFirmware, Raise
<1>3. /\ StepOK' /\ step'.pc = "begin"
      /\ \/ step'.state = "failed"
         \/ /\ step'.state = "complete"
            /\ \A d \in sub.enabled, i \in sub.applied : sub.written[d][i] \notin {"pending", "failed"}
  BY <1>0, <1>1, <1>2, EnterGives
<1>4. FirmwareProgress => FirmwareProgress'
  <2>1. \A d, i : IsFirst(d, i)' <=> IsFirst(d, i)
    BY <1>0, SameDevices
  <2> QED
    BY <2>1, <1>0, <1>3 DEF FirmwareProgress, VimStages
<1>5. TypesOK'
  BY <1>0, <1>3 DEF TypesOK, StrategyOK, bounded
<1> QED
  BY <1>0, <1>3, <1>4, <1>5 DEF FirmwareInv, WrittenIsApplied, ApplyIsThere

\* Writing makes no image pending, and none unwritten.
LEMMA WriteGives ==
  ASSUME sub \in FirmwareSubs, NEW D, WriteImages(D)
  PROVE  /\ sub' \in FirmwareSubs
         /\ sub'.images = sub.images /\ sub'.applied = sub.applied /\ sub'.enabled = sub.enabled
         /\ \A d \in Devices, i \in Images :
              /\ sub'.written[d][i] = "none" <=> sub.written[d][i] = "none"
              /\ sub'.written[d][i] \in {"pending", "failed"} =>
                   sub.written[d][i] \in {"pending", "failed"}
<1> DEFINE state(d, i) == IF sub.written[d][i] \in {"pending", "failed"}
                          THEN IF d \in D THEN "completed" ELSE "failed"
                          ELSE sub.written[d][i]
           W == [d \in Devices |-> [i \in Images |-> state(d, i)]]
<1>1. sub \in [images : SUBSET Images, applied : SUBSET Images, enabled : SUBSET Devices,
               written : [Devices -> [Images -> ImageStates]]]
  BY FirmwareSubType
<1>2. sub' = [sub EXCEPT !.written = W]
  BY DEF WriteImages
<1>3. ASSUME NEW d \in Devices, NEW i \in Images
      PROVE  /\ state(d, i) \in ImageStates
             /\ state(d, i) = "none" <=> sub.written[d][i] = "none"
             /\ state(d, i) \in {"pending", "failed"} => sub.written[d][i] \in {"pending", "failed"}
  <2>1. sub.written[d][i] \in ImageStates
    BY <1>1
  <2>2. CASE sub.written[d][i] \in {"pending", "failed"}
    <3>1. state(d, i) \in {"completed", "failed"}
      BY <2>2
    <3> HIDE DEF state
    <3> QED
      BY <2>2, <3>1 DEF ImageStates
  <2>3. CASE sub.written[d][i] \notin {"pending", "failed"}
    <3>1. state(d, i) = sub.written[d][i]
      BY <2>3
    <3> HIDE DEF state
    <3> QED
      BY <2>1, <3>1
  <2> QED
    BY <2>2, <2>3
<1> HIDE DEF state
<1>4. /\ W \in [Devices -> [Images -> ImageStates]]
      /\ \A d \in Devices, i \in Images : W[d][i] = state(d, i)
  BY <1>3
<1> HIDE DEF W
<1>5. /\ sub' \in FirmwareSubs /\ sub'.images = sub.images /\ sub'.applied = sub.applied
      /\ sub'.enabled = sub.enabled /\ sub'.written = W
  BY <1>1, <1>2, <1>4 DEF FirmwareSubs
<1> QED
  BY <1>3, <1>4, <1>5

LEMMA FirmwareVimStep ==
  ASSUME TypesOK, FirmwareInv, update = "firmware",
         \/ FirmwareVimBuilds \/ FirmwareVimApplies \/ VimBuildFails
         \/ \E D \in SUBSET Devices, o \in {"applied", "apply-failed"} : FirmwareVimFails(D, o)
  PROVE  TypesOK' /\ FirmwareInv'
<1>0. /\ central \in FirmwareCentrals /\ sub \in FirmwareSubs
      /\ WrittenIsApplied /\ ApplyIsThere /\ (undisturbed => FirmwareProgress)
      /\ vim \in [state : VimStates, target : 0..MaxVersion]
      /\ central \subseteq Images
  BY DEF TypesOK, FirmwareInv, StrategyOK, FirmwareCentrals
<1>1. /\ VimQuiet /\ (UNCHANGED bounded \/ Fault)
      /\ \E s \in VimStates : vim' = [vim EXCEPT !.state = s]
      /\ sub' = sub \/ \E D \in SUBSET Devices : WriteImages(D)
  <2>1. {"build-failed", "ready-to-apply", "applied", "apply-failed"} \subseteq VimStates
    BY DEF VimStates
  <2>2. CASE FirmwareVimBuilds
    <3>1. /\ Built("build-failed") \/ Built("ready-to-apply")
          /\ UNCHANGED bounded /\ VimQuiet
      BY <2>2 DEF FirmwareVimBuilds
    <3> QED
      BY <2>1, <3>1, Zenon DEF Built
  <2>3. CASE FirmwareVimApplies
    <3>1. /\ vim' = [vim EXCEPT !.state = "applied"] /\ WriteImages(Devices)
          /\ UNCHANGED bounded /\ VimQuiet
      BY <2>3 DEF FirmwareVimApplies, Applied
    <3> QED
      BY <2>1, <3>1, Zenon
  <2>4. CASE VimBuildFails
    <3>1. Built("build-failed") /\ Fault /\ VimQuiet
      BY <2>4 DEF VimBuildFails
    <3> QED
      BY <2>1, <3>1, Zenon DEF Built
  <2>5. ASSUME NEW D \in SUBSET Devices, NEW o \in {"applied", "apply-failed"},
               FirmwareVimFails(D, o)
        PROVE  /\ VimQuiet /\ (UNCHANGED bounded \/ Fault)
               /\ \E s \in VimStates : vim' = [vim EXCEPT !.state = s]
               /\ sub' = sub \/ \E C \in SUBSET Devices : WriteImages(C)
    <3>1. /\ vim' = [vim EXCEPT !.state = o] /\ WriteImages(D)
          /\ Fault /\ VimQuiet
      BY <2>5 DEF FirmwareVimFails, Applied
    <3>2. o \in VimStates
      BY <2>1
    <3> QED
      BY <3>1, <3>2, Zenon
  <2> QED
    BY <2>2, <2>3, <2>4, <2>5
<1>2. UNCHANGED <<update, step, opts, central, undisturbed>>
  BY <1>1 DEF VimQuiet
<1>3. TypesOK'
  BY <1>1, VimMoves
<1>4. /\ sub' \in FirmwareSubs
      /\ sub'.images = sub.images /\ sub'.applied = sub.applied /\ sub'.enabled = sub.enabled
      /\ \A d \in Devices, i \in Images :
           /\ sub'.written[d][i] = "none" <=> sub.written[d][i] = "none"
           /\ sub'.written[d][i] \in {"pending", "failed"} =>
                sub.written[d][i] \in {"pending", "failed"}
  BY <1>0, <1>1, WriteGives
<1>5. WrittenIsApplied'
  BY <1>0, <1>4 DEF WrittenIsApplied
<1>6. ApplyIsThere'
  BY <1>0, <1>2, <1>4 DEF ApplyIsThere
<1>7. FirmwareProgress => FirmwareProgress'
  <2> SUFFICES ASSUME FirmwareProgress
               PROVE  FirmwareProgress'
    OBVIOUS
  <2>1. \A d, i : IsFirst(d, i)' <=> IsFirst(d, i)
    BY <1>4, SameDevices
  <2>2. sub.enabled \subseteq Devices /\ sub.applied \subseteq Images
    BY <1>0, FirmwareSubType
  <2>3. (step.pc = "remove" => step.calls["apply"] = central)'
    BY <1>2 DEF FirmwareProgress
  <2>4. (step.pc = "import" =>
          \A i \in central, d \in Devices :
            IsFirst(d, i) /\ sub.written[d][i] = "none" => i \in step.calls["apply"])'
    BY <2>1, <1>0, <1>2, <1>4 DEF FirmwareProgress
  <2>5. (step.state \in VimStages \cup {"complete"} =>
          \A i \in central, d \in Devices : IsFirst(d, i) => sub.written[d][i] # "none")'
    BY <2>1, <1>0, <1>2, <1>4 DEF FirmwareProgress, VimStages
  <2>6. (step.state = "complete" =>
          \A d \in sub.enabled, i \in sub.applied : sub.written[d][i] \notin {"pending", "failed"})'
    BY <2>2, <1>2, <1>4 DEF FirmwareProgress
  <2> QED
    BY <2>3, <2>4, <2>5, <2>6 DEF FirmwareProgress
<1> QED
  BY <1>0, <1>2, <1>3, <1>4, <1>5, <1>6, <1>7 DEF FirmwareInv

LEMMA FirmwareChangesStep ==
  ASSUME FirmwareInv, FirmwareChanges, step' = step
  PROVE  /\ central' \in FirmwareCentrals /\ sub' \in FirmwareSubs
         /\ WrittenIsApplied' /\ ApplyIsThere'
<1>1. CASE sub' = sub /\ \E i \in Images : central' = (IF i \in central THEN central \ {i} ELSE central \cup {i})
  BY <1>1 DEF FirmwareInv, FirmwareCentrals, WrittenIsApplied, ApplyIsThere
<1>2. CASE central' = central /\ \E d \in Devices \ sub.enabled : sub' = [sub EXCEPT !.enabled = @ \cup {d}]
  <2>1. PICK d \in Devices : sub' = [sub EXCEPT !.enabled = sub.enabled \cup {d}]
    BY <1>2
  <2>2. sub \in [images : SUBSET Images, applied : SUBSET Images, enabled : SUBSET Devices,
                 written : [Devices -> [Images -> ImageStates]]]
    BY FirmwareSubType DEF FirmwareInv
  <2>3. /\ sub' \in [images : SUBSET Images, applied : SUBSET Images, enabled : SUBSET Devices,
                     written : [Devices -> [Images -> ImageStates]]]
        /\ sub'.images = sub.images /\ sub'.applied = sub.applied /\ sub'.written = sub.written
    BY <2>1, <2>2
  <2>4. sub' \in FirmwareSubs
    BY <2>3 DEF FirmwareInv, FirmwareSubs
  <2> QED
    BY <1>2, <2>3, <2>4 DEF FirmwareInv, WrittenIsApplied, ApplyIsThere
<1> QED
  BY <1>1, <1>2 DEF FirmwareChanges

LEMMA FirmwareStep ==
  ASSUME TypesOK, FirmwareInv, update = "firmware", [EndpointNext]_endpointVars
  PROVE  TypesOK' /\ FirmwareInv'
<1>0. /\ central \in FirmwareCentrals /\ sub \in FirmwareSubs
      /\ WrittenIsApplied /\ ApplyIsThere /\ (undisturbed => FirmwareProgress)
  BY DEF FirmwareInv
<1>a. ASSUME TypesOK', UNCHANGED <<update, central, sub, undisturbed>>,
             step'.pc = "begin",
             step'.state \in {"initial", "importing", "failed"} \/ step'.state = step.state
      PROVE  FirmwareInv'
  <2>1. \A d, i : IsFirst(d, i)' <=> IsFirst(d, i)
    BY <1>a, SameDevices
  <2>2. FirmwareProgress => FirmwareProgress'
    BY <2>1, <1>a DEF FirmwareProgress, VimStages
  <2> QED
    BY <1>0, <1>a, <2>2 DEF FirmwareInv, WrittenIsApplied, ApplyIsThere
<1>1. CASE StrategyRequest
  BY <1>1, <1>a, RequestMoves
<1>2. CASE StartStep(JobData)
  <2>1. /\ TypesOK'
        /\ UNCHANGED <<update, opts, vim, central, sub, auditVars>>
        /\ step'.state = "importing" /\ step'.pc = "begin"
    BY <1>2, StartMoves
  <2>2. FirmwareProgress'
    BY <2>1 DEF FirmwareProgress, VimStages
  <2> QED
    BY <1>0, <2>1, <2>2 DEF FirmwareInv, WrittenIsApplied, ApplyIsThere
<1>3. CASE FirmwareOperators
  BY <1>3, CompareImagesStep, RemoveImageStep, FindDevicesStep, UploadImageStep, ApplyImageStep,
     FirmwareVimStages, FinishFirmwareStep DEF FirmwareOperators
<1>4. CASE OperatorRaises
  BY <1>4, <1>a, RaisesMoves
<1>5. CASE Restart(JobData)
  BY <1>5, <1>a, RestartMoves
<1>6. ASSUME TypesOK', UNCHANGED progressVars
      PROVE  FirmwareInv'
  <2>1. \A d, i : IsFirst(d, i)' <=> IsFirst(d, i)
    BY <1>6, SameDevices DEF progressVars
  <2>2. FirmwareProgress => FirmwareProgress'
    BY <2>1, <1>6 DEF FirmwareProgress, VimStages, progressVars
  <2> QED
    BY <1>0, <1>6, <2>2 DEF FirmwareInv, WrittenIsApplied, ApplyIsThere, progressVars
<1>7. CASE Audits \/ AuditSkips
  BY <1>6, <1>7, AuditsMove
<1>8. CASE \/ FirmwareVimBuilds \/ FirmwareVimApplies \/ VimBuildFails
           \/ \E D \in SUBSET Devices, o \in {"applied", "apply-failed"} : FirmwareVimFails(D, o)
  BY <1>8, FirmwareVimStep
<1>9. CASE VimElsewhere
  <2>1. /\ TypesOK' /\ ~undisturbed'
        /\ UNCHANGED <<update, step, opts, job, central, sub, auditVars>>
    BY <1>9, ElsewhereMoves
  <2> QED
    BY <1>0, <2>1 DEF FirmwareInv, WrittenIsApplied, ApplyIsThere
<1>10. CASE OthersChange
  <2>1. /\ TypesOK' /\ ~undisturbed' /\ step' = step
    BY <1>10, OthersMove
  <2> QED
    BY <1>10, <2>1, OthersOf, FirmwareChangesStep DEF FirmwareInv
<1>11. CASE UNCHANGED endpointVars
  <2>1. TypesOK' /\ UNCHANGED progressVars
    BY <1>11 DEF endpointVars, progressVars, bounded, TypesOK, StepOK, StrategyOK, Things
  <2> QED
    BY <1>6, <2>1
<1> QED
  BY <1>1, <1>2, <1>3, <1>4, <1>5, <1>7, <1>8, <1>9, <1>10, <1>11
     DEF EndpointNext, Operators, VimWorks, VimGoesWrong, PatchOperators, KubeOperators,
         RootcaOperators

\* A set of numbers that is not empty has a least one.
LEMMA LeastOf ==
  ASSUME NEW S \in SUBSET Nat, S # {}
  PROVE  \E n \in S : \A m \in S : n <= m
<1>1. IsWellFoundedOn(OpToRel(<, Nat), Nat)
  BY NatLessThanWellFounded
<1>2. PICK x \in S : \A y \in S : ~(<<y, x>> \in OpToRel(<, Nat))
  BY <1>1, WFMin
<1>3. \A y \in S : ~(y < x)
  BY <1>2 DEF OpToRel
<1> QED
  BY <1>3

\* A device that bears what it should shows it.
LEMMA ShownWhenWritten ==
  ASSUME sub \in FirmwareSubs, NEW d \in Devices, NEW i \in Images,
         sub.written[d][i] # "none",
         \A j \in Images : sub.written[d][j] \in {"none", "completed"}
  PROVE  Shown(d, i) = "completed"
<1> DEFINE alike == {j \in Images : Content[j] = Content[i] /\ sub.written[d][j] # "none"}
           least == CHOOSE j \in alike : \A k \in alike : j <= k
<1>1. i \in alike
  OBVIOUS
<1>2. alike \subseteq Nat
  BY FirmwareStepsAssumption DEF Images
<1>3. least \in alike
  BY <1>1, <1>2, LeastOf
<1>4. sub.written[d][least] = "completed"
  BY <1>3
<1> HIDE DEF least
<1>5. alike # {}
  BY <1>1
<1> QED
  BY <1>4, <1>5 DEF Shown, least

\* A complete step has brought the images, or a device came too late for it.
LEMMA FirmwareIsSame ==
  ASSUME FirmwareInv, FirmwareProgress, step.state = "complete", ~FirmwareBlocked
  PROVE  SameFirmware
<1>0. /\ sub \in FirmwareSubs /\ central \subseteq Images /\ WrittenIsApplied
      /\ sub \in [images : SUBSET Images, applied : SUBSET Images, enabled : SUBSET Devices,
                  written : [Devices -> [Images -> ImageStates]]]
  BY FirmwareSubType DEF FirmwareInv, FirmwareCentrals
<1> SUFFICES ASSUME NEW i \in central, NEW d \in For(i)
             PROVE  Shown(d, i) = "completed"
  BY DEF SameFirmware, FirmwareVerdict
<1>1. i \in Images /\ For(i) \subseteq Devices /\ d \in Devices /\ d \in sub.enabled
  BY <1>0, ForType DEF For
<1>2. PICK f \in For(i) : \A c \in For(i) : f <= c
  <2>1. For(i) \subseteq Nat /\ For(i) # {}
    BY <1>1, FirmwareStepsAssumption DEF Devices
  <2> QED
    BY <2>1, LeastOf
<1>3. sub.written[f][i] # "none"
  BY <1>1, <1>2 DEF FirmwareProgress, IsFirst
<1>4. sub.written[d][i] # "none"
  <2>1. d \in Nat /\ f \in Nat /\ f <= d
    BY <1>1, <1>2, FirmwareStepsAssumption DEF Devices
  <2>2. f < d => sub.written[d][i] # "none"
    BY <1>3 DEF FirmwareBlocked
  <2>3. ~(f < d) => f = d
    BY <2>1
  <2> QED
    BY <2>2, <2>3, <1>3
<1>5. ASSUME NEW j \in Images
      PROVE  sub.written[d][j] \in {"none", "completed"}
  <2>1. sub.written[d][j] \in ImageStates
    BY <1>0, <1>1
  <2>2. sub.written[d][j] # "none" => sub.written[d][j] \notin {"pending", "failed"}
    BY <1>0, <1>1 DEF WrittenIsApplied, FirmwareProgress
  <2> QED
    BY <2>1, <2>2 DEF ImageStates
<1> QED
  BY <1>0, <1>1, <1>4, <1>5, ShownWhenWritten

\* Patches: what a step has still to do for what RegionOne has applied.
UploadFits ==
  /\ opts.uploadOnly \/ \A p \in Patches : sub.repo[p] = "committed" => p \in job.applied
  /\ \A p \in job.applied : sub.repo[p] = "absent" => p \in step.calls["upload"]
  /\ \A p \in job.applied : sub.repo[p] \notin Effective => p \in step.calls["apply"]
  /\ step.calls["apply"] \subseteq job.applied
  /\ \A p \in Patches \ job.applied : sub.repo[p] = "applied" => p \in step.calls["remove"]
  /\ step.calls["remove"] \cap job.applied = {}

ApplyFits ==
  /\ \A p \in job.applied :
       sub.repo[p] \in Effective \/ (p \in step.calls["apply"] /\ sub.repo[p] = "available")
  /\ \A p \in Patches \ job.applied : sub.repo[p] \notin Effective
  /\ step.calls["apply"] \subseteq job.applied

AsCentral == \A p \in Patches : sub.repo[p] \in Effective <=> p \in job.applied

OthersAbsent == \A p \in Patches \ job.applied : sub.repo[p] = "absent"

\* When the VIM must have seen to it that the hosts have what is in effect.
HostsDue ==
  \/ step.pc = "build wait" /\ vim.state = "nothing-to-do"
  \/ step.state = "applying vim" /\ vim.state = "applied"
  \/ step.state = "finishing"

CleanFits ==
  /\ \A p \in Patches : sub.repo[p] = "available" => p \in step.calls["delete"]
  /\ step.calls["delete"] \cap job.applied = {}

CommitFits ==
  /\ \A p \in job.committed : sub.repo[p] = "applied" => p \in step.calls["commit"]
  /\ step.calls["commit"] \subseteq job.applied

PatchDone ==
  /\ AsCentral /\ HostsCurrent /\ OthersAbsent
  /\ \A p \in job.committed : sub.repo[p] = "committed"

PatchProgress ==
  /\ step.state \notin {"none", "initial", "failed"} => job = PatchJob
  /\ step.pc = "upload" => UploadFits
  /\ step.pc = "apply" => ApplyFits
  /\ step.pc = "interim" \/ step.state \in VimStages => AsCentral
  /\ step.state \in VimStages => ~sub.interim
  /\ HostsDue => HostsCurrent
  /\ step.pc = "clean" => CleanFits
  /\ step.pc = "commit" => OthersAbsent
  /\ step.pc \in {"clean", "commit"} => CommitFits
  /\ step.state = "complete" => opts.uploadOnly \/ PatchDone

PatchInv ==
  /\ central \in PatchCentrals
  /\ sub \in PatchSubs
  /\ undisturbed => PatchProgress

LEMMA RepoBecomes ==
  ASSUME sub \in PatchSubs, NEW P, NEW s \in RepoStates
  PROVE  /\ ToState(P, s) \in [Patches -> RepoStates]
         /\ \A p \in Patches : ToState(P, s)[p] = IF p \in P THEN s ELSE sub.repo[p]
<1>1. \A p \in Patches : sub.repo[p] \in RepoStates
  BY DEF PatchSubs
<1> QED
  BY <1>1 DEF ToState

\* The hosts are current patch by patch.
LEMMA HostsPointwise ==
  ASSUME sub \in PatchSubs
  PROVE  HostsCurrent <=> \A p \in Patches : p \in sub.hosts <=> sub.repo[p] \in Effective
<1>1. sub.hosts \subseteq Patches
  BY DEF PatchSubs
<1> QED
  BY <1>1 DEF HostsCurrent, In

\* What the operators of a patch step leave alone.
LEMMA PatchQuiet ==
  ASSUME TypesOK, central \in PatchCentrals, StepOK', OperatorQuiet,
         vim' \in [state : VimStates, target : 0..MaxVersion]
  PROVE  /\ TypesOK' /\ central' \in PatchCentrals
         /\ UNCHANGED <<update, opts, job, central, undisturbed>>
         /\ PatchJob' = PatchJob
<1>1. UNCHANGED <<update, opts, job, central, undisturbed, bounded>>
  BY DEF OperatorQuiet
<1>2. PatchJob' = PatchJob
  BY <1>1 DEF PatchJob, In
<1> QED
  BY <1>1, <1>2 DEF TypesOK, StrategyOK, bounded

LEMMA PatchTypes ==
  ASSUME TypesOK, PatchInv, update = "patch"
  PROVE  /\ StepOK /\ StrategyOK /\ central \in PatchCentrals /\ sub \in PatchSubs
         /\ step \in [state : StepStates, pc : StepPlaces, calls : [Calls -> SUBSET Patches]]
         /\ \A c \in Calls : step.calls[c] \subseteq Patches
         /\ StandsIn(step.state, step.pc)
         /\ vim \in [state : VimStates, target : 0..MaxVersion]
         /\ opts \in [uploadOnly : BOOLEAN, toVersion : 0..MaxVersion, certFile : BOOLEAN]
         /\ job.applied \subseteq Patches /\ job.committed \subseteq Patches
         /\ sub \in [repo : [Patches -> RepoStates], hosts : SUBSET Patches, interim : BOOLEAN]
         /\ \A p \in Patches : sub.repo[p] \in RepoStates
         /\ undisturbed => PatchProgress
         /\ Things = Patches
<1>1. Things = Patches
  BY DEF Things
<1>2. /\ StepOK /\ StrategyOK /\ central \in PatchCentrals /\ sub \in PatchSubs
      /\ undisturbed => PatchProgress
  BY DEF TypesOK, PatchInv
<1>3. step \in [state : StepStates, pc : StepPlaces, calls : [Calls -> SUBSET Patches]]
  BY <1>1, <1>2 DEF StepOK
<1>4. \A c \in Calls : step.calls[c] \subseteq Patches
  BY <1>3
<1>5. /\ sub \in [repo : [Patches -> RepoStates], hosts : SUBSET Patches, interim : BOOLEAN]
      /\ \A p \in Patches : sub.repo[p] \in RepoStates
  BY <1>2 DEF PatchSubs
<1> QED
  BY <1>1, <1>2, <1>3, <1>4, <1>5 DEF StepOK, StrategyOK

\* The conjuncts that count at the begin of a state before the VIM's.
LEMMA PatchBegins ==
  ASSUME step'.pc = "begin", step'.state \in {"initial", "pre check", "updating", "failed"},
         step'.state \in {"initial", "failed"} \/ job' = PatchJob'
  PROVE  PatchProgress'
BY DEF PatchProgress, VimStages, HostsDue

LEMMA PatchPreCheckStep ==
  ASSUME TypesOK, PatchInv, update = "patch", PatchPreCheck
  PROVE  TypesOK' /\ PatchInv'
<1>0. /\ OperatorQuiet /\ vim' = vim /\ sub' = sub /\ update' = update
      /\ step.state = "pre check" /\ Enter(NextState)
  BY DEF PatchPreCheck, OperatorQuiet, Begins
<1>1. NextState = "updating" /\ "updating" \in StepStates
  BY <1>0, NextStateGives DEF StepStates
<1>2. StepOK' /\ step'.state = "updating" /\ step'.pc = "begin"
  BY <1>0, <1>1, EnterGives
<1>3. /\ TypesOK' /\ central' \in PatchCentrals
      /\ UNCHANGED <<update, opts, job, central, undisturbed>>
      /\ PatchJob' = PatchJob
  BY <1>0, <1>2, PatchTypes, PatchQuiet
<1>4. PatchProgress => PatchProgress'
  BY <1>0, <1>2, <1>3, PatchBegins DEF PatchProgress
<1> QED
  BY <1>0, <1>3, <1>4, PatchTypes DEF PatchInv

LEMMA ComparePatchesStep ==
  ASSUME TypesOK, PatchInv, update = "patch", ComparePatches
  PROVE  TypesOK' /\ PatchInv'
<1> USE PatchTypes
<1> DEFINE missing == job.applied \ In(sub.repo, RepoStates \ {"absent"})
           available == In(sub.repo, {"available"}) \cap job.applied
           stray == In(sub.repo, {"applied"}) \ job.applied
           stuck == In(sub.repo, {"committed"}) \ job.applied
           K == [[[step.calls EXCEPT !["upload"] = missing]
                              EXCEPT !["remove"] = stray]
                              EXCEPT !["apply"] = missing \cup available]
<1>0. /\ OperatorQuiet /\ vim' = vim /\ sub' = sub /\ update' = update
      /\ step.state = "updating" /\ step.pc = "begin"
      /\ \/ Enter("failed")
         \/ /\ opts.uploadOnly \/ stuck = {}
            /\ step' = [step EXCEPT !.pc = "upload", !.calls = K]
  <2>1. \/ Enter("failed")
        \/ /\ opts.uploadOnly \/ stuck = {}
           /\ step' = [step EXCEPT !.pc = "upload",
                        !.calls["upload"] = missing,
                        !.calls["remove"] = stray,
                        !.calls["apply"] = missing \cup available]
    BY DEF ComparePatches, Raise
  <2>2. step' = [step EXCEPT !.pc = "upload",
                        !.calls["upload"] = missing,
                        !.calls["remove"] = stray,
                        !.calls["apply"] = missing \cup available]
        => step' = [step EXCEPT !.pc = "upload", !.calls = K]
    BY DEF Calls
  <2> QED
    BY <2>1, <2>2 DEF ComparePatches, OperatorQuiet, Begins
<1>1. CASE Enter("failed")
  <2>1. StepOK' /\ step'.state = "failed" /\ step'.pc = "begin"
    BY <1>0, <1>1, EnterGives DEF StepStates, Ended
  <2>2. PatchProgress'
    BY <2>1, PatchBegins
  <2>3. TypesOK' /\ central' \in PatchCentrals
    BY <1>0, <2>1, PatchQuiet
  <2> QED
    BY <1>0, <2>2, <2>3 DEF PatchInv
<1>2. CASE /\ opts.uploadOnly \/ stuck = {}
           /\ step' = [step EXCEPT !.pc = "upload", !.calls = K]
  <2>1. /\ missing \subseteq Patches /\ stray \subseteq Patches /\ available \subseteq Patches
        /\ \A p \in Patches : p \in missing <=> p \in job.applied /\ sub.repo[p] = "absent"
        /\ \A p \in Patches : p \in available <=> p \in job.applied /\ sub.repo[p] = "available"
        /\ \A p \in Patches : p \in stray <=> p \notin job.applied /\ sub.repo[p] = "applied"
        /\ \A p \in Patches : p \in stuck <=> p \notin job.applied /\ sub.repo[p] = "committed"
    BY DEF In, RepoStates
  <2> HIDE DEF missing, stray, available, stuck
  <2>2. /\ K \in [Calls -> SUBSET Patches] /\ K["upload"] = missing /\ K["remove"] = stray
        /\ K["apply"] = missing \cup available
    BY <2>1 DEF Calls
  <2> HIDE DEF K
  <2>3. /\ step'.state = "updating" /\ step'.pc = "upload" /\ step'.calls = K
        /\ step' \in [state : StepStates, pc : StepPlaces, calls : [Calls -> SUBSET Patches]]
    BY <1>0, <1>2, <2>2 DEF StepPlaces
  <2>4. StepOK'
    <3>1. StandsIn(step.state, step.pc)'
      BY <2>3 DEF StandsIn
    <3>2. Things' = Patches
      BY <1>0 DEF Things
    <3> QED
      BY <2>3, <3>1, <3>2 DEF StepOK
  <2>5. /\ TypesOK' /\ central' \in PatchCentrals
        /\ UNCHANGED <<update, opts, job, central, undisturbed>>
        /\ PatchJob' = PatchJob
    BY <1>0, <2>4, PatchQuiet
  <2>6. UploadFits'
    <3>1. (opts.uploadOnly \/ \A p \in Patches : sub.repo[p] = "committed" => p \in job.applied)'
      BY <1>0, <1>2, <2>1, <2>5
    <3>2. (\A p \in job.applied : sub.repo[p] = "absent" => p \in step.calls["upload"])'
      BY <1>0, <2>1, <2>2, <2>3, <2>5
    <3>3. (\A p \in job.applied : sub.repo[p] \notin Effective => p \in step.calls["apply"])'
      BY <1>0, <2>1, <2>2, <2>3, <2>5 DEF Effective, RepoStates
    <3>4. (/\ step.calls["apply"] \subseteq job.applied
           /\ \A p \in Patches \ job.applied : sub.repo[p] = "applied" => p \in step.calls["remove"]
           /\ step.calls["remove"] \cap job.applied = {})'
      BY <1>0, <2>1, <2>2, <2>3, <2>5
    <3> QED
      BY <3>1, <3>2, <3>3, <3>4 DEF UploadFits
  <2>7. PatchProgress => PatchProgress'
    BY <1>0, <2>3, <2>5, <2>6 DEF PatchProgress, VimStages, HostsDue
  <2> QED
    BY <1>0, <2>5, <2>7 DEF PatchInv
<1> QED
  BY <1>0, <1>1, <1>2

LEMMA UploadPatchStep ==
  ASSUME TypesOK, PatchInv, update = "patch", NEW p \in Patches, UploadPatch(p)
  PROVE  TypesOK' /\ PatchInv'
<1> USE PatchTypes
<1>0. /\ OperatorQuiet /\ vim' = vim /\ update' = update
      /\ step.pc = "upload" /\ step.state = "updating"
      /\ step' = [step EXCEPT !.calls["upload"] = step.calls["upload"] \ {p}]
      /\ sub' = [sub EXCEPT !.repo[p] = IF sub.repo[p] = "absent" THEN "available" ELSE sub.repo[p]]
  BY DEF UploadPatch, OperatorQuiet, StandsIn
<1>1. /\ StepOK' /\ step'.state = step.state /\ step'.pc = step.pc
      /\ step'.calls["upload"] = step.calls["upload"] \ {p}
      /\ step'.calls["apply"] = step.calls["apply"]
      /\ step'.calls["remove"] = step.calls["remove"]
  <2>1. {"remove", "apply", "upload"} \subseteq Calls
    BY DEF Calls
  <2>2. step.calls["upload"] \ {p} \in SUBSET Things
    BY <2>1
  <2> QED
    BY <1>0, <2>1, <2>2, CallsChange
<1>2. /\ sub' \in PatchSubs /\ sub'.hosts = sub.hosts /\ sub'.interim = sub.interim
      /\ \A q \in Patches : sub'.repo[q] = IF q = p /\ sub.repo[p] = "absent" THEN "available"
                                           ELSE sub.repo[q]
  <2> DEFINE s == IF sub.repo[p] = "absent" THEN "available" ELSE sub.repo[p]
             R == [sub.repo EXCEPT ![p] = s]
  <2>1. s \in RepoStates
    BY DEF RepoStates
  <2>2. sub' = [sub EXCEPT !.repo = R]
    BY <1>0
  <2>3. \A q \in Patches : (IF q = p THEN s ELSE sub.repo[q]) =
                           (IF q = p /\ sub.repo[p] = "absent" THEN "available" ELSE sub.repo[q])
    OBVIOUS
  <2> HIDE DEF s
  <2>4. R \in [Patches -> RepoStates] /\ \A q \in Patches : R[q] = IF q = p THEN s ELSE sub.repo[q]
    BY <2>1
  <2> HIDE DEF R
  <2>5. sub' \in PatchSubs /\ sub'.hosts = sub.hosts /\ sub'.interim = sub.interim /\ sub'.repo = R
    BY <2>2, <2>4 DEF PatchSubs
  <2> QED
    BY <2>3, <2>4, <2>5
<1>3. /\ TypesOK' /\ central' \in PatchCentrals
      /\ UNCHANGED <<update, opts, job, central, undisturbed>>
      /\ PatchJob' = PatchJob
  BY <1>0, <1>1, PatchQuiet
<1>4. UploadFits => UploadFits'
  <2> SUFFICES ASSUME UploadFits
               PROVE  UploadFits'
    OBVIOUS
  <2>1. (opts.uploadOnly \/ \A q \in Patches : sub.repo[q] = "committed" => q \in job.applied)'
    BY <1>2, <1>3 DEF UploadFits
  <2>2. (\A q \in job.applied : sub.repo[q] = "absent" => q \in step.calls["upload"])'
    BY <1>1, <1>2, <1>3 DEF UploadFits
  <2>3. (\A q \in job.applied : sub.repo[q] \notin Effective => q \in step.calls["apply"])'
    BY <1>1, <1>2, <1>3 DEF UploadFits, Effective
  <2>4. (/\ step.calls["apply"] \subseteq job.applied
         /\ \A q \in Patches \ job.applied : sub.repo[q] = "applied" => q \in step.calls["remove"]
         /\ step.calls["remove"] \cap job.applied = {})'
    BY <1>1, <1>2, <1>3 DEF UploadFits
  <2> QED
    BY <2>1, <2>2, <2>3, <2>4 DEF UploadFits
<1>5. PatchProgress => PatchProgress'
  BY <1>0, <1>1, <1>3, <1>4 DEF PatchProgress, VimStages, HostsDue
<1> QED
  BY <1>2, <1>3, <1>5 DEF PatchInv

\* What the patches of the subcloud become when some get another state.
LEMMA SubBecomes ==
  ASSUME sub \in PatchSubs, NEW P, NEW s \in RepoStates,
         sub' = [sub EXCEPT !.repo = ToState(P, s)]
  PROVE  /\ sub' \in PatchSubs /\ sub'.hosts = sub.hosts /\ sub'.interim = sub.interim
         /\ \A p \in Patches : sub'.repo[p] = IF p \in P THEN s ELSE sub.repo[p]
<1>1. /\ ToState(P, s) \in [Patches -> RepoStates]
      /\ \A p \in Patches : ToState(P, s)[p] = IF p \in P THEN s ELSE sub.repo[p]
  BY RepoBecomes
<1>2. /\ sub' \in PatchSubs /\ sub'.hosts = sub.hosts /\ sub'.interim = sub.interim
      /\ sub'.repo = ToState(P, s)
  BY <1>1 DEF PatchSubs
<1> QED
  BY <1>1, <1>2

LEMMA SubInterim ==
  ASSUME sub \in PatchSubs, NEW P, NEW s \in RepoStates,
         \E b \in BOOLEAN : sub' = [sub EXCEPT !.repo = ToState(P, s), !.interim = b]
  PROVE  /\ sub' \in PatchSubs
         /\ \A p \in Patches : sub'.repo[p] = IF p \in P THEN s ELSE sub.repo[p]
<1>1. /\ ToState(P, s) \in [Patches -> RepoStates]
      /\ \A p \in Patches : ToState(P, s)[p] = IF p \in P THEN s ELSE sub.repo[p]
  BY RepoBecomes
<1>2. sub' \in PatchSubs /\ sub'.repo = ToState(P, s)
  BY <1>1 DEF PatchSubs
<1> QED
  BY <1>1, <1>2

LEMMA RemovePatchesStep ==
  ASSUME TypesOK, PatchInv, update = "patch", RemovePatches
  PROVE  TypesOK' /\ PatchInv'
<1> USE PatchTypes
<1> DEFINE removed == step.calls["remove"] \cap In(sub.repo, {"applied"})
<1>0. /\ OperatorQuiet /\ vim' = vim /\ update' = update
      /\ step.pc = "upload" /\ step.state = "updating" /\ step.calls["upload"] = {}
      /\ \/ opts.uploadOnly /\ Enter("complete") /\ sub' = sub
         \/ /\ ~opts.uploadOnly /\ At("apply")
            /\ sub' = [sub EXCEPT !.repo = ToState(removed, "available"),
                                  !.interim = sub.interim \/ removed # {}]
  BY DEF RemovePatches, OperatorQuiet, StandsIn
<1>1. CASE opts.uploadOnly /\ Enter("complete") /\ sub' = sub
  <2>1. StepOK' /\ step'.state = "complete" /\ step'.pc = "begin"
    BY <1>0, <1>1, EnterGives DEF StepStates, Ended
  <2>2. /\ TypesOK' /\ central' \in PatchCentrals
        /\ UNCHANGED <<update, opts, job, central, undisturbed>>
        /\ PatchJob' = PatchJob
    BY <1>0, <2>1, PatchQuiet
  <2>3. PatchProgress => PatchProgress'
    BY <1>0, <1>1, <2>1, <2>2 DEF PatchProgress, VimStages, HostsDue
  <2> QED
    BY <1>1, <2>2, <2>3 DEF PatchInv
<1>2. CASE /\ ~opts.uploadOnly /\ At("apply")
           /\ sub' = [sub EXCEPT !.repo = ToState(removed, "available"),
                                 !.interim = sub.interim \/ removed # {}]
  <2>1. \A p \in Patches : p \in removed <=> p \in step.calls["remove"] /\ sub.repo[p] = "applied"
    BY DEF In
  <2> HIDE DEF removed
  <2>2. StepOK' /\ step'.state = "updating" /\ step'.pc = "apply" /\ step'.calls = step.calls
    <3>1. StandsIn(step.state, "apply") /\ "apply" \in StepPlaces
      BY <1>0 DEF StandsIn, StepPlaces
    <3> QED
      BY <1>0, <1>2, <3>1, AtGives
  <2>3. /\ sub' \in PatchSubs
        /\ \A p \in Patches : sub'.repo[p] = IF p \in removed THEN "available" ELSE sub.repo[p]
    <3>1. "available" \in RepoStates
      BY DEF RepoStates
    <3>2. \E b \in BOOLEAN : sub' = [sub EXCEPT !.repo = ToState(removed, "available"),
                                               !.interim = b]
      <4>1. (sub.interim \/ removed # {}) \in BOOLEAN
        OBVIOUS
      <4> QED
        BY <1>2, <4>1, Zenon
    <3>3. sub \in PatchSubs
      OBVIOUS
    <3> QED
      BY <3>1, <3>2, <3>3, SubInterim, Zenon
  <2>4. /\ TypesOK' /\ central' \in PatchCentrals
        /\ UNCHANGED <<update, opts, job, central, undisturbed>>
        /\ PatchJob' = PatchJob
    BY <1>0, <2>2, PatchQuiet
  <2>5. ASSUME UploadFits
        PROVE  ApplyFits'
    <3>1. ASSUME NEW p \in job.applied
          PROVE  sub'.repo[p] \in Effective \/ (p \in step.calls["apply"] /\ sub'.repo[p] = "available")
      <4>1. p \in Patches /\ p \notin removed /\ sub.repo[p] # "absent"
        BY <2>1, <2>5, <1>0 DEF UploadFits
      <4>2. sub'.repo[p] = sub.repo[p] /\ sub.repo[p] \in RepoStates
        BY <4>1, <2>3
      <4> QED
        BY <4>1, <4>2, <2>5 DEF UploadFits, Effective, RepoStates
    <3>2. ASSUME NEW p \in Patches \ job.applied
          PROVE  sub'.repo[p] \notin Effective
      <4>1. sub.repo[p] # "committed"
        BY <1>2, <2>5 DEF UploadFits
      <4>2. sub.repo[p] = "applied" => p \in removed
        BY <2>1, <2>5 DEF UploadFits
      <4> QED
        BY <4>1, <4>2, <2>3 DEF Effective
    <3> QED
      BY <3>1, <3>2, <2>2, <2>4, <2>5 DEF UploadFits, ApplyFits
  <2>6. PatchProgress => PatchProgress'
    BY <1>0, <2>2, <2>4, <2>5 DEF PatchProgress, VimStages, HostsDue
  <2> QED
    BY <2>3, <2>4, <2>6 DEF PatchInv
<1> QED
  BY <1>0, <1>1, <1>2

LEMMA ApplyPatchesStep ==
  ASSUME TypesOK, PatchInv, update = "patch", ApplyPatches
  PROVE  TypesOK' /\ PatchInv'
<1> USE PatchTypes
<1> DEFINE applied == step.calls["apply"] \cap In(sub.repo, {"available"})
<1>0. /\ OperatorQuiet /\ vim' = vim /\ update' = update
      /\ step.pc = "apply" /\ step.state = "updating" /\ At("interim")
      /\ sub' = [sub EXCEPT !.repo = ToState(applied, "applied"),
                            !.interim = sub.interim \/ applied # {}]
  BY DEF ApplyPatches, OperatorQuiet, StandsIn
<1>1. \A p \in Patches : p \in applied <=> p \in step.calls["apply"] /\ sub.repo[p] = "available"
  BY DEF In
<1> HIDE DEF applied
<1>2. StepOK' /\ step'.state = "updating" /\ step'.pc = "interim" /\ step'.calls = step.calls
  <2>1. StandsIn(step.state, "interim") /\ "interim" \in StepPlaces
    BY <1>0 DEF StandsIn, StepPlaces
  <2> QED
    BY <1>0, <2>1, AtGives
<1>3. /\ sub' \in PatchSubs
      /\ \A p \in Patches : sub'.repo[p] = IF p \in applied THEN "applied" ELSE sub.repo[p]
  <2>1. "applied" \in RepoStates
    BY DEF RepoStates
  <2>2. \E b \in BOOLEAN : sub' = [sub EXCEPT !.repo = ToState(applied, "applied"),
                                             !.interim = b]
    <3>1. (sub.interim \/ applied # {}) \in BOOLEAN
      OBVIOUS
    <3> QED
      BY <1>0, <3>1, Zenon
  <2>3. sub \in PatchSubs
    OBVIOUS
  <2> QED
    BY <2>1, <2>2, <2>3, SubInterim, Zenon
<1>4. /\ TypesOK' /\ central' \in PatchCentrals
      /\ UNCHANGED <<update, opts, job, central, undisturbed>>
      /\ PatchJob' = PatchJob
  BY <1>0, <1>2, PatchQuiet
<1>5. ApplyFits => AsCentral'
  <2> SUFFICES ASSUME ApplyFits, NEW p \in Patches
               PROVE  sub'.repo[p] \in Effective <=> p \in job.applied
    BY <1>4 DEF AsCentral
  <2>1. CASE p \in job.applied
    BY <2>1, <1>1, <1>3 DEF ApplyFits, Effective
  <2>2. CASE p \notin job.applied
    <3>1. p \notin applied
      BY <2>2, <1>1 DEF ApplyFits
    <3> QED
      BY <2>2, <3>1, <1>3 DEF ApplyFits
  <2> QED
    BY <2>1, <2>2
<1>6. PatchProgress => PatchProgress'
  BY <1>0, <1>2, <1>4, <1>5 DEF PatchProgress, VimStages, HostsDue
<1> QED
  BY <1>3, <1>4, <1>6 DEF PatchInv

LEMMA AwaitHostsStep ==
  ASSUME TypesOK, PatchInv, update = "patch", AwaitHosts
  PROVE  TypesOK' /\ PatchInv'
<1> USE PatchTypes
<1>0. /\ UNCHANGED <<update, opts, job, vim, central, sub, auditVars>>
      /\ step.pc = "interim" /\ step.state = "updating" /\ Enter(NextState)
      /\ \/ ~sub.interim /\ UNCHANGED <<undisturbed, bounded>>
         \/ Fault /\ undisturbed' = FALSE
  BY DEF AwaitHosts, StandsIn
<1>1. NextState = "creating vim" /\ "creating vim" \in StepStates
  BY <1>0, NextStateGives DEF StepStates
<1>2. StepOK' /\ step'.state = "creating vim" /\ step'.pc = "begin"
  BY <1>0, <1>1, EnterGives
<1>3. {faults', changes', restarts'} \subseteq Nat
  BY <1>0, BoundedGrows
<1>4. TypesOK' /\ PatchJob' = PatchJob /\ central' \in PatchCentrals
  BY <1>0, <1>2, <1>3 DEF TypesOK, StrategyOK, PatchJob, In
<1>5. PatchProgress /\ ~sub.interim => PatchProgress'
  BY <1>0, <1>2, <1>4 DEF PatchProgress, VimStages, HostsDue, AsCentral
<1> QED
  BY <1>0, <1>4, <1>5 DEF PatchInv

LEMMA PatchVimStages ==
  ASSUME TypesOK, PatchInv, update = "patch", CreatesVim(0) \/ AppliesVim
  PROVE  TypesOK' /\ PatchInv'
<1> USE PatchTypes
<1>1. /\ StepOK' /\ vim' \in [state : VimStates, target : 0..MaxVersion]
      /\ OperatorQuiet /\ sub' = sub
      /\ step'.pc \notin {"upload", "apply", "interim", "clean", "commit"}
      /\ \/ step'.state = "failed" /\ step'.pc = "begin"
         \/ /\ step.state \in VimStages /\ step'.state \in VimStages
            /\ HostsDue' => HostsDue
  <2>1. CASE CreatesVim(0)
    <3>1. 0 \in 0..MaxVersion
      BY KubeStepsAssumption
    <3>2. /\ StepOK' /\ vim' \in [state : VimStates, target : 0..MaxVersion]
          /\ OperatorQuiet /\ sub' = sub
          /\ Created(0)
      BY <2>1, <3>1, CreatesMoves
    <3>3. CASE step'.state = "failed" /\ step'.pc = "begin" /\ vim' = vim
      BY <3>2, <3>3
    <3>4. CASE /\ step.state = "creating vim" /\ step'.state = "creating vim"
               /\ step'.pc \in {"delete", "create"}
      BY <3>2, <3>4 DEF VimStages, HostsDue
    <3>5. CASE /\ step.state = "creating vim" /\ step'.state = "creating vim"
               /\ step'.pc = "build wait"
               /\ vim' = [state |-> "building", target |-> 0]
      <4>1. vim'.state = "building"
        BY <3>5
      <4> QED
        BY <3>2, <3>5, <4>1 DEF VimStages, HostsDue
    <3>6. CASE /\ step.state = "creating vim" /\ step.pc = "build wait"
               /\ vim.state = "ready-to-apply" /\ vim' = vim
               /\ step'.state = "applying vim" /\ step'.pc = "begin"
      BY <3>2, <3>6 DEF VimStages, HostsDue
    <3>7. CASE /\ step.state = "creating vim" /\ step.pc = "build wait"
               /\ vim.state = "nothing-to-do" /\ vim' = vim
               /\ step'.state = "finishing" /\ step'.pc = "begin"
      BY <3>2, <3>7 DEF VimStages, HostsDue
    <3> QED
      BY <3>2, <3>3, <3>4, <3>5, <3>6, <3>7 DEF Created
  <2>2. CASE AppliesVim
    <3>2. /\ StepOK' /\ vim' \in [state : VimStates, target : 0..MaxVersion]
          /\ OperatorQuiet /\ sub' = sub
          /\ AppliedOne
      BY <2>2, AppliesMoves
    <3> QED
      BY <3>2 DEF AppliedOne, VimStages, HostsDue
  <2> QED
    BY <2>1, <2>2
<1>2. /\ TypesOK' /\ central' \in PatchCentrals
      /\ UNCHANGED <<update, opts, job, central, undisturbed>>
      /\ PatchJob' = PatchJob
  BY <1>1, PatchQuiet
<1>3. PatchProgress => PatchProgress'
  <2>1. CASE step'.state = "failed" /\ step'.pc = "begin"
    BY <2>1, PatchBegins
  <2>2. CASE /\ step.state \in VimStages /\ step'.state \in VimStages
             /\ HostsDue' => HostsDue
    <3>1. HostsCurrent' = HostsCurrent /\ AsCentral' = AsCentral
      BY <1>1, <1>2 DEF HostsCurrent, In, AsCentral
    <3> QED
      BY <1>1, <1>2, <2>2, <3>1 DEF PatchProgress, VimStages
  <2> QED
    BY <1>1, <2>1, <2>2
<1> QED
  BY <1>1, <1>2, <1>3 DEF PatchInv

\* Only what is not in effect, here or there, is to be deleted.
LEMMA SortPatchesStep ==
  ASSUME TypesOK, PatchInv, update = "patch", SortPatches
  PROVE  TypesOK' /\ PatchInv'
<1> USE PatchTypes
<1> DEFINE deleted == {p \in Patches : PatchState(p) = "available"}
           committed == {p \in job.committed : PatchState(p) = "applied"}
           K == [[step.calls EXCEPT !["delete"] = deleted] EXCEPT !["commit"] = committed]
<1>0. /\ OperatorQuiet /\ vim' = vim /\ sub' = sub /\ update' = update
      /\ step.state = "finishing" /\ step.pc = "begin"
      /\ step' = [step EXCEPT !.pc = "clean", !.calls = K]
  BY DEF SortPatches, OperatorQuiet, Begins, Calls
<1>1. ASSUME NEW p \in Patches
      PROVE  /\ PatchState(p) = "available" <=> sub.repo[p] = "available" /\ p \notin sub.hosts
             /\ PatchState(p) = "applied" <=> sub.repo[p] = "applied" /\ p \in sub.hosts
  <2>1. CASE sub.repo[p] = "applied"
    <3>1. PatchState(p) = IF p \in sub.hosts THEN "applied" ELSE "partial-apply"
      BY <2>1, Zenon DEF PatchState
    <3> QED
      BY <2>1, <3>1
  <2>2. CASE sub.repo[p] = "available"
    <3>1. PatchState(p) = IF p \in sub.hosts THEN "partial-remove" ELSE "available"
      BY <2>2, Zenon DEF PatchState
    <3> QED
      BY <2>2, <3>1
  <2>3. CASE sub.repo[p] \notin {"applied", "available"}
    <3>1. ~(sub.repo[p] = "applied") /\ ~(sub.repo[p] = "available")
      BY <2>3
    <3>2. PatchState(p) = sub.repo[p]
      BY <3>1, Zenon DEF PatchState
    <3> QED
      BY <2>3, <3>2
  <2> QED
    BY <2>1, <2>2, <2>3
<1>2. /\ deleted \subseteq Patches /\ committed \subseteq job.committed
      /\ \A p \in Patches : p \in deleted <=> sub.repo[p] = "available" /\ p \notin sub.hosts
      /\ \A p \in job.committed : p \in committed <=> sub.repo[p] = "applied" /\ p \in sub.hosts
  BY <1>1
<1> HIDE DEF deleted, committed
<1>3. /\ K \in [Calls -> SUBSET Patches] /\ K["delete"] = deleted /\ K["commit"] = committed
  BY <1>2 DEF Calls
<1> HIDE DEF K
<1>4. /\ step'.state = "finishing" /\ step'.pc = "clean" /\ step'.calls = K
      /\ step' \in [state : StepStates, pc : StepPlaces, calls : [Calls -> SUBSET Patches]]
  BY <1>0, <1>3 DEF StepPlaces
<1>5. StepOK'
  <2>1. StandsIn(step.state, step.pc)'
    BY <1>4 DEF StandsIn
  <2>2. Things' = Patches
    BY <1>0 DEF Things
  <2> QED
    BY <1>4, <2>1, <2>2 DEF StepOK
<1>6. /\ TypesOK' /\ central' \in PatchCentrals
      /\ UNCHANGED <<update, opts, job, central, undisturbed>>
      /\ PatchJob' = PatchJob
  BY <1>0, <1>5, PatchQuiet
<1>7. PatchProgress => PatchProgress'
  <2> SUFFICES ASSUME PatchProgress
               PROVE  PatchProgress'
    OBVIOUS
  <2>1. AsCentral /\ ~sub.interim /\ HostsCurrent /\ job = PatchJob
    BY <1>0 DEF PatchProgress, VimStages, HostsDue
  <2>2. \A p \in Patches : p \in sub.hosts <=> sub.repo[p] \in Effective
    BY <2>1, HostsPointwise
  <2>3. job.committed \subseteq job.applied
    BY <2>1 DEF PatchJob, In, Effective
  <2>4. CleanFits'
    BY <1>0, <1>2, <1>3, <1>4, <1>6, <2>1, <2>2 DEF CleanFits, AsCentral, Effective
  <2>5. CommitFits'
    BY <1>0, <1>2, <1>3, <1>4, <1>6, <2>1, <2>2, <2>3 DEF CommitFits, AsCentral, Effective
  <2>6. HostsCurrent' /\ AsCentral' /\ ~sub'.interim
    BY <1>0, <1>6, <2>1 DEF HostsCurrent, In, AsCentral
  <2> QED
    BY <1>4, <1>6, <2>1, <2>4, <2>5, <2>6 DEF PatchProgress
<1> QED
  BY <1>0, <1>6, <1>7 DEF PatchInv

LEMMA DeletePatchesStep ==
  ASSUME TypesOK, PatchInv, update = "patch", DeletePatches
  PROVE  TypesOK' /\ PatchInv'
<1> USE PatchTypes
<1>0. /\ OperatorQuiet /\ vim' = vim /\ update' = update
      /\ step.state = "finishing" /\ step.pc = "clean" /\ At("commit")
      /\ sub' = [sub EXCEPT !.repo = ToState(step.calls["delete"], "absent")]
  BY DEF DeletePatches, OperatorQuiet, StandsIn
<1>1. StepOK' /\ step'.state = "finishing" /\ step'.pc = "commit" /\ step'.calls = step.calls
  <2>1. StandsIn(step.state, "commit") /\ "commit" \in StepPlaces
    BY <1>0 DEF StandsIn, StepPlaces
  <2> QED
    BY <1>0, <2>1, AtGives
<1>2. /\ sub' \in PatchSubs /\ sub'.hosts = sub.hosts /\ sub'.interim = sub.interim
      /\ \A p \in Patches : sub'.repo[p] = IF p \in step.calls["delete"] THEN "absent"
                                           ELSE sub.repo[p]
  <2>1. "absent" \in RepoStates
    BY DEF RepoStates
  <2> QED
    BY <1>0, <2>1, SubBecomes
<1>3. /\ TypesOK' /\ central' \in PatchCentrals
      /\ UNCHANGED <<update, opts, job, central, undisturbed>>
      /\ PatchJob' = PatchJob
  BY <1>0, <1>1, PatchQuiet
<1>4. PatchProgress => PatchProgress'
  <2> SUFFICES ASSUME PatchProgress
               PROVE  PatchProgress'
    OBVIOUS
  <2>1. AsCentral /\ ~sub.interim /\ HostsCurrent /\ job = PatchJob /\ CleanFits /\ CommitFits
    BY <1>0 DEF PatchProgress, VimStages, HostsDue
  <2>2. \A p \in Patches : p \in sub.hosts <=> sub.repo[p] \in Effective
    BY <2>1, HostsPointwise
  <2>3. \A p \in Patches : p \in step.calls["delete"] => sub.repo[p] \notin Effective
    BY <2>1 DEF CleanFits, AsCentral
  <2>4. \A p \in Patches : sub'.repo[p] \in Effective <=> sub.repo[p] \in Effective
    BY <1>2, <2>3 DEF Effective
  <2>5. AsCentral'
    BY <2>1, <2>4, <1>3 DEF AsCentral
  <2>6. HostsCurrent'
    <3>1. \A p \in Patches : p \in sub'.hosts <=> sub'.repo[p] \in Effective
      BY <1>2, <2>2, <2>4
    <3>2. sub'.hosts = In(sub'.repo, Effective)
      BY <1>2, <3>1 DEF In
    <3> QED
      BY <3>2 DEF HostsCurrent
  <2>7. OthersAbsent'
    <3> SUFFICES ASSUME NEW p \in Patches \ job.applied
                 PROVE  sub'.repo[p] = "absent"
      BY <1>3 DEF OthersAbsent
    <3>1. sub.repo[p] \in {"absent", "available"}
      BY <2>1 DEF AsCentral, Effective, RepoStates
    <3> QED
      BY <3>1, <1>2, <2>1 DEF CleanFits
  <2>8. CommitFits'
    BY <1>1, <1>2, <1>3, <2>1 DEF CommitFits
  <2> QED
    BY <1>1, <1>2, <1>3, <2>1, <2>5, <2>6, <2>7, <2>8 DEF PatchProgress
<1> QED
  BY <1>2, <1>3, <1>4 DEF PatchInv

LEMMA CommitPatchesStep ==
  ASSUME TypesOK, PatchInv, update = "patch", CommitPatches
  PROVE  TypesOK' /\ PatchInv'
<1> USE PatchTypes
<1>0. /\ OperatorQuiet /\ vim' = vim /\ update' = update
      /\ step.state = "finishing" /\ step.pc = "commit" /\ Enter(NextState)
      /\ sub' = [sub EXCEPT !.repo = ToState(step.calls["commit"], "committed")]
  BY DEF CommitPatches, OperatorQuiet, StandsIn
<1>1. StepOK' /\ step'.state = "complete" /\ step'.pc = "begin"
  <2>1. NextState = "complete" /\ "complete" \in StepStates
    BY <1>0, NextStateGives DEF StepStates, Ended
  <2> QED
    BY <1>0, <2>1, EnterGives
<1>2. /\ sub' \in PatchSubs /\ sub'.hosts = sub.hosts /\ sub'.interim = sub.interim
      /\ \A p \in Patches : sub'.repo[p] = IF p \in step.calls["commit"] THEN "committed"
                                           ELSE sub.repo[p]
  <2>1. "committed" \in RepoStates
    BY DEF RepoStates
  <2> QED
    BY <1>0, <2>1, SubBecomes
<1>3. /\ TypesOK' /\ central' \in PatchCentrals
      /\ UNCHANGED <<update, opts, job, central, undisturbed>>
      /\ PatchJob' = PatchJob
  BY <1>0, <1>1, PatchQuiet
<1>4. PatchProgress => PatchProgress'
  <2> SUFFICES ASSUME PatchProgress
               PROVE  PatchProgress'
    OBVIOUS
  <2>1. AsCentral /\ HostsCurrent /\ job = PatchJob /\ OthersAbsent /\ CommitFits
    BY <1>0 DEF PatchProgress, VimStages, HostsDue
  <2>2. \A p \in Patches : p \in sub.hosts <=> sub.repo[p] \in Effective
    BY <2>1, HostsPointwise
  <2>3. \A p \in Patches : sub'.repo[p] \in Effective <=> sub.repo[p] \in Effective
    BY <1>2, <2>1 DEF CommitFits, AsCentral, Effective
  <2>4. AsCentral'
    BY <2>1, <2>3, <1>3 DEF AsCentral
  <2>5. HostsCurrent'
    <3>1. \A p \in Patches : p \in sub'.hosts <=> sub'.repo[p] \in Effective
      BY <1>2, <2>2, <2>3
    <3>2. sub'.hosts = In(sub'.repo, Effective)
      BY <1>2, <3>1 DEF In
    <3> QED
      BY <3>2 DEF HostsCurrent
  <2>6. OthersAbsent'
    BY <1>2, <1>3, <2>1 DEF OthersAbsent, CommitFits
  <2>7. job.committed \subseteq job.applied
    BY <2>1 DEF PatchJob, In, Effective
  <2>8. \A p \in job.committed : sub'.repo[p] = "committed"
    <3> SUFFICES ASSUME NEW p \in job.committed
                 PROVE  sub'.repo[p] = "committed"
      OBVIOUS
    <3>1. p \in Patches /\ sub.repo[p] \in {"applied", "committed"}
      BY <2>1, <2>7 DEF AsCentral, Effective
    <3> QED
      BY <3>1, <1>2, <2>1 DEF CommitFits
  <2>9. PatchDone'
    BY <1>3, <2>4, <2>5, <2>6, <2>8 DEF PatchDone
  <2> QED
    BY <1>1, <1>3, <2>1, <2>9 DEF PatchProgress, VimStages, HostsDue
<1> QED
  BY <1>2, <1>3, <1>4 DEF PatchInv

\* The VIM of the subcloud sees to the hosts.
LEMMA PatchVimStep ==
  ASSUME TypesOK, PatchInv, update = "patch",
         \/ PatchVimBuilds \/ PatchVimReady \/ PatchVimApplies \/ HostsSettle
         \/ VimBuildFails
         \/ Applied("apply-failed") /\ Fault /\ sub' = sub /\ VimQuiet
  PROVE  TypesOK' /\ PatchInv'
<1> USE PatchTypes
<1>0. VimQuiet /\ (UNCHANGED bounded \/ Fault)
  BY DEF PatchVimBuilds, PatchVimReady, PatchVimApplies, HostsSettle, VimBuildFails
<1>1. UNCHANGED <<update, step, opts, job, central, undisturbed>> /\ PatchJob' = PatchJob
  BY <1>0 DEF VimQuiet, PatchJob, In
<1>2. \/ /\ sub' = sub
         /\ \E s \in {"build-failed", "nothing-to-do", "ready-to-apply", "apply-failed"} :
              /\ vim' = [vim EXCEPT !.state = s]
              /\ s = "nothing-to-do" => vim.state = "building" /\ (HostsCurrent \/ sub.interim)
      \/ /\ sub' = [sub EXCEPT !.hosts = In(sub.repo, Effective)]
         /\ vim.state = "applying" /\ vim' = [vim EXCEPT !.state = "applied"]
      \/ vim' = vim /\ sub' = [sub EXCEPT !.interim = FALSE]
  <2>1. CASE PatchVimBuilds
    BY <2>1 DEF PatchVimBuilds, Built
  <2>2. CASE PatchVimReady \/ VimBuildFails \/ (Applied("apply-failed") /\ sub' = sub)
    <3>1. /\ sub' = sub
          /\ \/ vim' = [vim EXCEPT !.state = "ready-to-apply"]
             \/ vim' = [vim EXCEPT !.state = "build-failed"]
             \/ vim' = [vim EXCEPT !.state = "apply-failed"]
      BY <2>2 DEF PatchVimReady, VimBuildFails, Built, Applied
    <3>2. /\ "ready-to-apply" # "nothing-to-do" /\ "build-failed" # "nothing-to-do"
          /\ "apply-failed" # "nothing-to-do"
      OBVIOUS
    <3> QED
      BY <3>1, <3>2
  <2>3. CASE PatchVimApplies
    BY <2>3 DEF PatchVimApplies, Applied
  <2>4. CASE HostsSettle
    BY <2>4 DEF HostsSettle
  <2> QED
    BY <2>1, <2>2, <2>3, <2>4
<1>3. CASE /\ sub' = sub
           /\ \E s \in {"build-failed", "nothing-to-do", "ready-to-apply", "apply-failed"} :
                /\ vim' = [vim EXCEPT !.state = s]
                /\ s = "nothing-to-do" => vim.state = "building" /\ (HostsCurrent \/ sub.interim)
  <2>1. PICK s \in {"build-failed", "nothing-to-do", "ready-to-apply", "apply-failed"} :
          /\ vim' = [vim EXCEPT !.state = s]
          /\ s = "nothing-to-do" => vim.state = "building" /\ (HostsCurrent \/ sub.interim)
    BY <1>3
  <2>2. TypesOK'
    BY <1>0, <2>1, VimMoves DEF VimStates
  <2>3. vim'.state = s
    BY <2>1
  <2>4. UploadFits' = UploadFits /\ ApplyFits' = ApplyFits /\ AsCentral' = AsCentral
    BY <1>1, <1>3 DEF UploadFits, ApplyFits, AsCentral
  <2>5. CleanFits' = CleanFits /\ CommitFits' = CommitFits /\ OthersAbsent' = OthersAbsent
    BY <1>1, <1>3 DEF CleanFits, CommitFits, OthersAbsent
  <2>6. HostsCurrent' = HostsCurrent
    BY <1>3 DEF HostsCurrent, In
  <2>7. PatchDone' = PatchDone
    BY <1>1, <1>3, <2>4, <2>5, <2>6 DEF PatchDone
  <2>8. PatchProgress => (HostsDue' => HostsCurrent')
    <3> SUFFICES ASSUME PatchProgress, HostsDue'
                 PROVE  HostsCurrent
      BY <2>6
    <3>1. CASE step.pc = "build wait" /\ s = "nothing-to-do"
      <4>1. step.state = "creating vim"
        BY <3>1 DEF StandsIn
      <4> QED
        BY <3>1, <4>1, <2>1 DEF PatchProgress, VimStages
    <3>2. CASE step.state = "finishing"
      BY <3>2 DEF PatchProgress, HostsDue
    <3> QED
      BY <3>1, <3>2, <1>1, <2>3 DEF HostsDue
  <2>9. PatchProgress => PatchProgress'
    BY <1>1, <1>3, <2>4, <2>5, <2>7, <2>8 DEF PatchProgress
  <2> QED
    BY <1>1, <1>3, <2>2, <2>9 DEF PatchInv
<1>4. CASE \/ /\ sub' = [sub EXCEPT !.hosts = In(sub.repo, Effective)]
              /\ vim.state = "applying" /\ vim' = [vim EXCEPT !.state = "applied"]
           \/ vim' = vim /\ sub' = [sub EXCEPT !.interim = FALSE]
  <2>1. TypesOK'
    BY <1>0, <1>4, VimMoves DEF VimStates
  <2>2. /\ sub' \in PatchSubs /\ sub'.repo = sub.repo
        /\ \/ HostsCurrent' /\ sub'.interim = sub.interim
           \/ sub'.hosts = sub.hosts /\ ~sub'.interim /\ vim' = vim
    <3>1. In(sub.repo, Effective) \in SUBSET Patches
      BY DEF In
    <3>2. CASE sub' = [sub EXCEPT !.hosts = In(sub.repo, Effective)]
      BY <3>1, <3>2 DEF PatchSubs, HostsCurrent
    <3>3. CASE vim' = vim /\ sub' = [sub EXCEPT !.interim = FALSE]
      BY <3>3 DEF PatchSubs
    <3> QED
      BY <1>4, <3>2, <3>3
  <2>3. UploadFits' = UploadFits /\ ApplyFits' = ApplyFits /\ AsCentral' = AsCentral
    BY <1>1, <2>2 DEF UploadFits, ApplyFits, AsCentral
  <2>4. CleanFits' = CleanFits /\ CommitFits' = CommitFits /\ OthersAbsent' = OthersAbsent
    BY <1>1, <2>2 DEF CleanFits, CommitFits, OthersAbsent
  <2>5. \/ HostsCurrent'
        \/ HostsCurrent' = HostsCurrent /\ HostsDue' = HostsDue
    BY <1>1, <2>2 DEF HostsCurrent, In, HostsDue
  <2>6. PatchDone => PatchDone'
    BY <1>1, <2>2, <2>3, <2>4, <2>5 DEF PatchDone
  <2>7. PatchProgress => PatchProgress'
    BY <1>1, <2>2, <2>3, <2>4, <2>5, <2>6 DEF PatchProgress
  <2> QED
    BY <1>1, <2>1, <2>2, <2>7 DEF PatchInv
<1> QED
  BY <1>2, <1>3, <1>4

LEMMA PatchChangesStep ==
  ASSUME central \in PatchCentrals, NEW p \in Patches, PatchCentralMoves(p)
  PROVE  central' \in PatchCentrals /\ sub' = sub
<1>1. PICK s \in RepoStates : central' = [central EXCEPT !.repo[p] = s]
  BY DEF PatchCentralMoves
<1> QED
  BY <1>1 DEF PatchCentrals, PatchCentralMoves

LEMMA PatchStep ==
  ASSUME TypesOK, PatchInv, update = "patch", [EndpointNext]_endpointVars
  PROVE  TypesOK' /\ PatchInv'
<1>0. central \in PatchCentrals /\ sub \in PatchSubs /\ (undisturbed => PatchProgress)
  BY DEF PatchInv
<1>j. JobData = PatchJob
  BY DEF JobData
<1>1. CASE StrategyRequest
  <2>1. /\ TypesOK'
        /\ UNCHANGED <<update, job, central, sub, auditVars, undisturbed>>
        /\ step'.state = "initial" /\ step'.pc = "begin"
    BY <1>1, RequestMoves
  <2> QED
    BY <1>0, <2>1, PatchBegins DEF PatchInv
<1>2. CASE StartStep(JobData)
  <2>1. /\ TypesOK' /\ job' = PatchJob
        /\ UNCHANGED <<update, opts, vim, central, sub, auditVars>>
        /\ step'.state = "pre check" /\ step'.pc = "begin"
    BY <1>2, <1>j, StartMoves
  <2>2. PatchJob' = PatchJob
    BY <2>1 DEF PatchJob, In
  <2> QED
    BY <1>0, <2>1, <2>2, PatchBegins DEF PatchInv
<1>3. CASE PatchOperators
  BY <1>3, PatchPreCheckStep, ComparePatchesStep, RemovePatchesStep, ApplyPatchesStep,
     AwaitHostsStep, UploadPatchStep, PatchVimStages, SortPatchesStep, DeletePatchesStep,
     CommitPatchesStep DEF PatchOperators
<1>4. CASE OperatorRaises
  <2>1. /\ TypesOK'
        /\ UNCHANGED <<update, opts, job, vim, central, sub, auditVars, undisturbed>>
        /\ step'.state = "failed" /\ step'.pc = "begin"
    BY <1>4, RaisesMoves
  <2> QED
    BY <1>0, <2>1, PatchBegins DEF PatchInv
<1>s. ASSUME UNCHANGED <<central, sub, job>>
      PROVE  /\ PatchJob' = PatchJob /\ HostsCurrent' = HostsCurrent /\ AsCentral' = AsCentral
             /\ PatchDone' = PatchDone
  BY <1>s DEF PatchJob, HostsCurrent, In, AsCentral, PatchDone, OthersAbsent
<1>5. CASE Restart(JobData)
  <2>1. /\ TypesOK' /\ job' = PatchJob
        /\ UNCHANGED <<update, opts, vim, central, sub, auditVars, undisturbed>>
        /\ step.state \notin Ended \cup {"initial"}
        /\ step'.state = step.state /\ step'.pc = "begin"
    BY <1>5, <1>j, RestartMoves
  <2>2. PatchProgress => PatchProgress'
    <3> SUFFICES ASSUME PatchProgress
                 PROVE  PatchProgress'
      OBVIOUS
    <3>1. job' = job
      BY <2>1 DEF PatchProgress, Ended
    <3>2. /\ PatchJob' = PatchJob /\ HostsCurrent' = HostsCurrent /\ AsCentral' = AsCentral
          /\ PatchDone' = PatchDone
      BY <1>s, <2>1, <3>1
    <3>3. HostsDue' => HostsDue
      BY <2>1 DEF HostsDue
    <3> QED
      BY <2>1, <3>2, <3>3 DEF PatchProgress, VimStages, Ended
  <2> QED
    BY <1>0, <2>1, <2>2 DEF PatchInv
<1>6. ASSUME TypesOK', UNCHANGED progressVars
      PROVE  PatchInv'
  <2>1. UNCHANGED <<update, step, opts, job, vim, central, sub, undisturbed>>
    BY <1>6 DEF progressVars
  <2>2. /\ PatchJob' = PatchJob /\ HostsCurrent' = HostsCurrent /\ AsCentral' = AsCentral
        /\ PatchDone' = PatchDone
    BY <1>s, <2>1
  <2>3. /\ UploadFits' = UploadFits /\ ApplyFits' = ApplyFits /\ CleanFits' = CleanFits
        /\ CommitFits' = CommitFits /\ OthersAbsent' = OthersAbsent /\ HostsDue' = HostsDue
    BY <2>1 DEF UploadFits, ApplyFits, CleanFits, CommitFits, OthersAbsent, HostsDue
  <2>4. PatchProgress => PatchProgress'
    BY <2>1, <2>2, <2>3 DEF PatchProgress
  <2> QED
    BY <1>0, <2>1, <2>4 DEF PatchInv
<1>7. CASE Audits \/ AuditSkips
  BY <1>6, <1>7, AuditsMove
<1>8. CASE \/ PatchVimBuilds \/ PatchVimReady \/ PatchVimApplies \/ HostsSettle
           \/ VimBuildFails
           \/ Applied("apply-failed") /\ Fault /\ UNCHANGED sub /\ VimQuiet
  BY <1>8, PatchVimStep
<1>9. CASE VimElsewhere
  <2>1. /\ TypesOK' /\ ~undisturbed'
        /\ UNCHANGED <<update, step, opts, job, central, sub, auditVars>>
    BY <1>9, ElsewhereMoves
  <2> QED
    BY <1>0, <2>1 DEF PatchInv
<1>10. CASE OthersChange
  <2>1. TypesOK' /\ ~undisturbed'
    BY <1>10, OthersMove
  <2>2. central' \in PatchCentrals /\ sub' = sub
    BY <1>0, <1>10, OthersOf, PatchChangesStep
  <2> QED
    BY <1>0, <2>1, <2>2 DEF PatchInv
<1>11. CASE UNCHANGED endpointVars
  <2>1. TypesOK' /\ UNCHANGED progressVars
    BY <1>11 DEF endpointVars, progressVars, bounded, TypesOK, StepOK, StrategyOK, Things
  <2> QED
    BY <1>6, <2>1
<1> QED
  BY <1>1, <1>2, <1>3, <1>4, <1>5, <1>7, <1>8, <1>9, <1>10, <1>11
     DEF EndpointNext, Operators, VimWorks, VimGoesWrong, KubeOperators, FirmwareOperators,
         RootcaOperators

\* The inductive invariant.
EndpointInv ==
  /\ TypesOK /\ AuditOK
  /\ update = "patch" => PatchInv
  /\ update = "firmware" => FirmwareInv
  /\ update = "kubernetes" => KubeInv
  /\ update = "kube rootca" => RootcaInv

LEMMA NoAuditType ==
  ASSUME audit' = NoAudit, status' \in Verdicts
  PROVE  AuditOK'
BY DEF AuditOK, NoAudit, Verdicts

LEMMA AuditStep ==
  ASSUME AuditOK, [EndpointNext]_endpointVars
  PROVE  AuditOK'
<1>0. /\ audit = [pc |-> audit.pc, data |-> audit.data, verdict |-> audit.verdict]
      /\ audit.pc \in {"idle", "fetched", "judged"}
      /\ status \in Verdicts /\ audit.verdict \in Verdicts
  BY DEF AuditOK
<1>1. ASSUME audit' = audit, status' \in Verdicts
      PROVE  AuditOK'
  BY <1>0, <1>1 DEF AuditOK
<1>2. CASE AuditFetches
  <2>1. PICK data : audit' = [pc |-> "fetched", data |-> data, verdict |-> "none"]
    BY <1>2 DEF AuditFetches
  <2>2. status' = status
    BY <1>2 DEF AuditFetches
  <2> QED
    BY <1>0, <2>1, <2>2 DEF AuditOK, Verdicts
<1>3. CASE AuditCompares \/ AuditSkips
  <2>1. status' = status
    BY <1>3 DEF AuditCompares, AuditSkips
  <2>2. \/ audit' = NoAudit
        \/ \E v \in {"in-sync", "out-of-sync"} : audit' = [audit EXCEPT !.pc = "judged", !.verdict = v]
    BY <1>3 DEF AuditCompares, AuditSkips
  <2>3. CASE audit' = NoAudit
    BY <1>0, <2>1, <2>3, NoAuditType
  <2>4. ASSUME NEW v \in {"in-sync", "out-of-sync"},
               audit' = [audit EXCEPT !.pc = "judged", !.verdict = v]
        PROVE  AuditOK'
    <3>1. audit' = [pc |-> "judged", data |-> audit.data, verdict |-> v]
      BY <1>0, <2>4
    <3> QED
      BY <1>0, <2>1, <2>4, <3>1 DEF AuditOK, Verdicts
  <2> QED
    BY <2>2, <2>3, <2>4
<1>4. CASE AuditReports
  BY <1>0, <1>4, NoAuditType DEF AuditReports
<1>5. CASE StrategyRequest \/ OperatorRaises \/ Restart(JobData) \/ StartStep(JobData)
  BY <1>0, <1>1, <1>5 DEF StrategyRequest, NewStrategy, OperatorRaises, Restart, StartStep, auditVars
<1>6. ASSUME NEW target, CreatesVim(target) \/ AppliesVim
      PROVE  AuditOK'
  BY <1>0, <1>1, <1>6 DEF CreatesVim, LookForVim, DeleteVim, CreateVim, AwaitBuild, AppliesVim,
     ApplyVim, AwaitApply, OperatorQuiet, auditVars
<1>7. CASE PatchOperators
  <2>1. ASSUME \/ PatchPreCheck \/ ComparePatches \/ RemovePatches \/ ApplyPatches \/ AwaitHosts
               \/ \E p \in Patches : UploadPatch(p)
               \/ SortPatches \/ DeletePatches \/ CommitPatches
        PROVE  AuditOK'
    BY <1>0, <1>1, <2>1 DEF PatchPreCheck, ComparePatches, RemovePatches, ApplyPatches, AwaitHosts,
       UploadPatch, SortPatches, DeletePatches, CommitPatches, OperatorQuiet, auditVars
  <2> QED
    BY <1>6, <1>7, <2>1 DEF PatchOperators
<1>8. CASE FirmwareOperators
  <2>1. ASSUME \/ CompareImages \/ FindDevices \/ Imported
               \/ \E i \in Images : RemoveImage(i) \/ UploadImage(i) \/ ApplyImage(i)
        PROVE  AuditOK'
    BY <1>0, <1>1, <2>1 DEF CompareImages, FindDevices, Imported, RemoveImage, UploadImage,
       ApplyImage, OperatorQuiet, auditVars
  <2>2. CASE FinishFirmware
    <3>1. audit' = audit /\ status' \in {status, "in-sync"}
      BY <2>2 DEF FinishFirmware
    <3> QED
      BY <1>0, <1>1, <3>1 DEF Verdicts
  <2> QED
    BY <1>6, <1>8, <2>1, <2>2 DEF FirmwareOperators, FirmwareCreatesVim, FirmwareAppliesVim
<1>9. CASE KubeOperators \/ RootcaOperators
  <2>1. ASSUME KubePreCheck \/ RootcaPreCheck \/ StartUpdate \/ UploadCert
        PROVE  AuditOK'
    BY <1>0, <1>1, <2>1 DEF KubePreCheck, RootcaPreCheck, StartUpdate, UploadCert, OperatorQuiet,
       auditVars
  <2> QED
    BY <1>6, <1>9, <2>1 DEF KubeOperators, RootcaOperators
<1>10. CASE VimWorks \/ VimGoesWrong \/ OthersChange
  <2>1. UNCHANGED auditVars
    BY <1>10 DEF VimWorks, VimGoesWrong, OthersChange, PatchVimBuilds, PatchVimReady,
       PatchVimApplies, HostsSettle, FirmwareVimBuilds, FirmwareVimApplies, KubeVimBuilds,
       KubeVimApplies, VimBuildFails, VimElsewhere, FirmwareVimFails, KubeVimFails, VimQuiet
  <2> QED
    BY <1>0, <1>1, <2>1 DEF auditVars
<1>11. CASE UNCHANGED endpointVars
  BY <1>0, <1>1, <1>11 DEF endpointVars, auditVars
<1> QED
  BY <1>2, <1>3, <1>4, <1>5, <1>7, <1>8, <1>9, <1>10, <1>11
     DEF EndpointNext, Audits, Operators

\* The strategies are of one type.
LEMMA UpdateStays ==
  [EndpointNext]_endpointVars => update' = update
<1> SUFFICES ASSUME [EndpointNext]_endpointVars
             PROVE  update' = update
  OBVIOUS
<1>1. CASE StrategyRequest \/ OperatorRaises \/ Restart(JobData) \/ StartStep(JobData)
  BY <1>1 DEF StrategyRequest, NewStrategy, OperatorRaises, Restart, StartStep
<1>2. ASSUME NEW target, CreatesVim(target) \/ AppliesVim
      PROVE  update' = update
  BY <1>2 DEF CreatesVim, LookForVim, DeleteVim, CreateVim, AwaitBuild, AppliesVim, ApplyVim,
     AwaitApply, OperatorQuiet
<1>3. CASE PatchOperators
  BY <1>2, <1>3 DEF PatchOperators, PatchPreCheck, ComparePatches, RemovePatches, ApplyPatches,
     AwaitHosts, UploadPatch, SortPatches, DeletePatches, CommitPatches, OperatorQuiet
<1>4. CASE FirmwareOperators
  BY <1>2, <1>4 DEF FirmwareOperators, CompareImages, FindDevices, Imported, RemoveImage,
     UploadImage, ApplyImage, FinishFirmware, FirmwareCreatesVim, FirmwareAppliesVim, OperatorQuiet
<1>5. CASE KubeOperators \/ RootcaOperators
  BY <1>2, <1>5 DEF KubeOperators, RootcaOperators, KubePreCheck, RootcaPreCheck, StartUpdate,
     UploadCert, OperatorQuiet
<1>6. CASE VimWorks \/ VimGoesWrong \/ OthersChange
  BY <1>6 DEF VimWorks, VimGoesWrong, OthersChange, PatchVimBuilds, PatchVimReady,
     PatchVimApplies, HostsSettle, FirmwareVimBuilds, FirmwareVimApplies, KubeVimBuilds,
     KubeVimApplies, VimBuildFails, VimElsewhere, FirmwareVimFails, KubeVimFails, VimQuiet
<1>7. CASE Audits \/ AuditSkips
  BY <1>7 DEF Audits, AuditFetches, AuditCompares, AuditReports, AuditSkips
<1>8. CASE UNCHANGED endpointVars
  BY <1>8 DEF endpointVars
<1> QED
  BY <1>1, <1>3, <1>4, <1>5, <1>6, <1>7, <1>8 DEF EndpointNext, Operators

LEMMA EndpointInvStep ==
  EndpointInv /\ [EndpointNext]_endpointVars => EndpointInv'
<1> SUFFICES ASSUME EndpointInv, [EndpointNext]_endpointVars
             PROVE  EndpointInv'
  OBVIOUS
<1>0. AuditOK' /\ TypesOK
  BY AuditStep DEF EndpointInv
<1>1. update \in {"patch", "firmware", "kubernetes", "kube rootca"}
  BY EndpointUpdatesAssumption DEF EndpointInv, TypesOK, StrategyOK
<1>2. update' = update
  BY UpdateStays
<1> QED
  BY <1>0, <1>1, <1>2, PatchStep, FirmwareStep, KubeStep, RootcaStep DEF EndpointInv

LEMMA EndpointInitInv ==
  EndpointInit => EndpointInv
<1> SUFFICES ASSUME EndpointInit
             PROVE  EndpointInv
  OBVIOUS
<1>0. /\ update \in Updates /\ opts = PlainOpts /\ job = NoJob /\ vim = NoVim
      /\ step = [state |-> "none", pc |-> "begin", calls |-> NoCalls]
      /\ audit = NoAudit /\ status = "unknown" /\ undisturbed = TRUE
      /\ faults = 0 /\ changes = 0 /\ restarts = 0
  BY DEF EndpointInit
<1>1. step.state = "none" /\ step.pc = "begin"
  BY <1>0
<1>2. StepOK
  <2>1. NoCalls \in [Calls -> SUBSET Things]
    BY DEF NoCalls
  <2>2. step \in [state : StepStates, pc : StepPlaces, calls : [Calls -> SUBSET Things]]
    BY <1>0, <2>1 DEF StepStates, StepPlaces, Ended
  <2> QED
    BY <1>1, <2>2 DEF StepOK, StandsIn
<1>3. StrategyOK
  <2>1. PlainOpts \in [uploadOnly : BOOLEAN, toVersion : 0..MaxVersion, certFile : BOOLEAN]
    BY KubeStepsAssumption DEF PlainOpts
  <2>2. NoVim \in [state : VimStates, target : 0..MaxVersion]
    BY KubeStepsAssumption DEF NoVim, VimStates
  <2> QED
    BY <1>0, <2>1, <2>2, JobType DEF StrategyOK
<1>4. AuditOK
  BY <1>0 DEF AuditOK, NoAudit, Verdicts
<1>5. CASE update = "patch"
  <2>1. /\ central \in PatchCentrals
        /\ \E repo \in [Patches -> RepoStates] : sub = SettledPatches(repo)
    BY <1>5, Zenon DEF EndpointInit
  <2>2. sub \in PatchSubs
    BY <2>1 DEF SettledPatches, PatchSubs
  <2>3. PatchProgress
    BY <1>1 DEF PatchProgress, VimStages, HostsDue
  <2>4. PatchInv
    BY <2>1, <2>2, <2>3 DEF PatchInv
  <2> QED
    BY <1>2, <1>3, <1>4, <1>5, <2>4 DEF EndpointInv, TypesOK
<1>6. CASE update = "firmware"
  <2>0. ~(update = "patch")
    BY <1>6
  <2>1. /\ central \in FirmwareCentrals
        /\ \E D \in SUBSET Devices, I \in SUBSET Images :
             \E A \in SUBSET I : sub = SettledFirmware(D, I, A)
    BY <1>6, <2>0, Zenon DEF EndpointInit
  <2>2. PICK D \in SUBSET Devices, I \in SUBSET Images, A \in SUBSET Images :
          A \subseteq I /\ sub = SettledFirmware(D, I, A)
    BY <2>1
  <2> DEFINE W == [d \in Devices |-> [i \in Images |->
                     IF i \in A /\ d \in D \cap Fits[i] THEN "completed" ELSE "none"]]
  <2>3. sub = [images |-> I, applied |-> A, enabled |-> D, written |-> W]
    BY <2>2 DEF SettledFirmware
  <2>4. /\ W \in [Devices -> [Images -> ImageStates]]
        /\ \A d \in Devices, i \in Images : W[d][i] # "none" => i \in A
    BY DEF ImageStates
  <2> HIDE DEF W
  <2>5. sub \in FirmwareSubs /\ WrittenIsApplied
    BY <2>2, <2>3, <2>4 DEF FirmwareSubs, WrittenIsApplied
  <2>6. FirmwareProgress /\ ApplyIsThere
    BY <1>1 DEF FirmwareProgress, ApplyIsThere, VimStages
  <2>7. FirmwareInv
    BY <2>1, <2>5, <2>6 DEF FirmwareInv
  <2> QED
    BY <1>2, <1>3, <1>4, <1>6, <2>7 DEF EndpointInv, TypesOK
<1>7. CASE update = "kubernetes"
  <2>0. ~(update = "patch") /\ ~(update = "firmware")
    BY <1>7
  <2>1. /\ central \in KubeCentrals
        /\ sub \in {s \in KubeSubs : s.upgrade = 0 /\ (s.available = 0 \/ s.available > s.active)}
    BY <1>7, <2>0, Zenon DEF EndpointInit
  <2>2. KubeInv
    BY <1>0, <1>1, <2>1 DEF KubeInv, KubeProgress, NoVim
  <2> QED
    BY <1>2, <1>3, <1>4, <1>7, <2>2 DEF EndpointInv, TypesOK
<1>8. CASE update = "kube rootca"
  <2>0. ~(update = "patch") /\ ~(update = "firmware") /\ ~(update = "kubernetes")
    BY <1>8
  <2>1. central = {} /\ sub = [expiring |-> TRUE, update |-> "none"]
    BY <2>0, Zenon DEF EndpointInit
  <2>2. sub \in RootcaSubs
    BY <2>1 DEF RootcaSubs, RootcaUpdates
  <2>3. RootcaInv
    BY <1>1, <2>1, <2>2 DEF RootcaInv, RootcaProgress
  <2> QED
    BY <1>2, <1>3, <1>4, <1>8, <2>3 DEF EndpointInv, TypesOK
<1> QED
  BY <1>0, <1>5, <1>6, <1>7, <1>8, EndpointUpdatesAssumption

(* The steps of the four update types, the audits and the VIM keep the     *)
(* types of the endpoint.                                                  *)
THEOREM EndpointTypesCorrect == EndpointSpec => []EndpointTypeOK
<1>1. EndpointInv => EndpointTypeOK
  <2> SUFFICES ASSUME EndpointInv
               PROVE  EndpointTypeOK
    OBVIOUS
  <2>1. /\ StepOK /\ StrategyOK /\ AuditOK
        /\ update \in {"patch", "firmware", "kubernetes", "kube rootca"}
    BY EndpointUpdatesAssumption DEF EndpointInv, TypesOK, StrategyOK
  <2> DEFINE places == {"begin", "delete", "create", "build wait", "apply wait", "upload", "apply",
                        "interim", "clean", "commit", "remove", "import"}
             states == Ended \cup {"initial", "pre check", "updating", "importing", "start",
                                   "upload cert", "creating vim", "applying vim", "finishing"}
  <2>2. step \in [state : states, pc : places, calls : [Calls -> (SUBSET Patches) \cup (SUBSET Images)]]
    <3>1. [Calls -> SUBSET Things] \subseteq [Calls -> (SUBSET Patches) \cup (SUBSET Images)]
      BY DEF Things
    <3> QED
      BY <2>1, <3>1 DEF StepOK, StepStates, StepPlaces
  <2>3. (CASE update = "patch" -> central \in PatchCentrals /\ sub \in PatchSubs
           [] update = "firmware" -> central \in FirmwareCentrals /\ sub \in FirmwareSubs
           [] update = "kubernetes" -> central \in KubeCentrals /\ sub \in KubeSubs
           [] OTHER -> central = {} /\ sub \in RootcaSubs)
    <3>1. CASE update = "patch"
      <4>1. update # "firmware" /\ update # "kubernetes" /\ central \in PatchCentrals /\ sub \in PatchSubs
        BY <3>1 DEF EndpointInv, PatchInv
      <4> QED
        BY <3>1, <4>1, Zenon
    <3>2. CASE update = "firmware"
      <4>1. /\ update # "patch" /\ update # "kubernetes"
            /\ central \in FirmwareCentrals /\ sub \in FirmwareSubs
        BY <3>2 DEF EndpointInv, FirmwareInv
      <4> QED
        BY <3>2, <4>1, Zenon
    <3>3. CASE update = "kubernetes"
      <4>1. /\ update # "patch" /\ update # "firmware"
            /\ central \in KubeCentrals /\ sub \in KubeSubs
        BY <3>3 DEF EndpointInv, KubeInv
      <4> QED
        BY <3>3, <4>1, Zenon
    <3>4. CASE update = "kube rootca"
      <4>1. /\ update # "patch" /\ update # "firmware" /\ update # "kubernetes"
            /\ central = {} /\ sub \in RootcaSubs
        BY <3>4 DEF EndpointInv, RootcaInv
      <4> QED
        BY <4>1, Zenon
    <3> QED
      BY <2>1, <3>1, <3>2, <3>3, <3>4
  <2>4. /\ update \in Updates
        /\ opts \in [uploadOnly : BOOLEAN, toVersion : 0..MaxVersion, certFile : BOOLEAN]
        /\ vim \in [state : VimStates, target : 0..MaxVersion]
        /\ audit.pc \in {"idle", "fetched", "judged"}
        /\ {status, audit.verdict} \subseteq {"none", "unknown", "in-sync", "out-of-sync"}
        /\ undisturbed \in BOOLEAN
        /\ {faults, changes, restarts} \subseteq Nat
    BY <2>1 DEF StrategyOK, AuditOK, Verdicts
  <2> HIDE DEF places, states
  <2> QED
    BY <2>2, <2>3, <2>4, Zenon DEF EndpointTypeOK, places, states
<1> QED
  BY <1>1, EndpointInitInv, EndpointInvStep, PTL DEF EndpointSpec

\* A subcloud has no load that RegionOne does not have.
LoadsKnown == SubLoaded \subseteq CentralLoaded

LEMMA PatchesAreSame ==
  ASSUME LoadsKnown, PatchInv, job = PatchJob, PatchDone
  PROVE  SamePatches
<1>0. /\ \A p \in Patches : sub.repo[p] \in RepoStates
      /\ job.applied = In(central.repo, Effective) \cap CentralLoaded
      /\ job.committed = In(central.repo, {"committed"}) \cap CentralLoaded
  BY DEF PatchInv, PatchSubs, PatchJob
<1>1. sub.hosts = In(sub.repo, Effective)
  BY DEF PatchDone, HostsCurrent
<1>2. ASSUME NEW p \in Patches
      PROVE  CASE central.repo[p] = "applied" ->
                    sub.repo[p] \in Effective \/ (p \notin SubLoaded /\ sub.repo[p] = "absent")
               [] central.repo[p] = "committed" ->
                    sub.repo[p] = "committed" \/ (p \notin SubLoaded /\ sub.repo[p] = "absent")
               [] OTHER -> sub.repo[p] = "absent"
  <2>1. CASE central.repo[p] = "applied"
    <3>1. /\ central.repo[p] # "committed"
          /\ sub.repo[p] \in Effective \/ (p \notin SubLoaded /\ sub.repo[p] = "absent")
      BY <2>1, <1>0 DEF PatchDone, AsCentral, OthersAbsent, In, Effective, LoadsKnown
    <3> QED
      BY <2>1, <3>1, Zenon
  <2>2. CASE central.repo[p] = "committed"
    <3>1. /\ central.repo[p] # "applied"
          /\ sub.repo[p] = "committed" \/ (p \notin SubLoaded /\ sub.repo[p] = "absent")
      BY <2>2, <1>0 DEF PatchDone, OthersAbsent, In, Effective, LoadsKnown
    <3> QED
      BY <2>2, <3>1, Zenon
  <2>3. CASE central.repo[p] # "applied" /\ central.repo[p] # "committed"
    <3>1. sub.repo[p] = "absent"
      BY <2>3, <1>0 DEF PatchDone, OthersAbsent, In, Effective
    <3> QED
      BY <2>3, <3>1, Zenon
  <2> QED
    BY <2>1, <2>2, <2>3
<1> QED
  BY <1>1, <1>2, Zenon DEF SamePatches

LEMMA InvIsDone ==
  ASSUME LoadsKnown, EndpointInv
  PROVE  CompleteIsDone
<1> SUFFICES ASSUME undisturbed
             PROVE  /\ step.state = "complete" =>
                         CASE update = "patch" -> opts.uploadOnly \/ SamePatches
                           [] update = "firmware" -> SameFirmware \/ FirmwareBlocked
                           [] update = "kube rootca" -> RootcaVerdict
                           [] OTHER -> TRUE
                    /\ update = "kubernetes" /\ step.state = "applying vim" => vim.target <= ToVersion
  BY Zenon DEF CompleteIsDone
<1>1. ASSUME update = "kubernetes", step.state = "applying vim"
      PROVE  vim.target <= ToVersion
  BY <1>1 DEF EndpointInv, KubeInv, KubeProgress
<1>2. ASSUME step.state = "complete"
      PROVE  CASE update = "patch" -> opts.uploadOnly \/ SamePatches
               [] update = "firmware" -> SameFirmware \/ FirmwareBlocked
               [] update = "kube rootca" -> RootcaVerdict
               [] OTHER -> TRUE
  <2>1. CASE update = "patch"
    <3>1. update # "firmware" /\ update # "kube rootca"
      BY <2>1
    <3>2. PatchInv /\ job = PatchJob /\ (opts.uploadOnly \/ PatchDone)
      BY <1>2, <2>1 DEF EndpointInv, PatchInv, PatchProgress
    <3>3. opts.uploadOnly \/ SamePatches
      BY <3>2, PatchesAreSame
    <3> QED
      BY <2>1, <3>1, <3>3, Zenon
  <2>2. CASE update = "firmware"
    <3>1. update # "patch" /\ update # "kube rootca"
      BY <2>2
    <3>2. SameFirmware \/ FirmwareBlocked
      BY <1>2, <2>2, FirmwareIsSame DEF EndpointInv, FirmwareInv
    <3> QED
      BY <2>2, <3>1, <3>2, Zenon
  <2>3. CASE update = "kube rootca"
    <3>1. update # "patch" /\ update # "firmware"
      BY <2>3
    <3>2. RootcaVerdict
      BY <1>2, <2>3 DEF EndpointInv, RootcaInv, RootcaProgress, RootcaVerdict
    <3> QED
      BY <2>3, <3>1, <3>2, Zenon
  <2>4. CASE update \notin {"patch", "firmware", "kube rootca"}
    <3>1. update # "patch" /\ update # "firmware" /\ update # "kube rootca"
      BY <2>4
    <3> QED
      BY <3>1, Zenon
  <2> QED
    BY <2>1, <2>2, <2>3, <2>4
<1> QED
  BY <1>1, <1>2

(* A step that nobody else has interfered with has done, once it is        *)
(* complete, what its strategy asked for - patches, firmware or the root   *)
(* certificate are as RegionOne wants them - whatever raised and wherever  *)
(* the orchestrator was restarted; kubernetes is never upgraded beyond the *)
(* version asked for.                                                      *)
THEOREM CompletedIsDone ==
  ASSUME LoadsKnown
  PROVE  EndpointSpec => []CompleteIsDone
<1>1. EndpointInv => CompleteIsDone
  BY InvIsDone
<1> QED
  BY <1>1, EndpointInitInv, EndpointInvStep, PTL DEF EndpointSpec
================================================================================
