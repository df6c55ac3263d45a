---------------------------- MODULE EndpointUpdates ----------------------------
(***************************************************************************)
(* An endpoint of a subcloud - its patches, its firmware, its kubernetes   *)
(* version or its root certificate - with the strategies that update it    *)
(* and the audits that say whether it is in sync.  The audits decide which *)
(* subclouds get a step, the steps change what the audits see, and each    *)
(* has its own code to compare the subcloud with RegionOne.                *)
(***************************************************************************)
EXTENDS PatchSteps, FirmwareSteps, KubeSteps

CONSTANT Updates   \* the update types considered

ASSUME EndpointUpdatesAssumption ==
  Updates \subseteq {"patch", "firmware", "kubernetes", "kube rootca"}

PlainOpts == [uploadOnly |-> FALSE, toVersion |-> 0, certFile |-> FALSE]

\* The extra_args a request may bring.
Options ==
  CASE update = "patch" -> {[PlainOpts EXCEPT !.uploadOnly = TRUE]}
    [] update = "kubernetes" -> {[PlainOpts EXCEPT !.toVersion = v] : v \in Versions}
    [] update = "kube rootca" -> {[PlainOpts EXCEPT !.certFile = TRUE]}
    [] OTHER -> {}

NoAudit == [pc |-> "idle", data |-> {}, verdict |-> "none"]

EndpointInit ==
  /\ update \in Updates
  /\ step = [state |-> "none", pc |-> "begin", calls |-> NoCalls]
  /\ opts = PlainOpts
  /\ job = NoJob
  /\ vim = NoVim
  /\ CASE update = "patch" ->
            /\ central \in PatchCentrals
            /\ \E repo \in [Patches -> RepoStates] :
                 /\ \A p \in Patches \ SubLoaded : repo[p] = "absent"
                 /\ sub = SettledPatches(repo)
       [] update = "firmware" ->
            /\ central \in FirmwareCentrals
            /\ \E D \in SUBSET Devices, I \in SUBSET Images :
                 \E A \in SUBSET I : sub = SettledFirmware(D, I, A)
       [] update = "kubernetes" ->
            /\ central \in KubeCentrals
            /\ sub \in {s \in KubeSubs : s.upgrade = 0 /\ (s.available = 0 \/ s.available > s.active)}
       [] OTHER -> central = {} /\ sub = [expiring |-> TRUE, update |-> "none"]
  /\ audit = NoAudit
  /\ status = "unknown"
  /\ undisturbed = TRUE
  /\ faults = 0 /\ changes = 0 /\ restarts = 0

--------------------------------------------------------------------------------
\* The strategies.

JobData == IF update = "patch" THEN PatchJob ELSE NoJob

StrategyRequest ==
  \/ NewStrategy(PlainOpts) /\ UNCHANGED changes
  \/ \E o \in Options : NewStrategy(o) /\ changes < MaxChanges /\ changes' = changes + 1

Operators ==
  \/ StartStep(JobData)
  \/ PatchOperators \/ FirmwareOperators \/ KubeOperators \/ RootcaOperators

--------------------------------------------------------------------------------
\* The audits.

\* The data of RegionOne for this endpoint; there may be none to be had.
AuditData ==
  CASE update = "patch" -> {PatchAuditData}
    [] update = "firmware" -> IF central = {} THEN {} ELSE {central}
    [] update = "kubernetes" -> {central.active}
    [] OTHER -> {}

AuditFetches ==
  /\ audit.pc = "idle"
  /\ \/ audit' = [pc |-> "fetched", data |-> AuditData, verdict |-> "none"] /\ UNCHANGED bounded
     \/ audit' = [pc |-> "fetched", data |-> {}, verdict |-> "none"] /\ Fault
  /\ UNCHANGED <<update, step, opts, job, vim, central, sub, status, undisturbed>>

\* An audit for which there is nothing to compare with.
NothingToCompare ==
  \/ update = "patch" /\ audit.data = {}
  \/ update = "kubernetes" /\ 0 \in audit.data

InSync ==
  CASE update = "patch" -> \A data \in audit.data : PatchVerdict(data)
    [] update = "firmware" -> \A images \in audit.data : FirmwareVerdict(images)
    [] update = "kubernetes" -> \A active \in audit.data : KubeVerdict(active)
    [] OTHER -> RootcaVerdict

AuditCompares ==
  /\ audit.pc = "fetched"
  /\ audit' = IF NothingToCompare THEN NoAudit
              ELSE [audit EXCEPT !.pc = "judged",
                                 !.verdict = IF InSync THEN "in-sync" ELSE "out-of-sync"]
  /\ UNCHANGED <<update, step, opts, job, vim, central, sub, status, undisturbed, bounded>>

\* The subcloud does not answer: nothing is reported, but that a device image
\* that cannot be read is taken for another one.
AuditSkips ==
  /\ audit.pc = "fetched"
  /\ \/ audit' = NoAudit
     \/ /\ update = "firmware" /\ audit.data # {}
        /\ audit' = [audit EXCEPT !.pc = "judged", !.verdict = "out-of-sync"]
  /\ Fault
  /\ UNCHANGED <<update, step, opts, job, vim, central, sub, status, undisturbed>>

AuditReports ==
  /\ audit.pc = "judged"
  /\ status' = audit.verdict
  /\ audit' = NoAudit
  /\ UNCHANGED <<update, step, opts, job, vim, central, sub, undisturbed, bounded>>

Audits == AuditFetches \/ AuditCompares \/ AuditReports

--------------------------------------------------------------------------------
\* The surroundings.

VimWorks ==
  \/ update = "patch" /\ (PatchVimBuilds \/ PatchVimReady \/ PatchVimApplies \/ HostsSettle)
  \/ update = "firmware" /\ (FirmwareVimBuilds \/ FirmwareVimApplies)
  \/ update \in {"kubernetes", "kube rootca"} /\ (KubeVimBuilds \/ KubeVimApplies)

VimGoesWrong ==
  \/ VimBuildFails \/ VimElsewhere
  \/ update = "patch" /\ Applied("apply-failed") /\ Fault /\ UNCHANGED sub /\ VimQuiet
  \/ update = "firmware" /\ \E D \in SUBSET Devices, o \in {"applied", "apply-failed"} :
                              FirmwareVimFails(D, o)
  \/ update \in {"kubernetes", "kube rootca"} /\ KubeVimFails

OthersChange ==
  /\ CASE update = "patch" -> \E p \in Patches : PatchCentralMoves(p)
       [] update = "firmware" -> FirmwareChanges
       [] OTHER -> KubeChanges
  /\ undisturbed' = FALSE
  /\ Change
  /\ UNCHANGED <<update, step, opts, job, vim, auditVars>>

EndpointNext ==
  \/ StrategyRequest \/ Operators \/ OperatorRaises \/ Restart(JobData)
  \/ Audits \/ AuditSkips
  \/ VimWorks \/ VimGoesWrong \/ OthersChange

\* Strategies are requested as long as the endpoint is out of sync; the worker
\* of the step, the audits and the VIM go on.
EndpointSpec ==
  /\ EndpointInit /\ [][EndpointNext]_endpointVars
  /\ WF_endpointVars(NewStrategy(PlainOpts) /\ UNCHANGED changes)
  /\ WF_endpointVars(Operators)
  /\ WF_endpointVars(AuditFetches) /\ WF_endpointVars(AuditCompares) /\ WF_endpointVars(AuditReports)
  /\ WF_endpointVars(VimWorks)

--------------------------------------------------------------------------------

EndpointTypeOK ==
  /\ update \in Updates
  /\ step \in [state : Ended \cup {"initial", "pre check", "updating", "importing", "start",
                                   "upload cert", "creating vim", "applying vim", "finishing"},
               pc : {"begin", "delete", "create", "build wait", "apply wait", "upload", "apply",
                     "interim", "clean", "commit", "remove", "import"},
               calls : [Calls -> (SUBSET Patches) \cup (SUBSET Images)]]
  /\ opts \in [uploadOnly : BOOLEAN, toVersion : 0..MaxVersion, certFile : BOOLEAN]
  /\ vim \in [state : VimStates, target : 0..MaxVersion]
  /\ CASE update = "patch" -> central \in PatchCentrals /\ sub \in PatchSubs
       [] update = "firmware" -> central \in FirmwareCentrals /\ sub \in FirmwareSubs
       [] update = "kubernetes" -> central \in KubeCentrals /\ sub \in KubeSubs
       [] OTHER -> central = {} /\ sub \in RootcaSubs
  /\ audit.pc \in {"idle", "fetched", "judged"}
  /\ {status, audit.verdict} \subseteq {"none", "unknown", "in-sync", "out-of-sync"}
  /\ undisturbed \in BOOLEAN
  /\ {faults, changes, restarts} \subseteq Nat

\* The endpoint is as RegionOne wants it.
Same ==
  CASE update = "patch" -> SamePatches
    [] update = "firmware" -> SameFirmware
    [] update = "kubernetes" -> SameVersion
    [] OTHER -> RootcaVerdict

(* A step does what the strategy asked for, whatever failed before and      *)
(* wherever the orchestrator was restarted: unless somebody else has        *)
(* interfered, or the hosts took too long, the endpoint is as RegionOne has *)
(* it when the step is complete, and kubernetes is never upgraded beyond    *)
(* the version asked for.  A firmware step may miss the later one of two    *)
(* devices of a kind.                                                       *)
CompleteIsDone ==
  undisturbed =>
    /\ step.state = "complete" =>
         CASE update = "patch" -> opts.uploadOnly \/ SamePatches
           [] update = "firmware" -> SameFirmware \/ FirmwareBlocked
           [] update = "kube rootca" -> RootcaVerdict
           [] OTHER -> TRUE
    /\ update = "kubernetes" /\ step.state = "applying vim" => vim.target <= ToVersion

(* Strategies bring the endpoint in sync, whatever failed on the way,      *)
(* unless there is no version to go to, a patch is committed that RegionOne *)
(* does not have applied, or a device was added after another of its kind. *)
(* And when everything has settled the status tells what is the case: the  *)
(* audits and the operators, which compare with code of their own, agree.  *)
Converges ==
  /\ <>[](\/ Same
          \/ update = "patch" /\ PatchBlocked
          \/ update = "firmware" /\ FirmwareBlocked
          \/ update = "kubernetes" /\ KubeBlocked)
  /\ \/ []<>(update = "kubernetes" /\ central.active = 0)
     \/ <>[](status = "in-sync" <=> Same)
================================================================================
