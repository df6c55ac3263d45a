------------------------------- MODULE KubeSteps -------------------------------
(***************************************************************************)
(* Kubernetes strategies, those that upgrade it and those that renew its   *)
(* root certificate: the operators and the audits.                         *)
(***************************************************************************)
EXTENDS VimSteps

CONSTANT MaxVersion   \* kubernetes versions are 1 .. MaxVersion, 0 is none

ASSUME KubeStepsAssumption == MaxVersion \in Nat

Versions == 1..MaxVersion

KubeCentrals == [active : 0..MaxVersion]

KubeSubs == [active : Versions, available : 0..MaxVersion, upgrade : 0..MaxVersion]

RootcaUpdates == {"none", "started", "cert uploaded", "updating", "aborted"}

RootcaSubs == [expiring : BOOLEAN, update : RootcaUpdates]

--------------------------------------------------------------------------------
\* The operators of an upgrade.

\* The version the subcloud would be upgraded to, or is being upgraded to.
Target == IF sub.upgrade # 0 THEN sub.upgrade ELSE sub.available

\* The version of the request, or the active one of RegionOne.
ToVersion == IF opts.toVersion # 0 THEN opts.toVersion ELSE central.active

KubePreCheck ==
  /\ Begins("pre check")
  /\ IF ToVersion = 0 THEN Raise
     ELSE IF Target = 0 \/ Target > ToVersion THEN Enter("complete")
     ELSE Enter(NextState)
  /\ OperatorQuiet /\ UNCHANGED <<vim, sub>>

\* The version the VIM is asked for is read again.
KubeOperators ==
  /\ update = "kubernetes"
  /\ KubePreCheck \/ CreatesVim(Target) \/ AppliesVim

--------------------------------------------------------------------------------
\* The operators of a root certificate update.

\* A certificate that is given is uploaded first.
RootcaPreCheck ==
  /\ Begins("pre check")
  /\ Enter(IF opts.certFile THEN "start" ELSE NextState)
  /\ OperatorQuiet /\ UNCHANGED <<vim, sub>>

\* An update that has been aborted is started again; one that is further on
\* is left to the VIM.
StartUpdate ==
  /\ Begins("start")
  /\ IF sub.update \in {"none", "aborted"}
     THEN sub' = [sub EXCEPT !.update = "started"] /\ Enter(NextState)
     ELSE /\ Enter(IF sub.update = "started" THEN NextState ELSE "creating vim")
          /\ UNCHANGED sub
  /\ OperatorQuiet /\ UNCHANGED vim

\* An upload that is refused raises.
UploadCert ==
  /\ Begins("upload cert")
  /\ IF sub.update = "started"
     THEN sub' = [sub EXCEPT !.update = "cert uploaded"] /\ Enter(NextState)
     ELSE Raise /\ UNCHANGED sub
  /\ OperatorQuiet /\ UNCHANGED vim

RootcaOperators ==
  /\ update = "kube rootca"
  /\ RootcaPreCheck \/ StartUpdate \/ UploadCert \/ CreatesVim(0) \/ AppliesVim

--------------------------------------------------------------------------------
\* The subcloud and RegionOne (external).

KubeVimBuilds ==
  /\ Built(IF update = "kubernetes" /\ vim.target = 0 THEN "build-failed" ELSE "ready-to-apply")
  /\ UNCHANGED bounded /\ VimQuiet

KubeVimApplies ==
  /\ Applied("applied")
  /\ sub' = IF update = "kubernetes"
            THEN [sub EXCEPT !.active = vim.target, !.upgrade = 0,
                             !.available = IF @ > vim.target THEN @ ELSE 0]
            ELSE [expiring |-> FALSE, update |-> "none"]
  /\ UNCHANGED bounded /\ VimQuiet

\* The update is left half done.
KubeVimFails ==
  /\ Applied("apply-failed")
  /\ sub' = IF update = "kubernetes" THEN [sub EXCEPT !.upgrade = vim.target]
            ELSE [sub EXCEPT !.update = "updating"]
  /\ Fault /\ VimQuiet

\* RegionOne is upgraded, or is between two versions; a load brings a version
\* to the subcloud; the certificate of the subcloud expires; its update is
\* aborted.
KubeChanges ==
  IF update = "kubernetes"
  THEN \/ central' \in KubeCentrals /\ central' # central /\ UNCHANGED sub
       \/ /\ \E v \in Versions : v > sub.active /\ sub' = [sub EXCEPT !.available = v]
          /\ sub' # sub /\ UNCHANGED central
  ELSE /\ \/ ~sub.expiring /\ sub' = [sub EXCEPT !.expiring = TRUE]
          \/ sub.update # "none" /\ sub' = [sub EXCEPT !.update = "aborted"]
       /\ UNCHANGED central

--------------------------------------------------------------------------------
\* The audits.

KubeVerdict(active) == sub.upgrade = 0 /\ sub.active = active

RootcaVerdict == ~sub.expiring

\* What it is all about.
SameVersion == sub.upgrade = 0 /\ sub.active = central.active

\* The subcloud has no version that the request admits.
KubeBlocked == central.active = 0 \/ Target = 0 \/ Target > central.active
================================================================================
