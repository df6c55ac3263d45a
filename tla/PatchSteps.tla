------------------------------ MODULE PatchSteps -------------------------------
(***************************************************************************)
(* Patch strategies: the operators that bring the patches of the subcloud  *)
(* to what RegionOne has, and the audit that compares the two.             *)
(*                                                                         *)
(* A patch has a state in the repository of a system (its repostate) and   *)
(* is on the hosts or not; the patch controller of the subcloud combines   *)
(* the two into its patchstate.                                            *)
(***************************************************************************)
EXTENDS VimSteps

CONSTANTS
  Patches,         \* the patches there are
  CentralLoaded,   \* those of a release whose load RegionOne has
  SubLoaded        \* those of a release whose load the subcloud has

ASSUME PatchStepsAssumption == CentralLoaded \cup SubLoaded \subseteq Patches

RepoStates == {"absent", "available", "applied", "committed"}

Effective == {"applied", "committed"}

PatchCentrals == [repo : [Patches -> RepoStates]]

PatchSubs == [repo : [Patches -> RepoStates], hosts : SUBSET Patches, interim : BOOLEAN]

\* In a subcloud that is left alone the hosts have what is in effect.
SettledPatches(repo) ==
  [repo |-> repo, hosts |-> {p \in Patches : repo[p] \in Effective}, interim |-> FALSE]

In(repo, states) == {p \in Patches : repo[p] \in states}

\* PatchJobData: the patches of loads that RegionOne has.
PatchJob ==
  [applied |-> In(central.repo, Effective) \cap CentralLoaded,
   committed |-> In(central.repo, {"committed"}) \cap CentralLoaded]

\* The patchstate the patch controller of the subcloud shows.
PatchState(p) ==
  CASE sub.repo[p] = "applied" -> IF p \in sub.hosts THEN "applied" ELSE "partial-apply"
    [] sub.repo[p] = "available" -> IF p \in sub.hosts THEN "partial-remove" ELSE "available"
    [] OTHER -> sub.repo[p]

ToState(P, state) == [p \in Patches |-> IF p \in P THEN state ELSE sub.repo[p]]

--------------------------------------------------------------------------------
\* The operators.

\* Alarms in the subcloud make the check raise (OperatorRaises).
PatchPreCheck ==
  /\ Begins("pre check")
  /\ Enter(NextState)
  /\ OperatorQuiet /\ UNCHANGED <<vim, sub>>

\* Patches that are there, but not applied, are left alone.
WrongComparePatches ==
  /\ Begins("updating")
  /\ step' = [step EXCEPT !.pc = "upload",
                !.calls["upload"] = job.applied \ In(sub.repo, RepoStates \ {"absent"}),
                !.calls["remove"] = In(sub.repo, {"applied"}) \ job.applied,
                !.calls["apply"] = job.applied \ In(sub.repo, RepoStates \ {"absent"})]
  /\ OperatorQuiet /\ UNCHANGED <<vim, sub>>

\* What is missing is to be uploaded and applied, what is available applied,
\* what RegionOne has not applied removed.  Nothing can be done about a patch
\* that is committed in the subcloud alone.
ComparePatches ==
  LET missing == job.applied \ In(sub.repo, RepoStates \ {"absent"})
      available == In(sub.repo, {"available"}) \cap job.applied
      stray == In(sub.repo, {"applied"}) \ job.applied
      stuck == In(sub.repo, {"committed"}) \ job.applied
  IN /\ Begins("updating")
     /\ IF ~opts.uploadOnly /\ stuck # {} THEN Raise
        ELSE step' = [step EXCEPT !.pc = "upload",
                        !.calls["upload"] = missing,
                        !.calls["remove"] = stray,
                        !.calls["apply"] = missing \cup available]
     /\ OperatorQuiet /\ UNCHANGED <<vim, sub>>

UploadPatch(p) ==
  /\ step.pc = "upload" /\ p \in step.calls["upload"]
  /\ step' = [step EXCEPT !.calls["upload"] = @ \ {p}]
  /\ sub' = [sub EXCEPT !.repo[p] = IF @ = "absent" THEN "available" ELSE @]
  /\ OperatorQuiet /\ UNCHANGED vim

\* All are there: an upload-only strategy is done, another removes patches.
RemovePatches ==
  LET removed == step.calls["remove"] \cap In(sub.repo, {"applied"})
  IN /\ step.pc = "upload" /\ step.calls["upload"] = {}
     /\ IF opts.uploadOnly THEN Enter("complete") /\ UNCHANGED sub
        ELSE /\ At("apply")
             /\ sub' = [sub EXCEPT !.repo = ToState(removed, "available"),
                                   !.interim = @ \/ removed # {}]
     /\ OperatorQuiet /\ UNCHANGED vim

ApplyPatches ==
  LET applied == step.calls["apply"] \cap In(sub.repo, {"available"})
  IN /\ step.pc = "apply"
     /\ At("interim")
     /\ sub' = [sub EXCEPT !.repo = ToState(applied, "applied"),
                           !.interim = @ \/ applied # {}]
     /\ OperatorQuiet /\ UNCHANGED vim

\* The hosts are given time to find out what they lack.  After too long a
\* wait the step goes on all the same.
AwaitHosts ==
  /\ step.pc = "interim"
  /\ \/ ~sub.interim /\ UNCHANGED <<undisturbed, bounded>>
     \/ sub.interim /\ Fault /\ undisturbed' = FALSE
  /\ Enter(NextState)
  /\ UNCHANGED <<update, opts, job, vim, central, sub, auditVars>>

\* By patchstate: what is available is deleted, what RegionOne has committed
\* is committed.
SortPatches ==
  /\ Begins("finishing")
  /\ step' = [step EXCEPT !.pc = "clean",
                !.calls["delete"] = {p \in Patches : PatchState(p) = "available"},
                !.calls["commit"] = {p \in job.committed : PatchState(p) = "applied"}]
  /\ OperatorQuiet /\ UNCHANGED <<vim, sub>>

DeletePatches ==
  /\ step.pc = "clean"
  /\ At("commit")
  /\ sub' = [sub EXCEPT !.repo = ToState(step.calls["delete"], "absent")]
  /\ OperatorQuiet /\ UNCHANGED vim

CommitPatches ==
  /\ step.pc = "commit"
  /\ Enter(NextState)
  /\ sub' = [sub EXCEPT !.repo = ToState(step.calls["commit"], "committed")]
  /\ OperatorQuiet /\ UNCHANGED vim

PatchOperators ==
  /\ update = "patch"
  /\ \/ PatchPreCheck
     \/ ComparePatches \/ RemovePatches \/ ApplyPatches \/ AwaitHosts
     \/ \E p \in Patches : UploadPatch(p)
     \/ CreatesVim(0) \/ AppliesVim
     \/ SortPatches \/ DeletePatches \/ CommitPatches

--------------------------------------------------------------------------------
\* The subcloud and RegionOne (external).

HostsCurrent == sub.hosts = In(sub.repo, Effective)

\* While hosts are in an interim state the VIM may take them for current.
PatchVimBuilds ==
  /\ \/ HostsCurrent \/ sub.interim
     /\ Built("nothing-to-do")
  /\ UNCHANGED bounded /\ VimQuiet

PatchVimReady ==
  /\ ~HostsCurrent
  /\ Built("ready-to-apply")
  /\ UNCHANGED bounded /\ VimQuiet

PatchVimApplies ==
  /\ Applied("applied")
  /\ sub' = [sub EXCEPT !.hosts = In(sub.repo, Effective)]
  /\ UNCHANGED bounded /\ VimQuiet

HostsSettle ==
  /\ sub.interim
  /\ sub' = [sub EXCEPT !.interim = FALSE]
  /\ UNCHANGED <<vim, bounded>> /\ VimQuiet

\* The patches of RegionOne are uploaded, applied, removed, deleted, committed.
PatchCentralMoves(p) ==
  /\ \E s \in RepoStates :
       /\ <<central.repo[p], s>> \in
            {<<"absent", "available">>, <<"available", "applied">>, <<"applied", "committed">>,
             <<"applied", "available">>, <<"available", "absent">>}
       /\ central' = [central EXCEPT !.repo[p] = s]
  /\ UNCHANGED sub

--------------------------------------------------------------------------------
\* The audit.

PatchAuditData ==
  [applied |-> In(central.repo, {"applied"}), committed |-> In(central.repo, {"committed"})]

PatchVerdict(data) ==
  /\ \A p \in In(sub.repo, RepoStates \ {"absent"}) :
       \/ PatchState(p) = "applied" /\ p \in data.applied
       \/ PatchState(p) = "committed" /\ p \in data.committed \cup data.applied
  /\ \A p \in (data.applied \cup data.committed) \cap SubLoaded : sub.repo[p] # "absent"

--------------------------------------------------------------------------------
\* What it is all about: what is applied here is in effect there, what is
\* committed here is committed there, and nothing else is.
SamePatches ==
  /\ sub.hosts = In(sub.repo, Effective)
  /\ \A p \in Patches :
       CASE central.repo[p] = "applied" ->
              sub.repo[p] \in Effective \/ (p \notin SubLoaded /\ sub.repo[p] = "absent")
         [] central.repo[p] = "committed" ->
              sub.repo[p] = "committed" \/ (p \notin SubLoaded /\ sub.repo[p] = "absent")
         [] OTHER -> sub.repo[p] = "absent"

\* A patch that cannot be undone in the subcloud.
PatchBlocked == In(sub.repo, {"committed"}) \ In(central.repo, Effective) # {}
================================================================================
