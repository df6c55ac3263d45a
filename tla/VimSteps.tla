------------------------------- MODULE VimSteps --------------------------------
(***************************************************************************)
(* dcmanager-orchestrator: what the steps of the patch, firmware,          *)
(* kubernetes and kubernetes root CA strategies have in common.  Each      *)
(* brings the subcloud to where its VIM can do the update, has the VIM     *)
(* build a strategy and apply it, and looks at the outcome.                *)
(*                                                                         *)
(* The VIM of the subcloud, its sysinv and its patch controller are        *)
(* outside this code: they are modelled by what the operators ask of them. *)
(***************************************************************************)
EXTENDS Naturals, FiniteSets

CONSTANTS
  MaxFaults,     \* bound on what fails: calls, waits, the VIM's work
  MaxRestarts,   \* bound on the restarts of the orchestrator
  MaxChanges     \* bound on what others change, and on unusual requests

ASSUME VimStepsAssumption == {MaxFaults, MaxRestarts, MaxChanges} \subseteq Nat

VARIABLES
  update,       \* the update type of the strategies
  step,         \* the step: its state, where its operator is, calls to make
  opts,         \* extra_args of the strategy
  job,          \* the job data: what RegionOne had when the apply was set up
  vim,          \* the VIM strategy in the subcloud
  central,      \* RegionOne, as far as the update type is about it
  sub,          \* the subcloud, likewise
  audit,        \* an audit of the endpoint: data of RegionOne, verdict
  status,       \* the sync status of the endpoint in the database
  undisturbed,  \* nobody else has interfered since the step was started; an
                \* earlier upgrade of kubernetes was not at work then
  faults, changes, restarts

bounded == <<faults, changes, restarts>>
auditVars == <<audit, status>>
endpointVars == <<update, step, opts, job, vim, central, sub, auditVars, undisturbed, bounded>>

Ended == {"none", "complete", "failed"}

\* States in which a VIM strategy can neither be deleted nor replaced.
VimBusy == {"building", "applying", "aborting"}

VimStates ==
  VimBusy \cup {"none", "ready-to-apply", "nothing-to-do", "build-failed",
                "applied", "apply-failed", "aborted"}

NoVim == [state |-> "none", target |-> 0]

Calls == {"upload", "remove", "apply", "delete", "commit"}

NoCalls == [c \in Calls |-> {}]

\* Only patch strategies have job data.
NoJob == [applied |-> {}, committed |-> {}]

Fault == faults < MaxFaults /\ faults' = faults + 1 /\ UNCHANGED <<changes, restarts>>

Change == changes < MaxChanges /\ changes' = changes + 1 /\ UNCHANGED <<faults, restarts>>

\* The operator of a state is started, or the step has ended.
Enter(state) == step' = [state |-> state, pc |-> "begin", calls |-> NoCalls]

At(pc) == step' = [step EXCEPT !.pc = pc]

Begins(state) == step.state = state /\ step.pc = "begin"

Raise == Enter("failed")

\* What a step of an operator leaves alone, but for the subcloud and the VIM.
OperatorQuiet == UNCHANGED <<update, opts, job, central, auditVars, undisturbed, bounded>>

--------------------------------------------------------------------------------
\* The path of a step.

FirstState ==
  CASE update = "firmware" -> "importing"
    [] OTHER -> "pre check"

\* The state after one whose operator does not choose another.
NextState ==
  CASE step.state = "pre check" /\ update = "patch" -> "updating"
    [] step.state = "start" -> "upload cert"
    [] step.state = "pre check" /\ update # "patch" -> "creating vim"
    [] step.state \in {"updating", "importing", "upload cert"} -> "creating vim"
    [] step.state = "creating vim" -> "applying vim"
    [] step.state = "applying vim" /\ update \in {"patch", "firmware"} -> "finishing"
    [] OTHER -> "complete"

\* Any exception ends the step: a call that fails, an answer that is not the
\* expected one, a wait that takes too long, or a stop of the service.
OperatorRaises ==
  /\ step.state \notin Ended
  /\ Fault
  /\ Raise
  /\ UNCHANGED <<update, opts, job, vim, central, sub, auditVars, undisturbed>>

--------------------------------------------------------------------------------
\* "creating VIM ... strategy".

LookForVim ==
  /\ Begins("creating vim")
  /\ CASE vim.state = "none" -> At("create")
       [] vim.state \in VimBusy -> Raise
       [] OTHER -> At("delete")
  /\ OperatorQuiet /\ UNCHANGED <<vim, sub>>

\* The VIM refuses when somebody has got it to work meanwhile.
DeleteVim ==
  /\ step.pc = "delete"
  /\ IF vim.state \in VimBusy THEN Raise /\ UNCHANGED vim
     ELSE vim' = NoVim /\ At("create")
  /\ OperatorQuiet /\ UNCHANGED sub

\* create_strategy, with the version to upgrade to when there is one.
CreateVim(target) ==
  /\ step.pc = "create"
  /\ IF vim.state = "none"
     THEN vim' = [state |-> "building", target |-> target] /\ At("build wait")
     ELSE Raise /\ UNCHANGED vim
  /\ OperatorQuiet /\ UNCHANGED sub

\* Finding nothing to do is a failure.
WrongAwaitBuild ==
  /\ step.pc = "build wait"
  /\ vim.state # "building"
  /\ IF vim.state = "ready-to-apply" THEN Enter(NextState) ELSE Raise
  /\ OperatorQuiet /\ UNCHANGED <<vim, sub>>

\* Only the patch strategy may find that there is nothing to do.
AwaitBuild ==
  /\ step.pc = "build wait"
  /\ vim.state # "building"
  /\ CASE vim.state = "ready-to-apply" -> Enter(NextState)
       [] vim.state = "nothing-to-do" /\ update = "patch" -> Enter("finishing")
       [] OTHER -> Raise
  /\ OperatorQuiet /\ UNCHANGED <<vim, sub>>

--------------------------------------------------------------------------------
\* "applying VIM ... strategy".

\* A strategy that is not ready is awaited: it is being applied since before a
\* restart, or the wait finds that it failed.
ApplyVim ==
  /\ Begins("applying vim")
  /\ CASE vim.state = "none" ->
            (IF update = "firmware" THEN Enter(NextState) ELSE Raise) /\ UNCHANGED vim
       [] vim.state = "ready-to-apply" ->
            vim' = [vim EXCEPT !.state = "applying"] /\ At("apply wait")
       [] OTHER -> At("apply wait") /\ UNCHANGED vim
  /\ OperatorQuiet /\ UNCHANGED sub

AwaitApply ==
  /\ step.pc = "apply wait"
  /\ vim.state # "applying"
  /\ IF vim.state = "applied" THEN Enter(NextState) ELSE Raise
  /\ OperatorQuiet /\ UNCHANGED <<vim, sub>>

CreatesVim(target) == LookForVim \/ DeleteVim \/ CreateVim(target) \/ AwaitBuild

AppliesVim == ApplyVim \/ AwaitApply

--------------------------------------------------------------------------------
\* The VIM of the subcloud (external).

\* What the VIM leaves alone but for its strategy and the subcloud.
VimQuiet == UNCHANGED <<update, step, opts, job, central, auditVars, undisturbed>>

Built(state) ==
  /\ vim.state = "building"
  /\ vim' = [vim EXCEPT !.state = state]
  /\ UNCHANGED sub

Applied(state) ==
  /\ vim.state = "applying"
  /\ vim' = [vim EXCEPT !.state = state]

VimBuildFails == Built("build-failed") /\ Fault /\ VimQuiet

\* Somebody at the subcloud has the VIM build a strategy, apply it, abort it,
\* or deletes it.
VimElsewhere ==
  /\ \/ vim.state = "none" /\ vim' = [vim EXCEPT !.state = "building"]
     \/ vim.state = "ready-to-apply" /\ vim' = [vim EXCEPT !.state = "applying"]
     \/ vim.state = "applying" /\ vim' = [vim EXCEPT !.state = "aborted"]
     \/ vim.state \notin VimBusy \cup {"none"} /\ vim' = NoVim
  /\ undisturbed' = FALSE
  /\ Change
  /\ UNCHANGED <<update, step, opts, job, central, sub, auditVars>>

--------------------------------------------------------------------------------
\* The strategy around the step.

\* perform_state_action is run again in the state of the step after a restart.
\* The set-up of the apply is done again too (jobData is what it yields).
Restart(jobData) ==
  /\ restarts < MaxRestarts
  /\ restarts' = restarts + 1
  /\ step.state \notin Ended \cup {"initial"}
  /\ Enter(step.state)
  /\ job' = jobData
  /\ UNCHANGED <<update, opts, vim, central, sub, auditVars, undisturbed, faults, changes>>

\* The strategy before is deleted, with the VIM strategy in the subcloud when
\* it can be, and another is created for the subcloud, which is out of sync.
NewStrategy(o) ==
  /\ step.state \in Ended
  /\ status = "out-of-sync"
  /\ vim' = IF vim.state \in VimBusy THEN vim ELSE NoVim
  /\ opts' = o
  /\ Enter("initial")
  /\ UNCHANGED <<update, job, central, sub, auditVars, undisturbed, faults, restarts>>

StartStep(jobData) ==
  /\ step.state = "initial"
  /\ job' = jobData
  /\ undisturbed' = ~(update = "kubernetes" /\ vim.state \in VimBusy)
  /\ Enter(FirstState)
  /\ UNCHANGED <<update, opts, vim, central, sub, auditVars, bounded>>
================================================================================
