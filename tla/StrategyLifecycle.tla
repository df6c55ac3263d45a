--------------------------- MODULE StrategyLifecycle ---------------------------
(***************************************************************************)
(* What a client of the orchestrator may rely on: the strategy and its     *)
(* steps as the API shows them, without the threads that bring the changes *)
(* about.  SwUpdateOrch implements it, as long as clients wait for the     *)
(* answer to a create request.                                             *)
(***************************************************************************)
EXTENDS Naturals

CONSTANTS
  Subclouds,
  Deletable   \* the subclouds that may be deleted, once unmanaged

VARIABLES
  strategy,  \* the strategy, as [state, stop]
  steps      \* per subcloud its step, as [stage, state]

vars == <<strategy, steps>>

NoStrategy == [state |-> "none", stop |-> FALSE]

NoStep == [stage |-> 0, state |-> "none"]

Finished == {"complete", "aborted", "failed"}

Present == {r \in Subclouds : steps[r].state # "none"}

In(states) == {r \in Present : steps[r].state \in states}

Ongoing == {"applying", "abort requested", "aborting"}

Init ==
  /\ strategy = NoStrategy
  /\ steps = [r \in Subclouds |-> NoStep]

--------------------------------------------------------------------------------
\* Requests.

Create ==
  /\ strategy = NoStrategy
  /\ \E stop \in BOOLEAN : strategy' = [state |-> "initial", stop |-> stop]
  /\ UNCHANGED steps

\* Steps are added in the order of their stages.
AddStep(r) ==
  /\ strategy.state = "initial"
  /\ steps[r] = NoStep
  /\ steps'[r].stage \in Nat
  /\ \A q \in Present : steps[q].stage <= steps'[r].stage
  /\ steps' = [steps EXCEPT ![r] = [stage |-> steps'[r].stage,
                                    state |-> "initial"]]
  /\ UNCHANGED strategy

Becomes(state) == strategy' = [strategy EXCEPT !.state = state]

Apply == strategy.state = "initial" /\ Becomes("applying") /\ UNCHANGED steps

Abort ==
  strategy.state = "applying" /\ Becomes("abort requested") /\ UNCHANGED steps

Delete ==
  /\ strategy.state \in {"initial"} \cup Finished
  /\ Becomes("deleting")
  /\ UNCHANGED steps

--------------------------------------------------------------------------------
\* Progress.

Moves(r, state) ==
  steps' = [steps EXCEPT ![r].state = state] /\ UNCHANGED strategy

\* A step may leave "initial" once the earlier stages are over, and not after
\* a failure there when the strategy stops on failures.
Due(r) ==
  /\ strategy.state \in {"applying", "abort requested"}
  /\ r \in In({"initial"})
  /\ \A q \in Present :
       steps[q].stage < steps[r].stage =>
         /\ q \in In(Finished)
         /\ strategy.stop => q \notin In({"failed"})

Start(r) == Due(r) /\ Moves(r, "working")

\* The subcloud was unmanaged since the strategy was created.
Refuse(r) == Due(r) /\ Moves(r, "failed")

\* An action that has begun is brought to its end, the abort notwithstanding.
End(r) ==
  /\ strategy.state \in Ongoing
  /\ r \in In({"working"})
  /\ \E outcome \in {"complete", "failed"} : Moves(r, outcome)

Withdraw(r) ==
  /\ strategy.state = "abort requested"
  /\ r \in In({"initial"})
  /\ Moves(r, "aborted")

BeginAbort ==
  /\ strategy.state = "abort requested"
  /\ In({"initial"}) = {}
  /\ Becomes("aborting")
  /\ UNCHANGED steps

\* The outcomes there were: those that show, and those of steps that may have
\* been deleted with their subclouds since.
Outcomes ==
  {{steps[r].state : r \in Present} \cup lost :
     lost \in IF \E r \in Deletable : steps[r] = NoStep THEN SUBSET Finished
             ELSE {{}}}

Overall(outcomes) ==
  IF "failed" \in outcomes THEN "failed"
  ELSE IF "aborted" \in outcomes THEN "aborted"
  ELSE "complete"

Finish ==
  /\ strategy.state \in Ongoing
  /\ Present = In(Finished)
  /\ \E outcomes \in Outcomes : Becomes(Overall(outcomes))
  /\ UNCHANGED steps

\* The stage of the failure is over, the later ones were not begun.
StopOnFailure ==
  /\ strategy.state \in Ongoing
  /\ strategy.stop
  /\ \E outcomes \in Outcomes : "failed" \in outcomes
  /\ Present = In(Finished \cup {"initial"})
  /\ Becomes("failed")
  /\ UNCHANGED steps

DeleteSteps ==
  /\ strategy.state = "deleting"
  /\ steps' = [r \in Subclouds |-> NoStep]
  /\ UNCHANGED strategy

DeleteStrategy ==
  /\ strategy.state = "deleting"
  /\ Present = {}
  /\ strategy' = NoStrategy
  /\ UNCHANGED steps

\* A subcloud is deleted, and its step with it.
DeleteSubcloud(r) ==
  steps' = [steps EXCEPT ![r] = NoStep] /\ UNCHANGED strategy

--------------------------------------------------------------------------------
Next ==
  \/ Create \/ Apply \/ Abort \/ Delete
  \/ \E r \in Subclouds :
       AddStep(r) \/ Start(r) \/ Refuse(r) \/ End(r) \/ Withdraw(r)
  \/ \E r \in Deletable : DeleteSubcloud(r)
  \/ BeginAbort \/ Finish \/ StopOnFailure
  \/ DeleteSteps \/ DeleteStrategy

Spec == Init /\ [][Next]_vars
================================================================================
