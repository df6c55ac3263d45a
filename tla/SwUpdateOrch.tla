----------------------------- MODULE SwUpdateOrch -----------------------------
(***************************************************************************)
(* dcmanager-orchestrator: one software update strategy applied to many    *)
(* subclouds.  The API handlers of SwUpdateManager create, apply, abort    *)
(* and delete the strategy in the database; one OrchThread per update type *)
(* polls the database and drives the strategy steps; a greenthread per     *)
(* subcloud performs the action of the step's state and writes the next    *)
(* state.                                                                  *)
(*                                                                         *)
(* The process is monkey patched by eventlet, which makes every database   *)
(* call a point where another greenthread may run: an action is a database *)
(* call together with the computation that follows it up to the next call. *)
(***************************************************************************)
EXTENDS StageCounter, FiniteSets

CONSTANTS
  NumSubclouds,    \* subclouds are 1..NumSubclouds in the order the create
                   \* loop visits them: by group id, then by subcloud id
  GroupOf,         \* the group of each subcloud
  Serial,          \* per group: the apply type in force is serial
  MaxParallel,     \* per group: the max_parallel_subclouds in force
  Types,           \* the update types, each with an OrchThread
  Operators,       \* per type: the keys of STATE_OPERATORS
  StartingState,   \* per type: the state entered first
  NextStates,      \* per type and operator state: what the state operator
                   \* may return, or the "complete" of a skipped subcloud
  SetupTypes,      \* types whose thread overrides pre_apply_setup
  JobDataStates,   \* states whose operator needs the data of that setup
  StopChoices,     \* values of stop-on-failure a client asks for
  SerialApi,       \* clients send no request while a create is in progress
  ClientsAbort,    \* clients send abort requests
  Touchable,       \* subclouds that may be unmanaged and managed again
  Deletable,       \* subclouds that may be deleted once unmanaged
  SlowDelete,      \* a delete thread may outlast the 190 seconds that
                   \* delete() waits for it
  MaxStrategies,   \* bound on the create requests
  MaxRestarts      \* bound on the restarts of the process

Subclouds == 1..NumSubclouds

Groups == {GroupOf[r] : r \in Subclouds}

Terminal == {"complete", "aborted", "failed"}

WorkStates == UNION {Operators[t] : t \in Types}

StepStates == WorkStates \cup Terminal \cup {"initial"}

StrategyStates == {"initial", "applying", "abort requested", "aborting",
                   "complete", "aborted", "failed", "deleting"}

ASSUME ConstantsAssumption ==
  /\ NumSubclouds \in Nat \ {0}
  /\ GroupOf \in [Subclouds -> Nat]
  /\ Serial \in [Groups -> BOOLEAN]
  /\ MaxParallel \in [Groups -> Nat \ {0}]
  /\ StartingState \in [Types -> WorkStates]
  /\ \A t \in Types : /\ StartingState[t] \in Operators[t]
                      /\ NextStates[t] \in [Operators[t] ->
                                            SUBSET (Operators[t] \cup {"complete"})]
  /\ "none" \notin StepStates
  /\ WorkStates \cap (Terminal \cup {"initial", "delete thread"}) = {}
  /\ SetupTypes \subseteq Types
  /\ StopChoices \subseteq BOOLEAN
  /\ {SerialApi, ClientsAbort, SlowDelete} \subseteq BOOLEAN
  /\ Touchable \cup Deletable \subseteq Subclouds
  /\ {MaxStrategies, MaxRestarts} \subseteq Nat

VARIABLES
  strategy,   \* the sw_update_strategy table: at most one row per type
  steps,      \* the strategy_steps table: at most one row per subcloud
  mgmt,       \* the subclouds table: management state, or deleted
  orch,       \* per type: where run_orch is and the locals it holds
  workers,    \* per type: subcloud_workers, the state a worker was started
              \* in, or "delete thread", or "none" when there is no entry
  live,       \* how many greenthreads run perform_state_action
  deleters,   \* how many greenthreads run delete_subcloud_strategy
  setup,      \* per type: _setup
  jobData,    \* per type: the job data is there
  creator,    \* per type: a create request in progress
  created,    \* create requests so far
  restarts    \* restarts so far

dbVars == <<strategy, steps, mgmt>>
workVars == <<workers, live, deleters>>
setupVars == <<setup, jobData>>
apiVars == <<creator, created, restarts>>
vars == <<dbVars, orch, workVars, setupVars, apiVars>>

NoStrategy == [state |-> "none", stop |-> FALSE]
NoStep == [stage |-> 0, state |-> "none"]
NoRow == [stage |-> 0, state |-> "none", mgmt |-> "managed"]

\* run_orch asleep between two passes, holding nothing.
Asleep == [pc |-> "asleep", snap |-> [r \in Subclouds |-> NoRow],
           cursor |-> 1, stage |-> 0, verdict |-> "none"]

NoCreate == [pc |-> "none", next |-> 1, acc |-> FirstStage, targets |-> {},
             made |-> FALSE]

First(S) == CHOOSE x \in S : \A y \in S : x <= y

Exists(t) == strategy[t].state # "none"

\* strategy_step_get_all joins every step with its subcloud.
StepRows == [r \in Subclouds |-> [stage |-> steps[r].stage,
                                  state |-> steps[r].state,
                                  mgmt |-> mgmt[r]]]

Present(snap) == {r \in Subclouds : snap[r].state # "none"}

SetStrategy(t, s) == strategy' = [strategy EXCEPT ![t].state = s]

SetStep(r, s) == steps' = [steps EXCEPT ![r].state = s]

Init ==
  /\ strategy = [t \in Types |-> NoStrategy]
  /\ steps = [r \in Subclouds |-> NoStep]
  /\ mgmt = [r \in Subclouds |-> "managed"]
  /\ orch = [t \in Types |-> Asleep]
  /\ workers = [t \in Types |-> [r \in Subclouds |-> "none"]]
  /\ live = [t \in Types |-> [r \in Subclouds |-> [s \in StepStates |-> 0]]]
  /\ deleters = [t \in Types |-> [r \in Subclouds |-> 0]]
  /\ setup = [t \in Types |-> FALSE]
  /\ jobData = [t \in Types |-> FALSE]
  /\ creator = [t \in Types |-> NoCreate]
  /\ created = 0
  /\ restarts = 0

-------------------------------------------------------------------------------
(* The API handlers.                                                       *)

NoCreateRunning == \A t \in Types : creator[t].pc = "none"

ApiFree == SerialApi => NoCreateRunning

\* Wrong... operators are plausible mistakes in the definition that follows
\* them, as in StageCounter.  Here the check looks at its own type only.
WrongCreateCheck(t) ==
  /\ ApiFree
  /\ creator[t].pc = "none"
  /\ created < MaxStrategies
  /\ ~Exists(t)
  /\ creator' = [creator EXCEPT ![t].pc = "checked"]
  /\ created' = created + 1
  /\ UNCHANGED <<dbVars, orch, workVars, setupVars, restarts>>

\* The check for an existing strategy of any type, without the lock.
CreateCheck(t) ==
  /\ ApiFree
  /\ creator[t].pc = "none"
  /\ created < MaxStrategies
  /\ \A u \in Types : ~Exists(u)
  /\ creator' = [creator EXCEPT ![t].pc = "checked"]
  /\ created' = created + 1
  /\ UNCHANGED <<dbVars, orch, workVars, setupVars, restarts>>

\* sw_update_strategy_create: the type column is unique.
CreateRow(t) ==
  /\ creator[t].pc = "checked"
  /\ IF Exists(t)
     THEN /\ creator' = [creator EXCEPT ![t] = NoCreate]
          /\ UNCHANGED strategy
     ELSE /\ \E stop \in StopChoices :
               strategy' = [strategy EXCEPT ![t] = [state |-> "initial",
                                                    stop |-> stop]]
          /\ creator' = [creator EXCEPT ![t].pc = "group"]
  /\ UNCHANGED <<steps, mgmt, orch, workVars, setupVars, created, restarts>>

\* subcloud_get_for_group: the subclouds of the next group.  Which of the
\* managed ones are online and out of sync is an input.
CreateGroup(t) ==
  LET g == GroupOf[creator[t].next]
  IN /\ creator[t].pc = "group"
     /\ \E T \in SUBSET {r \in Subclouds : GroupOf[r] = g /\ mgmt[r] = "managed"} :
          creator' = [creator EXCEPT ![t].targets = T, ![t].pc = "subcloud"]
     /\ UNCHANGED <<dbVars, orch, workVars, setupVars, created, restarts>>

\* The create loop moves past subcloud r with the counters in acc.
CreateAdvance(t, r, acc, made) ==
  LET last == r = NumSubclouds
      groupEnds == IF last THEN TRUE ELSE GroupOf[r + 1] # GroupOf[r]
  IN creator' = [creator EXCEPT ![t].next = IF last THEN r ELSE r + 1,
                                ![t].acc = IF groupEnds THEN EndGroup(acc) ELSE acc,
                                ![t].made = made,
                                ![t].pc = IF last THEN "end"
                                          ELSE IF groupEnds THEN "group" ELSE "subcloud"]

CreateSkip(t) ==
  LET c == creator[t]
  IN /\ c.pc = "subcloud"
     /\ c.next \notin c.targets
     /\ CreateAdvance(t, c.next, SkipSubcloud(c.acc), c.made)
     /\ UNCHANGED <<dbVars, orch, workVars, setupVars, created, restarts>>

\* strategy_step_create: the subcloud_id column is unique and must refer to
\* a subcloud; otherwise the request fails where it is.
CreateStep(t) ==
  LET c == creator[t]
      r == c.next
      g == GroupOf[r]
  IN /\ c.pc = "subcloud"
     /\ r \in c.targets
     /\ IF steps[r] = NoStep /\ mgmt[r] # "deleted"
        THEN /\ steps' = [steps EXCEPT ![r] = [stage |-> c.acc.counter,
                                               state |-> "initial"]]
             /\ CreateAdvance(t, r, AddSubcloud(c.acc, Serial[g], MaxParallel[g]),
                              TRUE)
        ELSE /\ creator' = [creator EXCEPT ![t] = NoCreate]
             /\ UNCHANGED steps
     /\ UNCHANGED <<strategy, mgmt, orch, workVars, setupVars, created, restarts>>

\* A strategy without steps is handed to the thread for deletion.
CreateEnd(t) ==
  /\ creator[t].pc = "end"
  /\ IF creator[t].made \/ ~Exists(t)
     THEN UNCHANGED strategy
     ELSE SetStrategy(t, "deleting")
  /\ creator' = [creator EXCEPT ![t] = NoCreate]
  /\ UNCHANGED <<steps, mgmt, orch, workVars, setupVars, created, restarts>>

\* The three requests below read and write the strategy under
\* strategy_lock, which every other writer of an existing strategy takes.
ApplyStrategy(t) ==
  /\ ApiFree
  /\ strategy[t].state = "initial"
  /\ SetStrategy(t, "applying")
  /\ UNCHANGED <<steps, mgmt, orch, workVars, setupVars, apiVars>>

\* The check is on the strategy of the requested type, the update on the
\* first row of any type.
AbortStrategy(t) ==
  /\ ApiFree
  /\ ClientsAbort
  /\ strategy[t].state = "applying"
  /\ \E u \in {v \in Types : Exists(v)} : SetStrategy(u, "abort requested")
  /\ UNCHANGED <<steps, mgmt, orch, workVars, setupVars, apiVars>>

DeleteStrategy(t) ==
  /\ ApiFree
  /\ strategy[t].state \in {"initial", "complete", "failed", "aborted"}
  /\ SetStrategy(t, "deleting")
  /\ UNCHANGED <<steps, mgmt, orch, workVars, setupVars, apiVars>>

-------------------------------------------------------------------------------
(* The orchestration thread of one update type.                            *)

Sleep(t) == orch' = [orch EXCEPT ![t] = Asleep]

Goto(t, label) == orch' = [orch EXCEPT ![t].pc = label]

\* run_orch wakes up, reads the strategy of its type and branches on its
\* state.  _pre_apply_setup sets _setup before the setup itself runs.
LoopRead(t) ==
  LET st == strategy[t].state
  IN /\ orch[t].pc = "asleep"
     /\ \/ /\ st \in {"applying", "aborting"}
           /\ Goto(t, IF t \in SetupTypes /\ ~setup[t] THEN "setup" ELSE "apply")
           /\ setup' = [setup EXCEPT ![t] = TRUE]
        \/ /\ st = "abort requested"
           /\ Goto(t, "abort")
           /\ UNCHANGED setup
        \/ /\ st = "deleting"
           /\ Goto(t, "delete")
           /\ UNCHANGED setup
     /\ UNCHANGED <<dbVars, workVars, jobData, apiVars>>

\* pre_apply_setup queries keystone, sysinv and patching of the system
\* controller; an exception ends the pass.
PreApplySetup(t) ==
  /\ orch[t].pc = "setup"
  /\ \/ /\ jobData' = [jobData EXCEPT ![t] = TRUE]
        /\ Goto(t, "apply")
     \/ /\ Sleep(t)
        /\ UNCHANGED jobData
  /\ UNCHANGED <<dbVars, workVars, setup, apiVars>>

\* Steps in progress are overlooked.
WrongStateBreaks(snap, stop) ==
  {r \in Present(snap) : \/ snap[r].state = "initial"
                         \/ stop /\ snap[r].state = "failed"}

\* Where the first loop of apply() breaks: the first step that is not
\* finished, or that has failed when the strategy stops on failures.
Breaks(snap, stop) ==
  {r \in Present(snap) : \/ snap[r].state \notin Terminal
                         \/ stop /\ snap[r].state = "failed"}

\* The outcome when that loop does not break.
Verdict(snap) ==
  IF \E r \in Present(snap) : snap[r].state = "failed" THEN "failed"
  ELSE IF \E r \in Present(snap) : snap[r].state = "aborted" THEN "aborted"
  ELSE "complete"

\* work_remaining: an aborted step counts as work.
WorkRemaining(snap, stage) ==
  \E r \in Present(snap) : /\ snap[r].stage = stage
                           /\ snap[r].state \notin {"complete", "failed"}

\* _delete_subcloud_worker for every subcloud of R.
Forget(t, R) ==
  workers' = [workers EXCEPT ![t] = [r \in Subclouds |->
                                      IF r \in R THEN "none" ELSE @[r]]]

\* apply() up to its next database write.
ApplyRead(t) ==
  LET snap == StepRows
      breaks == Breaks(snap, strategy[t].stop)
      b == First(breaks)
      hasFailed == snap[b].state = "failed"
      passed == {r \in Present(snap) : r < b \/ (r = b /\ hasFailed)}
  IN /\ orch[t].pc = "apply"
     /\ IF breaks = {}
        THEN /\ Forget(t, Present(snap))
             /\ orch' = [orch EXCEPT ![t] = [Asleep EXCEPT !.pc = "finish",
                                                          !.verdict = Verdict(snap)]]
        ELSE /\ Forget(t, passed)
             /\ orch' = [orch EXCEPT ![t] =
                  IF hasFailed /\ ~WorkRemaining(snap, snap[b].stage)
                  THEN [Asleep EXCEPT !.pc = "stop", !.verdict = "failed"]
                  ELSE [Asleep EXCEPT !.pc = "stage", !.snap = snap,
                                      !.stage = snap[b].stage]]
     /\ UNCHANGED <<dbVars, live, deleters, setupVars, apiVars>>

\* Every step is finished: the strategy takes its outcome, all workers are
\* forgotten and an audit is requested.
Finish(t) ==
  /\ orch[t].pc = "finish"
  /\ Exists(t)
  /\ SetStrategy(t, orch[t].verdict)
  /\ Forget(t, Subclouds)
  /\ Sleep(t)
  /\ UNCHANGED <<steps, mgmt, live, deleters, setupVars, apiVars>>

\* The stage with the failure is finished: the strategy fails.
StopOnFailure(t) ==
  /\ orch[t].pc = "stop"
  /\ Exists(t)
  /\ SetStrategy(t, orch[t].verdict)
  /\ Sleep(t)
  /\ UNCHANGED <<steps, mgmt, workVars, setupVars, apiVars>>

\* sw_update_strategy_update raises when the row is gone.
FinishFails(t) ==
  /\ orch[t].pc \in {"finish", "stop", "abort end"}
  /\ ~Exists(t)
  /\ Sleep(t)
  /\ UNCHANGED <<dbVars, workVars, setupVars, apiVars>>

\* The loop does not look at the stage.
WrongToVisit(t) == {r \in Present(orch[t].snap) : r >= orch[t].cursor}

\* The steps the loop of the current pass has yet to visit.
ToVisit(t) ==
  {r \in Present(orch[t].snap) : /\ r >= orch[t].cursor
                                 /\ orch[t].snap[r].stage = orch[t].stage}

Visiting(t, r) ==
  /\ orch[t].pc = "stage"
  /\ ToVisit(t) # {}
  /\ r = First(ToVisit(t))

Visited(t, r) ==
  IF \E q \in ToVisit(t) : q > r
  THEN orch' = [orch EXCEPT ![t].cursor = r + 1]
  ELSE Sleep(t)

\* A worker is started whatever the entry says.
WrongProcessUpdateStep(t, r, s) ==
  /\ Visited(t, r)
  /\ workers' = [workers EXCEPT ![t][r] = s]
  /\ live' = [live EXCEPT ![t][r][s] = @ + 1]

\* process_update_step for a step in state s: an entry with this state is
\* left alone, an entry with another state or no entry starts a worker, and
\* the entry of a delete thread cannot be indexed: the exception ends the
\* pass.
ProcessUpdateStep(t, r, s) ==
  CASE workers[t][r] = "delete thread" ->
         /\ Sleep(t)
         /\ UNCHANGED <<workers, live>>
    [] workers[t][r] = s ->
         /\ Visited(t, r)
         /\ UNCHANGED <<workers, live>>
    [] OTHER ->
         /\ Visited(t, r)
         /\ workers' = [workers EXCEPT ![t][r] = s]
         /\ live' = [live EXCEPT ![t][r][s] = @ + 1]

\* A step of the stage that is failed or complete.
VisitFinished(t, r) ==
  /\ Visiting(t, r)
  /\ orch[t].snap[r].state \in {"failed", "complete"}
  /\ Forget(t, {r})
  /\ Visited(t, r)
  /\ UNCHANGED <<dbVars, live, deleters, setupVars, apiVars>>

\* A step not yet started whose subcloud is unmanaged.
VisitUnmanaged(t, r) ==
  /\ Visiting(t, r)
  /\ orch[t].snap[r].state = "initial"
  /\ orch[t].snap[r].mgmt = "unmanaged"
  /\ steps[r] # NoStep
  /\ SetStep(r, "failed")
  /\ Visited(t, r)
  /\ UNCHANGED <<strategy, mgmt, workVars, setupVars, apiVars>>

\* A step not yet started whose subcloud is managed.
VisitInitial(t, r) ==
  /\ Visiting(t, r)
  /\ orch[t].snap[r].state = "initial"
  /\ orch[t].snap[r].mgmt # "unmanaged"
  /\ steps[r] # NoStep
  /\ SetStep(r, StartingState[t])
  /\ ProcessUpdateStep(t, r, StartingState[t])
  /\ UNCHANGED <<strategy, mgmt, deleters, setupVars, apiVars>>

\* A step in progress (or aborted, when its stage has a failure).
VisitInProgress(t, r) ==
  /\ Visiting(t, r)
  /\ orch[t].snap[r].state \notin {"failed", "complete", "initial"}
  /\ ProcessUpdateStep(t, r, orch[t].snap[r].state)
  /\ UNCHANGED <<dbVars, deleters, setupVars, apiVars>>

\* strategy_step_update raises when the subcloud, and with it the step, was
\* deleted after the steps were read: the pass ends.
VisitGone(t, r) ==
  /\ \/ Visiting(t, r) /\ orch[t].snap[r].state = "initial"
     \/ orch[t].pc = "aborting" /\ r = orch[t].cursor
  /\ steps[r] = NoStep
  /\ Sleep(t)
  /\ UNCHANGED <<dbVars, workVars, setupVars, apiVars>>

\* abort() marks, one database write each, the steps that were not started
\* when it read them, then moves the strategy on.
AbortNext(t, snap, from) ==
  LET todo == {r \in Present(snap) : r >= from /\ snap[r].state = "initial"}
  IN orch' = [orch EXCEPT ![t] =
       IF todo = {} THEN [Asleep EXCEPT !.pc = "abort end"]
       ELSE [Asleep EXCEPT !.pc = "aborting", !.snap = snap, !.cursor = First(todo)]]

AbortRead(t) ==
  /\ orch[t].pc = "abort"
  /\ AbortNext(t, StepRows, 1)
  /\ UNCHANGED <<dbVars, workVars, setupVars, apiVars>>

AbortStep(t) ==
  LET r == orch[t].cursor
  IN /\ orch[t].pc = "aborting"
     /\ steps[r] # NoStep
     /\ SetStep(r, "aborted")
     /\ AbortNext(t, orch[t].snap, r + 1)
     /\ UNCHANGED <<strategy, mgmt, workVars, setupVars, apiVars>>

AbortEnd(t) ==
  /\ orch[t].pc = "abort end"
  /\ Exists(t)
  /\ SetStrategy(t, "aborting")
  /\ Sleep(t)
  /\ UNCHANGED <<steps, mgmt, workVars, setupVars, apiVars>>

\* delete() starts a delete thread for every step whose subcloud has no
\* entry in subcloud_workers.
DeleteStarts(t) == {r \in Present(StepRows) : workers[t][r] = "none"}

DeleteRead(t) ==
  /\ orch[t].pc = "delete"
  /\ workers' = [workers EXCEPT ![t] = [r \in Subclouds |->
                   IF r \in DeleteStarts(t) THEN "delete thread" ELSE @[r]]]
  /\ deleters' = [deleters EXCEPT ![t] = [r \in Subclouds |->
                   IF r \in DeleteStarts(t) THEN @[r] + 1 ELSE @[r]]]
  /\ Goto(t, "delete wait")
  /\ UNCHANGED <<dbVars, live, setupVars, apiVars>>

\* The wait has no time limit.
WrongDestroySteps(t) ==
  /\ orch[t].pc = "delete wait"
  /\ \A r \in Subclouds : workers[t][r] = "none"
  /\ steps' = [r \in Subclouds |-> NoStep]
  /\ Goto(t, "destroy")
  /\ UNCHANGED <<strategy, mgmt, workVars, setupVars, apiVars>>

\* The wait ends when no entry is left or after 190 seconds, with or without
\* a delete thread still running; then strategy_step_destroy_all removes the
\* steps of every type.
DestroySteps(t) ==
  /\ orch[t].pc = "delete wait"
  /\ \/ \A r \in Subclouds : workers[t][r] = "none"
     \/ \A r \in Subclouds : deleters[t][r] = 0
     \/ SlowDelete
  /\ steps' = [r \in Subclouds |-> NoStep]
  /\ Goto(t, "destroy")
  /\ UNCHANGED <<strategy, mgmt, workVars, setupVars, apiVars>>

\* sw_update_strategy_destroy is not given the type: it removes the first
\* row, whichever that is.  The teardown follows.
DestroyStrategy(t) ==
  /\ orch[t].pc = "destroy"
  /\ \E u \in {v \in Types : Exists(v)} :
       strategy' = [strategy EXCEPT ![u] = NoStrategy]
  /\ setup' = [setup EXCEPT ![t] = FALSE]
  /\ jobData' = [jobData EXCEPT ![t] = IF setup[t] THEN FALSE ELSE @]
  /\ Sleep(t)
  /\ UNCHANGED <<steps, mgmt, workVars, apiVars>>

DestroyFails(t) ==
  /\ orch[t].pc = "destroy"
  /\ \A u \in Types : ~Exists(u)
  /\ Sleep(t)
  /\ UNCHANGED <<dbVars, workVars, setupVars, apiVars>>

OrchThread(t) ==
  \/ LoopRead(t) \/ PreApplySetup(t)
  \/ ApplyRead(t) \/ Finish(t) \/ StopOnFailure(t) \/ FinishFails(t)
  \/ \E r \in Subclouds : \/ VisitFinished(t, r) \/ VisitUnmanaged(t, r)
                          \/ VisitInitial(t, r) \/ VisitInProgress(t, r)
                          \/ VisitGone(t, r)
  \/ AbortRead(t) \/ AbortStep(t) \/ AbortEnd(t)
  \/ DeleteRead(t) \/ DestroySteps(t) \/ DestroyStrategy(t) \/ DestroyFails(t)

-------------------------------------------------------------------------------
(* The greenthreads.                                                       *)

\* What perform_state_action may write for a step it found in state s: the
\* next state of the operator, "complete" when the subcloud is skipped, and
\* "failed" on any exception: no operator for the state, missing job data,
\* a failure or a time out in the subcloud, or a stop of the service.
Results(t, s) ==
  {"failed"} \cup
    IF s \in Operators[t] /\ (t \in SetupTypes /\ s \in JobDataStates => jobData[t])
    THEN NextStates[t][s] ELSE {}

\* A worker ends by writing the step, which may have been deleted.
WorkerEnds(t, r, s) ==
  /\ live[t][r][s] > 0
  /\ live' = [live EXCEPT ![t][r][s] = @ - 1]
  /\ IF steps[r] = NoStep THEN UNCHANGED steps
     ELSE \E res \in Results(t, s) : SetStep(r, res)
  /\ UNCHANGED <<strategy, mgmt, orch, workers, deleters, setupVars, apiVars>>

\* A delete thread ends by removing the entry of its subcloud, whatever the
\* entry is by now.
DeleterEnds(t, r) ==
  /\ deleters[t][r] > 0
  /\ deleters' = [deleters EXCEPT ![t][r] = @ - 1]
  /\ workers' = [workers EXCEPT ![t][r] = "none"]
  /\ UNCHANGED <<dbVars, orch, live, setupVars, apiVars>>

-------------------------------------------------------------------------------
(* The environment.                                                        *)

Unmanage(r) ==
  /\ mgmt[r] = "managed"
  /\ mgmt' = [mgmt EXCEPT ![r] = "unmanaged"]
  /\ UNCHANGED <<strategy, steps, orch, workVars, setupVars, apiVars>>

Manage(r) ==
  /\ mgmt[r] = "unmanaged"
  /\ mgmt' = [mgmt EXCEPT ![r] = "managed"]
  /\ UNCHANGED <<strategy, steps, orch, workVars, setupVars, apiVars>>

\* Deleting an unmanaged (and offline) subcloud deletes its step too.
DeleteSubcloud(r) ==
  /\ mgmt[r] = "unmanaged"
  /\ mgmt' = [mgmt EXCEPT ![r] = "deleted"]
  /\ steps' = [steps EXCEPT ![r] = NoStep]
  /\ UNCHANGED <<strategy, orch, workVars, setupVars, apiVars>>

\* The process dies, or is stopped, and starts again: only the database
\* survives.
Restart ==
  /\ restarts < MaxRestarts
  /\ restarts' = restarts + 1
  /\ orch' = [t \in Types |-> Asleep]
  /\ workers' = [t \in Types |-> [r \in Subclouds |-> "none"]]
  /\ live' = [t \in Types |-> [r \in Subclouds |-> [s \in StepStates |-> 0]]]
  /\ deleters' = [t \in Types |-> [r \in Subclouds |-> 0]]
  /\ setup' = [t \in Types |-> FALSE]
  /\ jobData' = [t \in Types |-> FALSE]
  /\ creator' = [t \in Types |-> NoCreate]
  /\ UNCHANGED <<dbVars, created>>

-------------------------------------------------------------------------------

CreateProgress(t) ==
  CreateRow(t) \/ CreateGroup(t) \/ CreateSkip(t) \/ CreateStep(t) \/ CreateEnd(t)

Api(t) ==
  CreateCheck(t) \/ ApplyStrategy(t) \/ AbortStrategy(t) \/ DeleteStrategy(t)

Worker(t, r) == \E s \in StepStates : WorkerEnds(t, r, s)

Environment ==
  \/ \E r \in Touchable : Unmanage(r) \/ Manage(r)
  \/ \E r \in Deletable : DeleteSubcloud(r)

Next ==
  \/ \E t \in Types : \/ Api(t) \/ CreateProgress(t) \/ OrchThread(t)
                      \/ \E r \in Subclouds : Worker(t, r) \/ DeleterEnds(t, r)
  \/ Environment
  \/ Restart

Spec == Init /\ [][Next]_vars

\* run_orch polls for ever; every wait of a state operator, of an HTTP call
\* and of a delete thread is bounded by a time out.  Clients promise nothing.
Fairness ==
  \A t \in Types :
    /\ WF_vars(OrchThread(t))
    /\ WF_vars(CreateProgress(t))
    /\ \A r \in Subclouds : WF_vars(Worker(t, r)) /\ WF_vars(DeleterEnds(t, r))

FairSpec == Spec /\ Fairness
-------------------------------------------------------------------------------
(* Properties.                                                             *)

EntryStates == StepStates \cup {"none", "delete thread"}

OrchLabels == {"asleep", "setup", "apply", "finish", "stop", "stage", "abort",
               "aborting", "abort end", "delete", "delete wait", "destroy"}

MgmtStates == {"managed", "unmanaged", "deleted"}

StrategyRows == [state : StrategyStates \cup {"none"}, stop : BOOLEAN]

Steps == [stage : Nat, state : StepStates \cup {"none"}]

Snaps == [Subclouds -> [stage : Nat, state : StepStates \cup {"none"},
                        mgmt : MgmtStates]]

OrchLocals == [pc : OrchLabels, snap : Snaps, cursor : Nat, stage : Nat,
               verdict : {"none", "complete", "failed", "aborted"}]

CreateLocals == [pc : {"none", "checked", "group", "subcloud", "end"},
                 next : Subclouds, acc : StageCounters,
                 targets : SUBSET Subclouds, made : BOOLEAN]

TypeOK ==
  /\ strategy \in [Types -> StrategyRows]
  /\ steps \in [Subclouds -> Steps]
  /\ mgmt \in [Subclouds -> MgmtStates]
  /\ orch \in [Types -> OrchLocals]
  /\ workers \in [Types -> [Subclouds -> EntryStates]]
  /\ live \in [Types -> [Subclouds -> [StepStates -> Nat]]]
  /\ deleters \in [Types -> [Subclouds -> Nat]]
  /\ setup \in [Types -> BOOLEAN]
  /\ jobData \in [Types -> BOOLEAN]
  /\ creator \in [Types -> CreateLocals]
  /\ created \in Nat
  /\ restarts \in Nat

\* The greenthreads performing a state action for subcloud r.
Running(t, r) == {s \in StepStates : live[t][r][s] > 0}

(* A subcloud is worked on by one greenthread at a time, and that          *)
(* greenthread is in the state its step shows: two workers would drive the *)
(* same subcloud's update twice and overwrite each other's step.           *)
OneWorkerPerSubcloud ==
  \A t \in Types, r \in Subclouds :
    steps[r] # NoStep =>
      \A s \in Running(t, r) : live[t][r][s] = 1 /\ steps[r].state = s

(* An entry of subcloud_workers that bears the state of an unfinished step  *)
(* stands for a greenthread: process_update_step relies on it to leave the *)
(* step to "whatever it was doing".                                        *)
EntryMeansWorker ==
  \A t \in Types, r \in Subclouds :
    /\ orch[t].pc = "asleep"
    /\ strategy[t].state \in {"applying", "aborting"}
    /\ steps[r].state \in WorkStates
    /\ workers[t][r] = steps[r].state
    => Running(t, r) # {}

(* A step marked aborted before it was started is never run.               *)
AbortedStepsNeverRun ==
  \A t \in Types, r \in Subclouds : live[t][r]["aborted"] = 0

(* The setup of a type is done before any of its workers runs.             *)
SetupBeforeApply ==
  \A t \in SetupTypes, r \in Subclouds : Running(t, r) # {} => jobData[t]

(* There is one strategy at a time, whatever its type.                     *)
AtMostOneStrategy ==
  \A t, u \in Types : Exists(t) /\ Exists(u) => t = u

\* The thread has something to do.
AtWork(t) ==
  strategy[t].state \in {"applying", "abort requested", "aborting", "deleting"}

(* A deleted strategy goes, and an applied one ends, whatever fails in the  *)
(* subclouds and whatever rows another thread takes away.  Only what an     *)
(* earlier strategy has left in subcloud_workers may block a later one:     *)
(* one that stopped on a failure, or one created at the same time whose     *)
(* delete took the steps of both.                                           *)
StrategiesEnd ==
  /\ \A t \in Types :
       strategy[t].state = "deleting" ~> strategy[t].state # "deleting"
  /\ (\E t \in Types : AtWork(t))
       /\ (created = 1 \/ (SerialApi /\ TRUE \notin StopChoices))
       ~> \A t \in Types : ~AtWork(t)

\* The strategy a client sees, and a step that is worked on whatever its state.
ShownStrategy ==
  IF \E t \in Types : Exists(t) THEN strategy[CHOOSE t \in Types : Exists(t)]
  ELSE NoStrategy

ShownSteps ==
  [r \in Subclouds |->
     [steps[r] EXCEPT !.state = IF @ \in WorkStates THEN "working" ELSE @]]

Lifecycle == INSTANCE StrategyLifecycle
               WITH strategy <- ShownStrategy, steps <- ShownSteps

(* The threads, whatever they read earlier and whenever they die, show a   *)
(* client no more than the life of a strategy: stages one after the other, *)
(* nothing begun after the abort or the failure that ends it, outcomes     *)
(* that are those of the steps and stay.                                   *)
ImplementsLifecycle == Lifecycle!Spec
===============================================================================
