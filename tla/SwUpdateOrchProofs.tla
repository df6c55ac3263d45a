-------------------------- MODULE SwUpdateOrchProofs --------------------------
(***************************************************************************)
(* Theorems about SwUpdateOrch, for every number of subclouds, every       *)
(* grouping and every set of update types: the types of the variables, one *)
(* strategy at a time, one worker per subcloud and the refinement of       *)
(* StrategyLifecycle.                                                      *)
(***************************************************************************)
EXTENDS SwUpdateOrch, WellFoundedInduction, TLAPS

(* Subclouds are numbered from 1.                                          *)
LEMMA SubcloudsAreNaturals ==
  /\ NumSubclouds \in Nat \ {0}
  /\ Subclouds \subseteq Nat
  /\ 1 \in Subclouds
<1>1. NumSubclouds \in Nat \ {0}
  BY ConstantsAssumption DEF ConstantsAssumption
<1> QED
  BY <1>1 DEF Subclouds

(* First picks the least element of a nonempty set of subclouds.           *)
LEMMA FirstIsLeast ==
  ASSUME NEW S \in SUBSET Subclouds, S # {}
  PROVE  First(S) \in S /\ \A y \in S : First(S) <= y
<1>1. Subclouds \subseteq Nat
  BY SubcloudsAreNaturals
<1>2. PICK x \in S : \A y \in S : ~ (<<y, x>> \in OpToRel(<, Nat))
  BY <1>1, NatLessThanWellFounded, WFMin
<1>3. ASSUME NEW y \in S
      PROVE  x <= y
  <2>1. <<y, x>> \in Nat \X Nat
    BY <1>1
  <2>2. ~ (y < x)
    BY <2>1, <1>2, Zenon DEF OpToRel
  <2> QED
    BY <1>1, <2>2
<1> QED
  BY <1>3 DEF First

(* The locals of the create loop and of run_orch keep their types.         *)
LEMMA CountersType ==
  ASSUME NEW acc \in StageCounters, NEW serial \in BOOLEAN, NEW limit \in Nat
  PROVE  /\ SkipSubcloud(acc) \in StageCounters
         /\ AddSubcloud(acc, serial, limit) \in StageCounters
         /\ EndGroup(acc) \in StageCounters
<1>1. acc.counter \in Nat \ {0} /\ acc.size \in Nat /\ acc.updated \in BOOLEAN
  BY DEF StageCounters
<1>2. SkipSubcloud(acc) \in StageCounters
  BY <1>1 DEF StageCounters, SkipSubcloud
<1>3. AddSubcloud(acc, serial, limit) \in StageCounters
  BY <1>1 DEF StageCounters, AddSubcloud
<1>4. EndGroup(acc) \in StageCounters
  BY <1>1 DEF StageCounters, EndGroup
<1> QED
  BY <1>2, <1>3, <1>4

LEMMA LocalsTypes ==
  /\ Asleep \in OrchLocals
  /\ NoCreate \in CreateLocals
  /\ NoStrategy \in StrategyRows
  /\ NoStep \in Steps
  /\ FirstStage \in StageCounters
BY SubcloudsAreNaturals
   DEF Asleep, OrchLocals, OrchLabels, Snaps, NoRow, MgmtStates, NoCreate,
       CreateLocals, StageCounters, FirstStage, NoStrategy, StrategyRows,
       NoStep, Steps

(* What run_orch is doing, and the steps it read, stay within their types  *)
(* in each of the ways a pass moves on.                                    *)
LEMMA OrchMoves ==
  ASSUME TypeOK, NEW t \in Types, NEW label \in OrchLabels
  PROVE  /\ Sleep(t) => orch' \in [Types -> OrchLocals]
         /\ Goto(t, label) => orch' \in [Types -> OrchLocals]
         /\ \A r \in Subclouds : Visited(t, r) => orch' \in [Types -> OrchLocals]
<1>1. Sleep(t) => orch' \in [Types -> OrchLocals]
  BY LocalsTypes DEF TypeOK, Sleep
<1>2. Goto(t, label) => orch' \in [Types -> OrchLocals]
  <2>1. [orch[t] EXCEPT !.pc = label] \in OrchLocals
    BY DEF TypeOK, OrchLocals
  <2> QED
    BY <2>1 DEF TypeOK, Goto
<1>3. ASSUME NEW r \in Subclouds, Visited(t, r)
      PROVE  orch' \in [Types -> OrchLocals]
  <2>1. CASE Sleep(t)
    BY <1>1, <2>1
  <2>2. CASE orch' = [orch EXCEPT ![t].cursor = r + 1]
    <3>1. r + 1 \in Nat
      BY SubcloudsAreNaturals
    <3>2. [orch[t] EXCEPT !.cursor = r + 1] \in OrchLocals
      BY <3>1 DEF TypeOK, OrchLocals
    <3> QED
      BY <2>2, <3>2 DEF TypeOK
  <2> QED
    BY <1>3, <2>1, <2>2 DEF Visited
<1> QED
  BY <1>1, <1>2, <1>3

LEMMA SnapType ==
  ASSUME TypeOK
  PROVE  StepRows \in Snaps
BY DEF TypeOK, StepRows, Snaps, Steps

LEMMA AbortNextType ==
  ASSUME TypeOK, NEW t \in Types, NEW snap \in Snaps, NEW from, AbortNext(t, snap, from)
  PROVE  orch' \in [Types -> OrchLocals]
<1> DEFINE todo == {r \in Present(snap) : r >= from /\ snap[r].state = "initial"}
<1>1. todo \in SUBSET Subclouds
  BY DEF Present
<1>2. CASE todo = {}
  <2>1. [Asleep EXCEPT !.pc = "abort end"] \in OrchLocals
    BY LocalsTypes DEF OrchLocals, OrchLabels
  <2> QED
    BY <1>2, <2>1 DEF AbortNext, TypeOK
<1>3. CASE todo # {}
  <2>1. First(todo) \in Nat
    BY <1>1, <1>3, FirstIsLeast, SubcloudsAreNaturals
  <2>2. [Asleep EXCEPT !.pc = "aborting", !.snap = snap, !.cursor = First(todo)] \in OrchLocals
    BY <2>1, LocalsTypes DEF OrchLocals, OrchLabels
  <2> QED
    BY <1>3, <2>2 DEF AbortNext, TypeOK
<1> QED
  BY <1>2, <1>3

(* The writes to the tables and to subcloud_workers.                       *)
LEMMA StrategyWrite ==
  ASSUME TypeOK, NEW t \in Types, NEW s \in StrategyStates \cup {"none"},
         SetStrategy(t, s)
  PROVE  strategy' \in [Types -> StrategyRows]
<1>1. [strategy[t] EXCEPT !.state = s] \in StrategyRows
  BY DEF TypeOK, StrategyRows
<1> QED
  BY <1>1 DEF TypeOK, SetStrategy

LEMMA StepWrite ==
  ASSUME TypeOK, NEW r \in Subclouds, NEW s \in StepStates, SetStep(r, s)
  PROVE  steps' \in [Subclouds -> Steps]
<1>1. [steps[r] EXCEPT !.state = s] \in Steps
  <2>1. steps[r] \in Steps
    BY DEF TypeOK
  <2> QED
    BY <2>1 DEF Steps
<1> QED
  BY <1>1 DEF TypeOK, SetStep

LEMMA ForgetWrite ==
  ASSUME TypeOK, NEW t \in Types, NEW R, Forget(t, R)
  PROVE  workers' \in [Types -> [Subclouds -> EntryStates]]
BY DEF Forget, TypeOK, EntryStates

LEMMA ProcessType ==
  ASSUME TypeOK, NEW t \in Types, NEW r \in Subclouds, NEW s \in StepStates,
         ProcessUpdateStep(t, r, s)
  PROVE  /\ orch' \in [Types -> OrchLocals]
         /\ workers' \in [Types -> [Subclouds -> EntryStates]]
         /\ live' \in [Types -> [Subclouds -> [StepStates -> Nat]]]
<1>1. "asleep" \in OrchLabels
  BY DEF OrchLabels
<1>2. CASE Sleep(t) /\ UNCHANGED <<workers, live>>
  BY <1>1, <1>2, OrchMoves DEF TypeOK
<1>3. CASE Visited(t, r) /\ UNCHANGED <<workers, live>>
  BY <1>1, <1>3, OrchMoves DEF TypeOK
<1>4. CASE /\ Visited(t, r)
           /\ workers' = [workers EXCEPT ![t][r] = s]
           /\ live' = [live EXCEPT ![t][r][s] = @ + 1]
  <2>1. orch' \in [Types -> OrchLocals]
    BY <1>1, <1>4, OrchMoves
  <2>2. workers' \in [Types -> [Subclouds -> EntryStates]]
    BY <1>4 DEF TypeOK, EntryStates
  <2>3. live' \in [Types -> [Subclouds -> [StepStates -> Nat]]]
    BY <1>4 DEF TypeOK
  <2> QED
    BY <2>1, <2>2, <2>3
<1> QED
  BY <1>2, <1>3, <1>4, Zenon DEF ProcessUpdateStep

(* The create loop keeps its locals.                                       *)
LEMMA CreateAdvanceType ==
  ASSUME TypeOK, NEW t \in Types, NEW r \in Subclouds, NEW acc \in StageCounters,
         NEW made \in BOOLEAN, CreateAdvance(t, r, acc, made)
  PROVE  creator' \in [Types -> CreateLocals]
<1> DEFINE last == r = NumSubclouds
           groupEnds == IF last THEN TRUE ELSE GroupOf[r + 1] # GroupOf[r]
           next == IF last THEN r ELSE r + 1
           acc2 == IF groupEnds THEN EndGroup(acc) ELSE acc
           pc == IF last THEN "end" ELSE IF groupEnds THEN "group" ELSE "subcloud"
<1>1. next \in Subclouds
  BY SubcloudsAreNaturals DEF Subclouds
<1>2. acc2 \in StageCounters
  <2>1. EndGroup(acc) \in StageCounters
    BY CountersType
  <2> QED
    BY <2>1
<1>3. pc \in {"none", "checked", "group", "subcloud", "end"}
  OBVIOUS
<1>4. creator' = [creator EXCEPT ![t] = [creator[t] EXCEPT
                    !.next = next, !.acc = acc2, !.made = made, !.pc = pc]]
  BY DEF CreateAdvance, TypeOK, CreateLocals
<1> HIDE DEF last, groupEnds, next, acc2, pc
<1>5. [creator[t] EXCEPT !.next = next, !.acc = acc2, !.made = made, !.pc = pc]
        \in CreateLocals
  <2>1. creator[t] \in CreateLocals
    BY DEF TypeOK
  <2> QED
    BY <1>1, <1>2, <1>3, <2>1 DEF CreateLocals
<1> QED
  BY <1>4, <1>5 DEF TypeOK

LEMMA ApiTypes ==
  ASSUME TypeOK, NEW t \in Types, Api(t) \/ CreateProgress(t)
  PROVE  TypeOK'
<1> USE DEF dbVars, workVars, setupVars, apiVars
<1>1. CASE CreateCheck(t)
  <2>1. [creator[t] EXCEPT !.pc = "checked"] \in CreateLocals
    BY DEF TypeOK, CreateLocals
  <2> QED
    BY <1>1, <2>1 DEF TypeOK, CreateCheck
<1>2. CASE CreateRow(t)
  <2>1. CASE Exists(t)
    BY <1>2, <2>1, LocalsTypes DEF TypeOK, CreateRow
  <2>2. CASE ~Exists(t)
    <3>1. [creator[t] EXCEPT !.pc = "group"] \in CreateLocals
      BY DEF TypeOK, CreateLocals
    <3>2. PICK stop \in StopChoices :
            strategy' = [strategy EXCEPT ![t] = [state |-> "initial", stop |-> stop]]
      BY <1>2, <2>2 DEF CreateRow
    <3>3. [state |-> "initial", stop |-> stop] \in StrategyRows
      BY ConstantsAssumption DEF ConstantsAssumption, StrategyRows, StrategyStates
    <3> QED
      BY <1>2, <2>2, <3>1, <3>2, <3>3 DEF TypeOK, CreateRow
  <2> QED
    BY <2>1, <2>2
<1>3. CASE CreateGroup(t)
  <2>1. PICK T \in SUBSET Subclouds :
          creator' = [creator EXCEPT ![t].targets = T, ![t].pc = "subcloud"]
    BY <1>3 DEF CreateGroup
  <2>2. [creator[t] EXCEPT !.targets = T, !.pc = "subcloud"] \in CreateLocals
    BY DEF TypeOK, CreateLocals
  <2> QED
    BY <1>3, <2>1, <2>2 DEF TypeOK, CreateGroup
<1>4. CASE CreateSkip(t)
  <2>1. creator[t] \in CreateLocals
    BY DEF TypeOK
  <2>2. creator[t].next \in Subclouds /\ creator[t].acc \in StageCounters
        /\ creator[t].made \in BOOLEAN
    BY <2>1 DEF CreateLocals
  <2>3. SkipSubcloud(creator[t].acc) \in StageCounters
    BY <2>2 DEF SkipSubcloud, StageCounters
  <2>4. creator' \in [Types -> CreateLocals]
    BY <1>4, <2>2, <2>3, CreateAdvanceType DEF CreateSkip
  <2> QED
    BY <1>4, <2>4 DEF TypeOK, CreateSkip
<1>5. CASE CreateStep(t)
  <2> DEFINE c == creator[t]
             r == c.next
             g == GroupOf[r]
  <2>1. c \in CreateLocals
    BY DEF TypeOK
  <2>2. r \in Subclouds /\ c.acc \in StageCounters /\ c.acc.counter \in Nat
    BY <2>1 DEF CreateLocals, StageCounters
  <2>3. CASE steps[r] = NoStep /\ mgmt[r] # "deleted"
    <3>1. g \in Groups /\ Serial[g] \in BOOLEAN /\ MaxParallel[g] \in Nat
      BY <2>2, ConstantsAssumption DEF ConstantsAssumption, Groups
    <3>2. AddSubcloud(c.acc, Serial[g], MaxParallel[g]) \in StageCounters
      BY <2>2, <3>1, CountersType
    <3>3. creator' \in [Types -> CreateLocals]
      BY <1>5, <2>2, <2>3, <3>2, CreateAdvanceType DEF CreateStep
    <3>4. [stage |-> c.acc.counter, state |-> "initial"] \in Steps
      BY <2>2 DEF Steps, StepStates
    <3> QED
      BY <1>5, <2>2, <2>3, <3>3, <3>4 DEF TypeOK, CreateStep
  <2>4. CASE ~ (steps[r] = NoStep /\ mgmt[r] # "deleted")
    BY <1>5, <2>4, LocalsTypes DEF TypeOK, CreateStep
  <2> QED
    BY <2>3, <2>4
<1>6. CASE CreateEnd(t)
  <2>1. "deleting" \in StrategyStates
    BY DEF StrategyStates
  <2>2. strategy' \in [Types -> StrategyRows]
    BY <1>6, <2>1, StrategyWrite DEF CreateEnd, TypeOK
  <2> QED
    BY <1>6, <2>2, LocalsTypes DEF TypeOK, CreateEnd
<1>7. CASE ApplyStrategy(t)
  <2>1. "applying" \in StrategyStates
    BY DEF StrategyStates
  <2>2. strategy' \in [Types -> StrategyRows]
    BY <1>7, <2>1, StrategyWrite DEF ApplyStrategy
  <2> QED
    BY <1>7, <2>2 DEF TypeOK, ApplyStrategy
<1>8. CASE AbortStrategy(t)
  <2>1. "abort requested" \in StrategyStates
    BY DEF StrategyStates
  <2>2. PICK u \in Types : SetStrategy(u, "abort requested")
    BY <1>8 DEF AbortStrategy
  <2>3. strategy' \in [Types -> StrategyRows]
    BY <2>1, <2>2, StrategyWrite
  <2> QED
    BY <1>8, <2>3 DEF TypeOK, AbortStrategy
<1>9. CASE DeleteStrategy(t)
  <2>1. "deleting" \in StrategyStates
    BY DEF StrategyStates
  <2>2. strategy' \in [Types -> StrategyRows]
    BY <1>9, <2>1, StrategyWrite DEF DeleteStrategy
  <2> QED
    BY <1>9, <2>2 DEF TypeOK, DeleteStrategy
<1> QED
  BY <1>1, <1>2, <1>3, <1>4, <1>5, <1>6, <1>7, <1>8, <1>9 DEF Api, CreateProgress

(* What apply() reads and decides.                                         *)
LEMMA ApplyReadTypes ==
  ASSUME TypeOK, NEW t \in Types, ApplyRead(t)
  PROVE  TypeOK'
<1> DEFINE snap == StepRows
           breaks == Breaks(snap, strategy[t].stop)
           b == First(breaks)
<1> USE DEF dbVars, workVars, setupVars, apiVars
<1>1. snap \in Snaps
  BY SnapType
<1>2. breaks \in SUBSET Subclouds
  BY DEF Breaks, Present
<1>3. workers' \in [Types -> [Subclouds -> EntryStates]]
  BY ForgetWrite DEF ApplyRead
<1>4. orch' \in [Types -> OrchLocals]
  <2>1. CASE breaks = {}
    <3>1. Verdict(snap) \in {"none", "complete", "failed", "aborted"}
      BY DEF Verdict
    <3> DEFINE locals == [Asleep EXCEPT !.pc = "finish", !.verdict = Verdict(snap)]
    <3>2. locals \in OrchLocals
      BY <3>1, LocalsTypes DEF OrchLocals, OrchLabels
    <3>3. orch' = [orch EXCEPT ![t] = locals]
      BY <2>1 DEF ApplyRead
    <3> QED
      BY <3>2, <3>3 DEF TypeOK
  <2>2. CASE breaks # {}
    <3>1. b \in Subclouds
      BY <1>2, <2>2, FirstIsLeast
    <3>2. snap[b].stage \in Nat
      BY <1>1, <3>1 DEF Snaps
    <3>3. [Asleep EXCEPT !.pc = "stop", !.verdict = "failed"] \in OrchLocals
      BY LocalsTypes DEF OrchLocals, OrchLabels
    <3>4. [Asleep EXCEPT !.pc = "stage", !.snap = snap, !.stage = snap[b].stage] \in OrchLocals
      BY <1>1, <3>2, LocalsTypes DEF OrchLocals, OrchLabels
    <3>5. \/ orch' = [orch EXCEPT ![t] =
                        [Asleep EXCEPT !.pc = "stop", !.verdict = "failed"]]
          \/ orch' = [orch EXCEPT ![t] =
                        [Asleep EXCEPT !.pc = "stage", !.snap = snap,
                                       !.stage = snap[b].stage]]
      BY <2>2, Zenon DEF ApplyRead
    <3> QED
      BY <3>3, <3>4, <3>5 DEF TypeOK
  <2> QED
    BY <2>1, <2>2
<1> QED
  BY <1>3, <1>4 DEF TypeOK, ApplyRead

(* A visited step is one that the pass read.                               *)
LEMMA VisitedStep ==
  ASSUME TypeOK, NEW t \in Types, NEW r \in Subclouds, Visiting(t, r)
  PROVE  orch[t].snap[r].state \in StepStates
<1>1. ToVisit(t) \in SUBSET Subclouds
  BY DEF ToVisit, Present
<1>2. r \in ToVisit(t)
  BY <1>1, FirstIsLeast DEF Visiting
<1> QED
  BY <1>2 DEF ToVisit, Present, TypeOK, OrchLocals, Snaps

LEMMA StageTypes ==
  ASSUME TypeOK, NEW t \in Types, NEW r \in Subclouds,
         \/ VisitFinished(t, r) \/ VisitUnmanaged(t, r) \/ VisitInitial(t, r)
         \/ VisitInProgress(t, r) \/ VisitGone(t, r)
  PROVE  TypeOK'
<1> USE DEF dbVars, workVars, setupVars, apiVars
<1>1. "asleep" \in OrchLabels
  BY DEF OrchLabels
<1>2. CASE VisitFinished(t, r)
  <2>1. orch' \in [Types -> OrchLocals]
    BY <1>1, <1>2, OrchMoves DEF VisitFinished
  <2>2. workers' \in [Types -> [Subclouds -> EntryStates]]
    BY <1>2, ForgetWrite DEF VisitFinished
  <2> QED
    BY <1>2, <2>1, <2>2 DEF TypeOK, VisitFinished
<1>3. CASE VisitUnmanaged(t, r)
  <2>1. orch' \in [Types -> OrchLocals]
    BY <1>1, <1>3, OrchMoves DEF VisitUnmanaged
  <2>2. "failed" \in StepStates
    BY DEF StepStates, Terminal
  <2>3. steps' \in [Subclouds -> Steps]
    BY <1>3, <2>2, StepWrite DEF VisitUnmanaged
  <2> QED
    BY <1>3, <2>1, <2>3 DEF TypeOK, VisitUnmanaged
<1>4. CASE VisitInitial(t, r)
  <2>1. StartingState[t] \in StepStates
    BY ConstantsAssumption DEF ConstantsAssumption, StepStates
  <2>2. steps' \in [Subclouds -> Steps]
    BY <1>4, <2>1, StepWrite DEF VisitInitial
  <2>3. ProcessUpdateStep(t, r, StartingState[t])
    BY <1>4 DEF VisitInitial
  <2>4. /\ orch' \in [Types -> OrchLocals]
        /\ workers' \in [Types -> [Subclouds -> EntryStates]]
        /\ live' \in [Types -> [Subclouds -> [StepStates -> Nat]]]
    BY <2>1, <2>3, ProcessType
  <2> QED
    BY <1>4, <2>2, <2>4 DEF TypeOK, VisitInitial
<1>5. CASE VisitInProgress(t, r)
  <2>1. orch[t].snap[r].state \in StepStates
    BY <1>5, VisitedStep DEF VisitInProgress
  <2>2. ProcessUpdateStep(t, r, orch[t].snap[r].state)
    BY <1>5 DEF VisitInProgress
  <2>3. /\ orch' \in [Types -> OrchLocals]
        /\ workers' \in [Types -> [Subclouds -> EntryStates]]
        /\ live' \in [Types -> [Subclouds -> [StepStates -> Nat]]]
    BY <2>1, <2>2, ProcessType
  <2> QED
    BY <1>5, <2>3 DEF TypeOK, VisitInProgress
<1>6. CASE VisitGone(t, r)
  <2>1. orch' \in [Types -> OrchLocals]
    BY <1>1, <1>6, OrchMoves DEF VisitGone
  <2> QED
    BY <1>6, <2>1 DEF TypeOK, VisitGone
<1> QED
  BY <1>2, <1>3, <1>4, <1>5, <1>6

LEMMA PassTypes ==
  ASSUME TypeOK, NEW t \in Types,
         \/ LoopRead(t) \/ PreApplySetup(t) \/ Finish(t) \/ StopOnFailure(t)
         \/ FinishFails(t)
  PROVE  TypeOK'
<1> USE DEF dbVars, workVars, setupVars, apiVars
<1>1. "asleep" \in OrchLabels /\ "setup" \in OrchLabels /\ "apply" \in OrchLabels
      /\ "abort" \in OrchLabels /\ "delete" \in OrchLabels
  BY DEF OrchLabels
<1>2. orch[t].verdict \in StrategyStates \cup {"none"}
  BY DEF TypeOK, OrchLocals, StrategyStates
<1>3. CASE LoopRead(t)
  <2>1. \/ Goto(t, "setup") \/ Goto(t, "apply") \/ Goto(t, "abort") \/ Goto(t, "delete")
    BY <1>3 DEF LoopRead
  <2>2. orch' \in [Types -> OrchLocals]
    BY <1>1, <2>1, OrchMoves
  <2>3. setup' \in [Types -> BOOLEAN]
    BY <1>3 DEF TypeOK, LoopRead
  <2> QED
    BY <1>3, <2>2, <2>3 DEF TypeOK, LoopRead
<1>4. CASE PreApplySetup(t)
  <2>1. orch' \in [Types -> OrchLocals]
    BY <1>1, <1>4, OrchMoves DEF PreApplySetup
  <2> QED
    BY <1>4, <2>1 DEF TypeOK, PreApplySetup
<1>5. CASE Finish(t)
  <2>1. orch' \in [Types -> OrchLocals]
    BY <1>1, <1>5, OrchMoves DEF Finish
  <2>2. strategy' \in [Types -> StrategyRows]
    BY <1>2, <1>5, StrategyWrite DEF Finish
  <2>3. workers' \in [Types -> [Subclouds -> EntryStates]]
    BY <1>5, ForgetWrite DEF Finish
  <2> QED
    BY <1>5, <2>1, <2>2, <2>3 DEF TypeOK, Finish
<1>6. CASE StopOnFailure(t)
  <2>1. orch' \in [Types -> OrchLocals]
    BY <1>1, <1>6, OrchMoves DEF StopOnFailure
  <2>2. strategy' \in [Types -> StrategyRows]
    BY <1>2, <1>6, StrategyWrite DEF StopOnFailure
  <2> QED
    BY <1>6, <2>1, <2>2 DEF TypeOK, StopOnFailure
<1>7. CASE FinishFails(t)
  <2>1. orch' \in [Types -> OrchLocals]
    BY <1>1, <1>7, OrchMoves DEF FinishFails
  <2> QED
    BY <1>7, <2>1 DEF TypeOK, FinishFails
<1> QED
  BY <1>3, <1>4, <1>5, <1>6, <1>7

LEMMA AbortTypes ==
  ASSUME TypeOK, NEW t \in Types,
         AbortRead(t) \/ AbortStep(t) \/ AbortEnd(t)
  PROVE  TypeOK'
<1> USE DEF dbVars, workVars, setupVars, apiVars
<1>1. CASE AbortRead(t)
  <2>1. orch' \in [Types -> OrchLocals]
    BY <1>1, SnapType, AbortNextType DEF AbortRead
  <2> QED
    BY <1>1, <2>1 DEF TypeOK, AbortRead
<1>2. CASE AbortStep(t)
  <2>1. orch[t].snap \in Snaps
    BY DEF TypeOK, OrchLocals
  <2>2. orch' \in [Types -> OrchLocals]
    BY <1>2, <2>1, AbortNextType DEF AbortStep
  <2>3. steps' \in [Subclouds -> Steps]
    <3> DEFINE r == orch[t].cursor
    <3>1. steps' = [steps EXCEPT ![r].state = "aborted"]
      BY <1>2 DEF AbortStep, SetStep
    <3>2. CASE r \in Subclouds
      <4>1. steps[r] \in Steps /\ "aborted" \in StepStates
        <5>1. steps[r] \in Steps
          BY <3>2 DEF TypeOK
        <5>2. "aborted" \in StepStates
          BY DEF StepStates, Terminal
        <5> QED
          BY <5>1, <5>2
      <4>2. [steps[r] EXCEPT !.state = "aborted"] \in Steps
        BY <4>1 DEF Steps
      <4> QED
        BY <3>1, <3>2, <4>2 DEF TypeOK
    <3>3. CASE r \notin Subclouds
      BY <3>1, <3>3 DEF TypeOK
    <3> QED
      BY <3>2, <3>3
  <2> QED
    BY <1>2, <2>2, <2>3 DEF TypeOK, AbortStep
<1>3. CASE AbortEnd(t)
  <2>1. "aborting" \in StrategyStates /\ "asleep" \in OrchLabels
    BY DEF StrategyStates, OrchLabels
  <2>2. strategy' \in [Types -> StrategyRows]
    BY <1>3, <2>1, StrategyWrite DEF AbortEnd
  <2>3. orch' \in [Types -> OrchLocals]
    BY <1>3, <2>1, OrchMoves DEF AbortEnd
  <2> QED
    BY <1>3, <2>2, <2>3 DEF TypeOK, AbortEnd
<1> QED
  BY <1>1, <1>2, <1>3

LEMMA DeleteTypes ==
  ASSUME TypeOK, NEW t \in Types,
         DeleteRead(t) \/ DestroySteps(t) \/ DestroyStrategy(t) \/ DestroyFails(t)
  PROVE  TypeOK'
<1> USE DEF dbVars, workVars, setupVars, apiVars
<1>1. "asleep" \in OrchLabels /\ "delete wait" \in OrchLabels /\ "destroy" \in OrchLabels
  BY DEF OrchLabels
<1>2. CASE DeleteRead(t)
  <2>1. orch' \in [Types -> OrchLocals]
    BY <1>1, <1>2, OrchMoves DEF DeleteRead
  <2>2. workers' \in [Types -> [Subclouds -> EntryStates]]
    BY <1>2 DEF TypeOK, DeleteRead, EntryStates
  <2>3. deleters' \in [Types -> [Subclouds -> Nat]]
    <3> DEFINE counts == [r \in Subclouds |->
                 IF r \in DeleteStarts(t) THEN deleters[t][r] + 1 ELSE deleters[t][r]]
    <3>1. counts \in [Subclouds -> Nat]
      BY DEF TypeOK
    <3>2. deleters' = [deleters EXCEPT ![t] = counts]
      BY <1>2 DEF DeleteRead
    <3> QED
      BY <3>1, <3>2 DEF TypeOK
  <2> QED
    BY <1>2, <2>1, <2>2, <2>3 DEF TypeOK, DeleteRead
<1>3. CASE DestroySteps(t)
  <2>1. orch' \in [Types -> OrchLocals]
    BY <1>1, <1>3, OrchMoves DEF DestroySteps
  <2>2. steps' \in [Subclouds -> Steps]
    BY <1>3, LocalsTypes DEF DestroySteps
  <2> QED
    BY <1>3, <2>1, <2>2 DEF TypeOK, DestroySteps
<1>4. CASE DestroyStrategy(t)
  <2>1. orch' \in [Types -> OrchLocals]
    BY <1>1, <1>4, OrchMoves DEF DestroyStrategy
  <2>2. strategy' \in [Types -> StrategyRows]
    BY <1>4, LocalsTypes DEF TypeOK, DestroyStrategy
  <2>3. setup' \in [Types -> BOOLEAN] /\ jobData' \in [Types -> BOOLEAN]
    BY <1>4 DEF TypeOK, DestroyStrategy
  <2> QED
    BY <1>4, <2>1, <2>2, <2>3 DEF TypeOK, DestroyStrategy
<1>5. CASE DestroyFails(t)
  <2>1. orch' \in [Types -> OrchLocals]
    BY <1>1, <1>5, OrchMoves DEF DestroyFails
  <2> QED
    BY <1>5, <2>1 DEF TypeOK, DestroyFails
<1> QED
  BY <1>2, <1>3, <1>4, <1>5

LEMMA ThreadTypes ==
  ASSUME TypeOK, NEW t \in Types, NEW r \in Subclouds,
         Worker(t, r) \/ DeleterEnds(t, r)
  PROVE  TypeOK'
<1> USE DEF dbVars, workVars, setupVars, apiVars
<1>1. CASE Worker(t, r)
  <2>1. PICK s \in StepStates : WorkerEnds(t, r, s)
    BY <1>1 DEF Worker
  <2>2. live' \in [Types -> [Subclouds -> [StepStates -> Nat]]]
    BY <2>1 DEF TypeOK, WorkerEnds
  <2>3. steps' \in [Subclouds -> Steps]
    <3>1. CASE steps[r] = NoStep
      BY <2>1, <3>1 DEF TypeOK, WorkerEnds
    <3>2. CASE steps[r] # NoStep
      <4>1. PICK res \in Results(t, s) : SetStep(r, res)
        BY <2>1, <3>2 DEF WorkerEnds
      <4>2. Results(t, s) \subseteq StepStates
        <5>1. "failed" \in StepStates /\ "complete" \in StepStates
          BY DEF StepStates, Terminal
        <5>2. Operators[t] \subseteq StepStates
          BY DEF StepStates, WorkStates
        <5>3. s \in Operators[t] => NextStates[t][s] \subseteq Operators[t] \cup {"complete"}
          BY ConstantsAssumption DEF ConstantsAssumption
        <5> QED
          BY <5>1, <5>2, <5>3 DEF Results
      <4> QED
        BY <4>1, <4>2, StepWrite
    <3> QED
      BY <3>1, <3>2
  <2> QED
    BY <2>1, <2>2, <2>3 DEF TypeOK, WorkerEnds
<1>2. CASE DeleterEnds(t, r)
  <2>1. deleters' \in [Types -> [Subclouds -> Nat]]
    BY <1>2 DEF TypeOK, DeleterEnds
  <2>2. workers' \in [Types -> [Subclouds -> EntryStates]]
    BY <1>2 DEF TypeOK, DeleterEnds, EntryStates
  <2> QED
    BY <1>2, <2>1, <2>2 DEF TypeOK, DeleterEnds
<1> QED
  BY <1>1, <1>2

LEMMA EnvironmentTypes ==
  ASSUME TypeOK, Environment \/ Restart
  PROVE  TypeOK'
<1> USE DEF dbVars, workVars, setupVars, apiVars
<1>1. Touchable \subseteq Subclouds /\ Deletable \subseteq Subclouds
  BY ConstantsAssumption DEF ConstantsAssumption
<1>2. ASSUME NEW r \in Subclouds, Unmanage(r) \/ Manage(r)
      PROVE  TypeOK'
  <2>1. mgmt' \in [Subclouds -> MgmtStates]
    BY <1>2 DEF TypeOK, Unmanage, Manage, MgmtStates
  <2> QED
    BY <1>2, <2>1 DEF TypeOK, Unmanage, Manage
<1>3. ASSUME NEW r \in Subclouds, DeleteSubcloud(r)
      PROVE  TypeOK'
  <2>1. mgmt' \in [Subclouds -> MgmtStates]
    BY <1>3 DEF TypeOK, DeleteSubcloud, MgmtStates
  <2>2. steps' \in [Subclouds -> Steps]
    BY <1>3, LocalsTypes DEF TypeOK, DeleteSubcloud
  <2> QED
    BY <1>3, <2>1, <2>2 DEF TypeOK, DeleteSubcloud
<1>4. CASE Restart
  <2>1. orch' \in [Types -> OrchLocals] /\ creator' \in [Types -> CreateLocals]
    BY <1>4, LocalsTypes DEF Restart
  <2>2. workers' \in [Types -> [Subclouds -> EntryStates]]
    BY <1>4 DEF Restart, EntryStates
  <2>3. /\ live' \in [Types -> [Subclouds -> [StepStates -> Nat]]]
        /\ deleters' \in [Types -> [Subclouds -> Nat]]
    BY <1>4 DEF Restart
  <2>4. setup' \in [Types -> BOOLEAN] /\ jobData' \in [Types -> BOOLEAN]
        /\ restarts' \in Nat
    BY <1>4 DEF Restart, TypeOK
  <2> QED
    BY <1>4, <2>1, <2>2, <2>3, <2>4 DEF TypeOK, Restart
<1> QED
  BY <1>1, <1>2, <1>3, <1>4 DEF Environment

LEMMA TypesAtFirst == Init => TypeOK
BY LocalsTypes DEF Init, TypeOK, EntryStates, MgmtStates

LEMMA TypesKept == TypeOK /\ [Next]_vars => TypeOK'
<1> SUFFICES ASSUME TypeOK, [Next]_vars
             PROVE  TypeOK'
  OBVIOUS
<1>1. CASE UNCHANGED vars
  BY <1>1 DEF TypeOK, vars, dbVars, workVars, setupVars, apiVars
<1>2. ASSUME NEW t \in Types, OrchThread(t)
      PROVE  TypeOK'
  BY <1>2, PassTypes, ApplyReadTypes, StageTypes, AbortTypes, DeleteTypes
     DEF OrchThread
<1> QED
  BY <1>1, <1>2, ApiTypes, ThreadTypes, EnvironmentTypes DEF Next

(* The types of all the variables: every table row, every local of a       *)
(* handler or of run_orch, and every counter stays in its range.           *)
THEOREM TypesCorrect == Spec => []TypeOK
BY TypesAtFirst, TypesKept, PTL DEF Spec

-------------------------------------------------------------------------------
(* One strategy at a time, for clients that wait for a create to return.   *)

\* The check of a create in progress still holds when its row is inserted:
\* no other create is under way, and only a create inserts rows.
CreateAlone ==
  \A t, u \in Types :
    /\ creator[t].pc # "none" /\ creator[u].pc # "none" => t = u
    /\ creator[t].pc = "checked" => ~Exists(u)

NoNewRow == \A u \in Types : Exists(u)' => Exists(u)

LEMMA OverwrittenRow ==
  ASSUME TypeOK, NEW t \in Types, NEW s, Exists(t), SetStrategy(t, s)
  PROVE  NoNewRow
BY DEF TypeOK, NoNewRow, Exists, SetStrategy

LEMMA QuietSteps ==
  ASSUME NEW t \in Types,
         \/ LoopRead(t) \/ PreApplySetup(t) \/ ApplyRead(t) \/ FinishFails(t)
         \/ AbortRead(t) \/ AbortStep(t)
         \/ DeleteRead(t) \/ DestroySteps(t) \/ DestroyFails(t)
         \/ \E r \in Subclouds : \/ VisitFinished(t, r) \/ VisitUnmanaged(t, r)
                                 \/ VisitInitial(t, r) \/ VisitInProgress(t, r)
                                 \/ VisitGone(t, r)
  PROVE  UNCHANGED <<strategy, creator>>
<1> USE DEF dbVars, apiVars
<1>1. CASE LoopRead(t) \/ PreApplySetup(t) \/ FinishFails(t)
  BY <1>1 DEF LoopRead, PreApplySetup, FinishFails
<1>2. CASE ApplyRead(t)
  BY <1>2 DEF ApplyRead
<1>3. CASE AbortRead(t) \/ AbortStep(t)
  BY <1>3 DEF AbortRead, AbortStep
<1>4. CASE DeleteRead(t) \/ DestroySteps(t) \/ DestroyFails(t)
  BY <1>4 DEF DeleteRead, DestroySteps, DestroyFails
<1>5. ASSUME NEW r \in Subclouds,
             \/ VisitFinished(t, r) \/ VisitUnmanaged(t, r) \/ VisitInitial(t, r)
             \/ VisitInProgress(t, r) \/ VisitGone(t, r)
      PROVE  UNCHANGED <<strategy, creator>>
  BY <1>5 DEF VisitFinished, VisitUnmanaged, VisitInitial, VisitInProgress, VisitGone
<1> QED
  BY <1>1, <1>2, <1>3, <1>4, <1>5

LEMMA RowsOnlyOverwritten ==
  ASSUME TypeOK, NEW t \in Types,
         ApplyStrategy(t) \/ AbortStrategy(t) \/ DeleteStrategy(t) \/ OrchThread(t)
  PROVE  NoNewRow /\ UNCHANGED creator
<1> USE DEF apiVars
<1>1. CASE ApplyStrategy(t) \/ DeleteStrategy(t)
  <2>1. Exists(t)
    BY <1>1 DEF ApplyStrategy, DeleteStrategy, Exists
  <2> QED
    BY <1>1, <2>1, OverwrittenRow DEF ApplyStrategy, DeleteStrategy
<1>2. CASE AbortStrategy(t)
  BY <1>2, OverwrittenRow DEF AbortStrategy
<1>3. CASE Finish(t) \/ StopOnFailure(t) \/ AbortEnd(t)
  BY <1>3, OverwrittenRow DEF Finish, StopOnFailure, AbortEnd
<1>4. CASE DestroyStrategy(t)
  BY <1>4 DEF DestroyStrategy, TypeOK, NoNewRow, Exists, NoStrategy
<1>5. CASE UNCHANGED <<strategy, creator>>
  BY <1>5 DEF NoNewRow, Exists
<1> QED
  BY <1>1, <1>2, <1>3, <1>4, <1>5, QuietSteps DEF OrchThread

LEMMA CreateSteps ==
  ASSUME SerialApi, TypeOK, AtMostOneStrategy, CreateAlone,
         NEW t \in Types, CreateCheck(t) \/ CreateProgress(t)
  PROVE  AtMostOneStrategy' /\ CreateAlone'
<1>1. CASE CreateCheck(t)
  <2>1. /\ \A u \in Types : creator[u].pc = "none" /\ ~Exists(u)
        /\ UNCHANGED strategy
    BY <1>1 DEF CreateCheck, ApiFree, NoCreateRunning, dbVars
  <2>2. \A u \in Types : u # t => creator'[u].pc = "none"
    BY <1>1, <2>1 DEF CreateCheck, TypeOK
  <2> QED
    BY <2>1, <2>2 DEF AtMostOneStrategy, CreateAlone, Exists
<1>2. ASSUME creator[t].pc # "none", creator'[t].pc # "checked",
             \A u \in Types : u # t => creator'[u] = creator[u]
      PROVE  CreateAlone'
  <2>1. \A u \in Types : u # t => creator'[u].pc = "none"
    BY <1>2 DEF CreateAlone
  <2> QED
    BY <1>2, <2>1 DEF CreateAlone
<1>3. CASE CreateRow(t)
  <2>1. creator[t].pc = "checked" /\ \A u \in Types : ~Exists(u)
    BY <1>3 DEF CreateRow, CreateAlone
  <2>2. \A u \in Types : u # t => ~Exists(u)'
    BY <1>3, <2>1 DEF CreateRow, TypeOK, Exists
  <2>3. AtMostOneStrategy'
    BY <2>2 DEF AtMostOneStrategy
  <2>4. creator'[t].pc # "checked" /\ \A u \in Types : u # t => creator'[u] = creator[u]
    BY <1>3 DEF CreateRow, TypeOK, NoCreate, CreateLocals
  <2> QED
    BY <1>2, <2>1, <2>3, <2>4
<1>4. CASE CreateGroup(t) \/ CreateSkip(t) \/ CreateStep(t) \/ CreateEnd(t)
  <2>1. creator[t].pc \in {"group", "subcloud", "end"}
    BY <1>4 DEF CreateGroup, CreateSkip, CreateStep, CreateEnd
  <2>2. creator'[t].pc # "checked" /\ \A u \in Types : u # t => creator'[u] = creator[u]
    <3>1. CASE CreateGroup(t)
      BY <3>1 DEF CreateGroup, TypeOK, CreateLocals
    <3>2. ASSUME NEW r, NEW acc, NEW made, CreateAdvance(t, r, acc, made)
          PROVE  /\ creator'[t].pc # "checked"
                 /\ \A u \in Types : u # t => creator'[u] = creator[u]
      BY <3>2 DEF CreateAdvance, TypeOK, CreateLocals
    <3>3. CASE CreateSkip(t)
      BY <3>2, <3>3 DEF CreateSkip
    <3>4. CASE CreateStep(t)
      <4>1. CASE creator' = [creator EXCEPT ![t] = NoCreate]
        BY <4>1 DEF TypeOK, NoCreate, CreateLocals
      <4> DEFINE g == GroupOf[creator[t].next]
                 added == AddSubcloud(creator[t].acc, Serial[g], MaxParallel[g])
      <4>2. CASE CreateAdvance(t, creator[t].next, added, TRUE)
        BY <3>2, <4>2
      <4> QED
        BY <3>4, <4>1, <4>2 DEF CreateStep
    <3>5. CASE CreateEnd(t)
      BY <3>5 DEF CreateEnd, TypeOK, NoCreate
    <3> QED
      BY <1>4, <3>1, <3>3, <3>4, <3>5
  <2>3. NoNewRow
    <3>1. CASE CreateEnd(t) /\ Exists(t) /\ SetStrategy(t, "deleting")
      BY <3>1, OverwrittenRow
    <3>2. CASE UNCHANGED strategy
      BY <3>2 DEF NoNewRow, Exists
    <3> QED
      BY <1>4, <3>1, <3>2 DEF CreateGroup, CreateSkip, CreateStep, CreateEnd, dbVars
  <2> QED
    BY <1>2, <2>1, <2>2, <2>3 DEF NoNewRow, AtMostOneStrategy
<1> QED
  BY <1>1, <1>3, <1>4 DEF CreateProgress

LEMMA OneAtFirst == Init => AtMostOneStrategy /\ CreateAlone
BY DEF Init, AtMostOneStrategy, CreateAlone, Exists, NoStrategy, NoCreate

LEMMA OneKept ==
  ASSUME SerialApi, TypeOK, AtMostOneStrategy, CreateAlone, [Next]_vars
  PROVE  AtMostOneStrategy' /\ CreateAlone'
<1> DEFINE OneInv == AtMostOneStrategy /\ CreateAlone
<1>1. CASE NoNewRow /\ UNCHANGED creator
  BY <1>1 DEF NoNewRow, AtMostOneStrategy, CreateAlone
<1>2. CASE UNCHANGED <<strategy, creator>>
  BY <1>2, <1>1 DEF NoNewRow, Exists
<1>3. ASSUME NEW t \in Types, Api(t)
      PROVE  OneInv'
  BY <1>3, <1>1, RowsOnlyOverwritten, CreateSteps DEF Api
<1>4. ASSUME NEW t \in Types, CreateProgress(t) \/ OrchThread(t)
      PROVE  OneInv'
  BY <1>4, <1>1, RowsOnlyOverwritten, CreateSteps
<1>5. ASSUME NEW t \in Types, NEW r \in Subclouds, Worker(t, r) \/ DeleterEnds(t, r)
      PROVE  OneInv'
  BY <1>5, <1>2 DEF Worker, WorkerEnds, DeleterEnds, dbVars, apiVars
<1>6. CASE Environment
  BY <1>6, <1>2 DEF Environment, Unmanage, Manage, DeleteSubcloud, apiVars
<1>7. CASE Restart
  <2>1. UNCHANGED strategy /\ \A t \in Types : creator'[t].pc = "none"
    BY <1>7 DEF Restart, dbVars, NoCreate
  <2> QED
    BY <2>1 DEF AtMostOneStrategy, CreateAlone, Exists
<1>8. CASE UNCHANGED vars
  BY <1>8, <1>2 DEF vars, dbVars, apiVars
<1> QED
  BY <1>3, <1>4, <1>5, <1>6, <1>7, <1>8 DEF Next

(* When no request overlaps a create, there is one strategy at a time, for *)
(* any types, restarts and delete threads: the check that create makes     *)
(* without the lock fails only for requests that overlap it.               *)
THEOREM OneStrategyAtATime ==
  ASSUME SerialApi
  PROVE  Spec => []AtMostOneStrategy
<1> DEFINE OneInv == AtMostOneStrategy /\ CreateAlone
<1>1. Init => OneInv
  BY OneAtFirst
<1>2. TypeOK /\ OneInv /\ [Next]_vars => OneInv'
  BY OneKept
<1> QED
  BY <1>1, <1>2, TypesCorrect, PTL DEF Spec

-------------------------------------------------------------------------------
(* One worker per subcloud, and the life of a strategy.                    *)

\* A pass that begins to start the steps of a stage starts them all: where
\* clients abort, neither a restart nor a deletion cuts a pass short.
WholePasses == ClientsAbort => MaxRestarts = 0 /\ Deletable = {}

Ongoing == {"applying", "abort requested", "aborting"}

ApplyLabels == {"setup", "apply", "finish", "stop", "stage"}
AbortLabels == {"abort", "aborting", "abort end"}
DeleteLabels == {"delete", "delete wait", "destroy"}

NoSteps == \A r \in Subclouds : steps[r].state = "none"

\* A missing row is NoStep, and is missing for good when the subcloud is
\* deleted.  There are steps only with a strategy, none begun before it is
\* applied and none to begin after an abort.
RowsFit ==
  /\ \A r \in Subclouds :
       /\ steps[r].state = "none" => steps[r] = NoStep
       /\ mgmt[r] = "deleted" => r \in Deletable /\ steps[r].state = "none"
  /\ (\A t \in Types : ~Exists(t)) => NoSteps
  /\ \A t \in Types :
       /\ strategy[t].state = "none" => strategy[t] = NoStrategy
       /\ orch[t].pc = "destroy" => NoSteps
       /\ strategy[t].state = "initial" =>
            \A r \in Subclouds : steps[r].state \in {"none", "initial"}
       /\ strategy[t].state = "aborting" =>
            \A r \in Subclouds : steps[r].state # "initial"

\* Stages are handed out in the order of the subclouds.
Ascending ==
  \A q, r \in Subclouds :
    q < r /\ steps[q].state # "none" /\ steps[r].state # "none" =>
      steps[q].stage <= steps[r].stage

\* The stage of the next step is no earlier than any there is.
Creating ==
  \A t \in Types :
    creator[t].pc \in {"group", "subcloud", "end"} =>
      /\ strategy[t].state = "initial"
      /\ \A r \in Subclouds : steps[r].state # "none" =>
           /\ steps[r].stage <= creator[t].acc.counter
           /\ creator[t].pc # "end" => r < creator[t].next

\* The stages before this one are over, without a failure when stop is set.
EarlierOver(stage, stop) ==
  \A q \in Subclouds :
    steps[q].state # "none" /\ steps[q].stage < stage =>
      steps[q].state \in Terminal /\ (stop => steps[q].state # "failed")

\* Nothing is worked on before its stage is due.
Staged ==
  \A t \in Types, r \in Subclouds :
    Exists(t) /\ steps[r].state \in WorkStates =>
      EarlierOver(steps[r].stage, strategy[t].stop)

NoAborts ==
  ~ClientsAbort =>
    /\ \A t \in Types : strategy[t].state # "abort requested"
    /\ \A r \in Subclouds : steps[r].state # "aborted"

Tables == RowsFit /\ Ascending /\ Creating /\ Staged /\ NoAborts

\* A greenthread works at the state its step and its entry show.
WorkersOK ==
  \A t \in Types, r \in Subclouds, s \in StepStates :
    live[t][r][s] > 0 /\ mgmt[r] # "deleted" =>
      /\ live[t][r][s] = 1 /\ s \in WorkStates
      /\ steps[r].state = s /\ workers[t][r] = s
      /\ strategy[t].state \in Ongoing

\* A delete thread runs as long as its entry is there, and is waited for.
DeletersOK ==
  \A t \in Types, r \in Subclouds :
    /\ workers[t][r] = "delete thread" =>
         deleters[t][r] = 1 /\ orch[t].pc = "delete wait"
    /\ workers[t][r] # "delete thread" => deleters[t][r] = 0

\* What run_orch does fits the strategy, whoever writes it meanwhile.
ThreadFits(t) ==
  /\ orch[t].pc \in ApplyLabels => strategy[t].state \in Ongoing
  /\ orch[t].pc \in AbortLabels => strategy[t].state = "abort requested"
  /\ orch[t].pc \in DeleteLabels => strategy[t].state = "deleting"

\* The steps of the stage, as the pass has read them.
InStage(t) == {r \in Present(orch[t].snap) : orch[t].snap[r].stage = orch[t].stage}

\* How a step may differ from what the pass has read of it: those visited
\* have left "initial", those to be visited have not, and one in progress that
\* has moved on since left its entry behind.
StepFits(t, r, read) ==
  /\ read # "aborted"
  /\ steps[r].state = "none" => mgmt[r] = "deleted"
  /\ steps[r].state # "none" =>
       /\ steps[r].stage = orch[t].stage
       /\ read = "initial" /\ r >= orch[t].cursor => steps[r].state = "initial"
       /\ read # "initial" \/ r < orch[t].cursor => steps[r].state # "initial"
       /\ read \in Terminal => steps[r].state = read
       /\ read \in WorkStates /\ r >= orch[t].cursor =>
            steps[r].state = read \/ workers[t][r] = read

StageFits(t) ==
  orch[t].pc = "stage" =>
    /\ EarlierOver(orch[t].stage, strategy[t].stop)
    /\ \A r \in Subclouds :
         steps[r].state # "none" /\ steps[r].stage = orch[t].stage =>
           r \in InStage(t) /\ steps[r].state # "aborted"
    /\ \A r \in InStage(t) : StepFits(t, r, orch[t].snap[r].state)

\* abort() has yet to visit exactly the steps that are not started.
AbortFits(t) ==
  /\ orch[t].pc = "abort end" => \A r \in Subclouds : steps[r].state # "initial"
  /\ orch[t].pc = "aborting" =>
       /\ orch[t].cursor \in Subclouds
       /\ orch[t].snap[orch[t].cursor].state = "initial"
       /\ \A r \in Subclouds :
            /\ steps[r].state = "initial" =>
                 orch[t].snap[r].state = "initial" /\ r >= orch[t].cursor
            /\ orch[t].snap[r].state = "initial" /\ r >= orch[t].cursor =>
                 /\ steps[r].state \in {"none", "initial"}
                 /\ steps[r].state = "none" => mgmt[r] = "deleted"

Outcomes == {steps[r].state : r \in {q \in Subclouds : steps[q].state # "none"}}

\* A step may have gone with its subcloud.
Lost == \E r \in Deletable : steps[r].state = "none"

\* The outcome decided is that of the steps there are and were.
OutcomeFits(t) ==
  /\ orch[t].pc = "finish" =>
       /\ Outcomes \subseteq Terminal
       /\ \E lost \in SUBSET Terminal :
            /\ orch[t].verdict = Lifecycle!Overall(Outcomes \cup lost)
            /\ lost # {} => Lost
  /\ orch[t].pc = "stop" =>
       /\ strategy[t].stop /\ orch[t].verdict = "failed"
       /\ Outcomes \subseteq Terminal \cup {"initial"}
       /\ "failed" \in Outcomes \/ Lost

ThreadOK(t) == ThreadFits(t) /\ StageFits(t) /\ AbortFits(t) /\ OutcomeFits(t)

NotBegun == {"initial", "aborted"}

\* Where clients abort: nothing is aborted before abort() says so, and a stage
\* is begun by a pass as a whole.
StagesWhole ==
  ClientsAbort =>
    /\ \A r \in Subclouds, t \in Types :
         steps[r].state = "aborted" =>
           /\ strategy[t].state # "applying"
           /\ strategy[t].state = "abort requested" =>
                orch[t].pc \in {"aborting", "abort end"}
    /\ \A q, r \in Subclouds :
         /\ steps[q].state \notin NotBegun \cup {"none"}
         /\ steps[r].state \in NotBegun
         /\ steps[q].stage = steps[r].stage
         => \E t \in Types : orch[t].pc = "stage" /\ orch[t].stage = steps[r].stage

Inv ==
  /\ Tables /\ WorkersOK /\ DeletersOK /\ StagesWhole
  /\ \A t \in Types : ThreadOK(t)

IInv == TypeOK /\ AtMostOneStrategy /\ CreateAlone /\ Inv

-------------------------------------------------------------------------------
\* What the lemmas need of the types.
Typed ==
  /\ \A t \in Types :
       /\ strategy[t].state \in StrategyStates \cup {"none"}
       /\ strategy[t].stop \in BOOLEAN
       /\ strategy[t] = [state |-> strategy[t].state, stop |-> strategy[t].stop]
       /\ orch[t].pc \in OrchLabels
       /\ orch[t].cursor \in Nat /\ orch[t].stage \in Nat
       /\ creator[t].next \in Subclouds
       /\ creator[t].acc \in StageCounters
       /\ \A r \in Subclouds :
            /\ orch[t].snap[r].state \in StepStates \cup {"none"}
            /\ orch[t].snap[r].stage \in Nat
            /\ deleters[t][r] \in Nat
            /\ \A s \in StepStates : live[t][r][s] \in Nat
  /\ \A r \in Subclouds :
       /\ steps[r].state \in StepStates \cup {"none"}
       /\ steps[r].stage \in Nat
       /\ steps[r] = [stage |-> steps[r].stage, state |-> steps[r].state]

LEMMA TypesOf == TypeOK => Typed
<1> SUFFICES ASSUME TypeOK
             PROVE  Typed
  OBVIOUS
<1>1. ASSUME NEW t \in Types
      PROVE  /\ strategy[t].state \in StrategyStates \cup {"none"}
             /\ strategy[t].stop \in BOOLEAN
             /\ strategy[t] = [state |-> strategy[t].state, stop |-> strategy[t].stop]
  BY DEF TypeOK, StrategyRows
<1>2. ASSUME NEW t \in Types
      PROVE  /\ orch[t].pc \in OrchLabels
             /\ orch[t].cursor \in Nat /\ orch[t].stage \in Nat
             /\ \A r \in Subclouds :
                  /\ orch[t].snap[r].state \in StepStates \cup {"none"}
                  /\ orch[t].snap[r].stage \in Nat
  BY DEF TypeOK, OrchLocals, Snaps
<1>3. ASSUME NEW t \in Types
      PROVE  creator[t].next \in Subclouds /\ creator[t].acc \in StageCounters
  BY DEF TypeOK, CreateLocals
<1>4. ASSUME NEW t \in Types, NEW r \in Subclouds
      PROVE  deleters[t][r] \in Nat /\ \A s \in StepStates : live[t][r][s] \in Nat
  BY DEF TypeOK
<1>5. ASSUME NEW r \in Subclouds
      PROVE  /\ steps[r].state \in StepStates \cup {"none"}
             /\ steps[r].stage \in Nat
             /\ steps[r] = [stage |-> steps[r].stage, state |-> steps[r].state]
  BY DEF TypeOK, Steps
<1> QED
  BY <1>1, <1>2, <1>3, <1>4, <1>5 DEF Typed

\* The kinds of step states exclude each other.
LEMMA StatesApart ==
  \A s \in WorkStates :
    /\ s \notin Terminal /\ s \in StepStates
    /\ s # "initial" /\ s # "none" /\ s # "aborted" /\ s # "failed"
    /\ s # "complete" /\ s # "delete thread"
BY ConstantsAssumption DEF ConstantsAssumption, StepStates, Terminal

\* A thread that is not asleep has the strategy.
LEMMA ThreadHasStrategy ==
  ASSUME IInv, NEW t \in Types, orch[t].pc # "asleep"
  PROVE  Exists(t)
<1>1. orch[t].pc \in ApplyLabels \cup AbortLabels \cup DeleteLabels
  BY TypesOf DEF IInv, Typed, OrchLabels, ApplyLabels, AbortLabels, DeleteLabels
<1> QED
  BY <1>1 DEF IInv, Inv, ThreadOK, ThreadFits, Exists, Ongoing

LEMMA OthersAsleep ==
  ASSUME IInv, NEW t \in Types, Exists(t)
  PROVE  \A u \in Types : u # t => ~Exists(u) /\ orch[u].pc = "asleep"
BY ThreadHasStrategy DEF IInv, AtMostOneStrategy

LEMMA AsleepOK ==
  ASSUME NEW t \in Types, orch'[t].pc = "asleep"
  PROVE  ThreadOK(t)'
BY DEF ThreadOK, ThreadFits, StageFits, AbortFits, OutcomeFits, ApplyLabels,
       AbortLabels, DeleteLabels

\* A step of a thread is seen by no other thread.
LEMMA OthersOK ==
  ASSUME IInv, NEW t \in Types, Exists(t),
         \A u \in Types : u # t => orch'[u] = orch[u]
  PROVE  \A u \in Types : u # t => ThreadOK(u)'
BY OthersAsleep, AsleepOK

\* A strategy that is neither ongoing nor deleted has its thread asleep, and
\* no subcloud is worked on.
LEMMA AtRest ==
  ASSUME IInv, \A t \in Types : strategy[t].state \notin Ongoing
  PROVE  /\ \A t \in Types : strategy[t].state # "deleting" => orch[t].pc = "asleep"
         /\ \A t \in Types, r \in Subclouds, s \in StepStates :
              mgmt[r] # "deleted" => live[t][r][s] = 0
<1>1. Typed
  BY TypesOf DEF IInv
<1>2. ASSUME NEW t \in Types, strategy[t].state # "deleting"
      PROVE  orch[t].pc = "asleep"
  <2>1. orch[t].pc \in ApplyLabels \cup AbortLabels \cup DeleteLabels \cup {"asleep"}
    BY <1>1 DEF Typed, OrchLabels, ApplyLabels, AbortLabels, DeleteLabels
  <2> QED
    BY <1>2, <2>1 DEF IInv, Inv, ThreadOK, ThreadFits, Ongoing
<1>3. ASSUME NEW t \in Types, NEW r \in Subclouds, NEW s \in StepStates,
             mgmt[r] # "deleted"
      PROVE  live[t][r][s] = 0
  <2>1. live[t][r][s] \in Nat /\ ~ (live[t][r][s] > 0)
    BY <1>1, <1>3 DEF Typed, IInv, Inv, WorkersOK
  <2> QED
    BY <2>1
<1> QED
  BY <1>2, <1>3

-------------------------------------------------------------------------------
(* The writes, point by point.                                             *)

LEMMA StrategySet ==
  ASSUME TypeOK, NEW t \in Types, NEW s, SetStrategy(t, s)
  PROVE  /\ strategy'[t] = [state |-> s, stop |-> strategy[t].stop]
         /\ strategy'[t].state = s /\ strategy'[t].stop = strategy[t].stop
         /\ \A u \in Types : u # t => strategy'[u] = strategy[u]
<1>1. strategy'[t] = [strategy[t] EXCEPT !.state = s]
      /\ \A u \in Types : u # t => strategy'[u] = strategy[u]
  BY DEF TypeOK, SetStrategy
<1>2. strategy[t] \in StrategyRows
  BY DEF TypeOK
<1>3. [strategy[t] EXCEPT !.state = s] = [state |-> s, stop |-> strategy[t].stop]
  BY <1>2 DEF StrategyRows
<1> QED
  BY <1>1, <1>3

LEMMA StepSet ==
  ASSUME TypeOK, NEW r \in Subclouds, NEW s, SetStep(r, s)
  PROVE  /\ steps'[r] = [stage |-> steps[r].stage, state |-> s]
         /\ steps'[r].state = s /\ steps'[r].stage = steps[r].stage
         /\ \A q \in Subclouds : q # r => steps'[q] = steps[q]
<1>1. steps'[r] = [steps[r] EXCEPT !.state = s]
      /\ \A q \in Subclouds : q # r => steps'[q] = steps[q]
  BY DEF TypeOK, SetStep
<1>2. steps[r] \in Steps
  BY DEF TypeOK
<1>3. [steps[r] EXCEPT !.state = s] = [stage |-> steps[r].stage, state |-> s]
  BY <1>2 DEF Steps
<1> QED
  BY <1>1, <1>3

LEMMA SleepSet ==
  ASSUME TypeOK, NEW t \in Types, Sleep(t)
  PROVE  /\ orch'[t].pc = "asleep"
         /\ \A u \in Types : u # t => orch'[u] = orch[u]
BY DEF TypeOK, Sleep, Asleep

LEMMA GotoSet ==
  ASSUME TypeOK, NEW t \in Types, NEW label, Goto(t, label)
  PROVE  /\ orch'[t].pc = label
         /\ \A u \in Types : u # t => orch'[u] = orch[u]
BY DEF TypeOK, Goto, OrchLocals

LEMMA ForgetSet ==
  ASSUME TypeOK, NEW t \in Types, NEW R, Forget(t, R)
  PROVE  /\ \A r \in Subclouds :
              workers'[t][r] = IF r \in R THEN "none" ELSE workers[t][r]
         /\ \A u \in Types : u # t => workers'[u] = workers[u]
BY DEF TypeOK, Forget

\* The pass goes on behind r, or there is nothing behind r and it ends.
LEMMA VisitedSet ==
  ASSUME TypeOK, NEW t \in Types, NEW r \in Subclouds, Visited(t, r)
  PROVE  /\ \/ /\ orch'[t].pc = "asleep"
               /\ \A q \in ToVisit(t) : ~ (q > r)
            \/ /\ orch'[t].pc = orch[t].pc /\ orch'[t].snap = orch[t].snap
               /\ orch'[t].stage = orch[t].stage /\ orch'[t].cursor = r + 1
         /\ \A u \in Types : u # t => orch'[u] = orch[u]
<1>1. CASE \E q \in ToVisit(t) : q > r
  <2>1. orch' = [orch EXCEPT ![t].cursor = r + 1]
    BY <1>1 DEF Visited
  <2> QED
    BY <2>1 DEF TypeOK, OrchLocals
<1>2. CASE ~ \E q \in ToVisit(t) : q > r
  <2>1. Sleep(t)
    BY <1>2 DEF Visited
  <2> QED
    BY <1>2, <2>1, SleepSet
<1> QED
  BY <1>1, <1>2

-------------------------------------------------------------------------------
(* What a step that leaves parts of the state alone cannot disturb.        *)

LEMMA TablesStay ==
  ASSUME Tables, UNCHANGED <<strategy, steps, mgmt, creator>>,
         \A t \in Types : orch'[t].pc = "destroy" => orch[t].pc = "destroy"
  PROVE  Tables'
BY DEF Tables, RowsFit, Ascending, Creating, Staged, EarlierOver, NoAborts, NoSteps,
       Exists

LEMMA WorkersStay ==
  ASSUME WorkersOK, UNCHANGED <<steps, mgmt, workers, live>>,
         \A t \in Types : strategy[t].state \in Ongoing => strategy'[t].state \in Ongoing
  PROVE  WorkersOK'
BY DEF WorkersOK

LEMMA DeletersStay ==
  ASSUME DeletersOK, UNCHANGED <<workers, deleters>>,
         \A t \in Types : orch[t].pc = "delete wait" => orch'[t].pc = "delete wait"
  PROVE  DeletersOK'
BY DEF DeletersOK

LEMMA ThreadsStay ==
  ASSUME NEW t \in Types, ThreadOK(t),
         UNCHANGED <<strategy, steps, mgmt, orch, workers>>
  PROVE  ThreadOK(t)'
<1>1. ThreadFits(t)' /\ AbortFits(t)'
  BY DEF ThreadOK, ThreadFits, AbortFits
<1>2. StageFits(t)'
  BY DEF ThreadOK, StageFits, EarlierOver, InStage, StepFits
<1>3. OutcomeFits(t)'
  <2>1. Outcomes' = Outcomes /\ Lost' = Lost
    BY DEF Outcomes, Lost
  <2> QED
    BY <2>1 DEF ThreadOK, OutcomeFits
<1> QED
  BY <1>1, <1>2, <1>3 DEF ThreadOK

LEMMA WholeStays ==
  ASSUME StagesWhole, UNCHANGED <<strategy, steps, orch>>
  PROVE  StagesWhole'
BY DEF StagesWhole

\* Only the locals of a create change.
LEMMA OnlyCreator ==
  ASSUME Inv, UNCHANGED <<strategy, steps, mgmt, orch, workers, live, deleters>>,
         Creating'
  PROVE  Inv'
<1>1. Tables'
  BY DEF Inv, Tables, RowsFit, Ascending, Staged, EarlierOver, NoAborts, NoSteps,
         Exists
<1>2. WorkersOK' /\ DeletersOK' /\ StagesWhole'
  BY WorkersStay, DeletersStay, WholeStays DEF Inv
<1>3. \A t \in Types : ThreadOK(t)'
  BY ThreadsStay DEF Inv
<1> QED
  BY <1>1, <1>2, <1>3 DEF Inv

\* run_orch goes from one place to another, holding nothing of the steps.
LEMMA OnlyMoves ==
  ASSUME IInv, NEW t \in Types, Exists(t),
         UNCHANGED <<strategy, steps, mgmt, creator, workers, live, deleters>>,
         \A u \in Types : u # t => orch'[u] = orch[u],
         orch[t].pc \in {"asleep", "setup", "abort"},
         orch'[t].pc \in {"asleep", "setup", "apply", "abort", "delete"},
         ThreadFits(t)'
  PROVE  Inv'
<1>1. Tables' /\ WorkersOK' /\ DeletersOK'
  BY TablesStay, WorkersStay, DeletersStay DEF IInv, Inv
<1>2. StagesWhole'
  BY OthersAsleep DEF IInv, Inv, StagesWhole
<1>3. ThreadOK(t)'
  BY DEF ThreadOK, StageFits, AbortFits, OutcomeFits
<1>4. \A u \in Types : ThreadOK(u)'
  BY <1>3, OthersOK
<1> QED
  BY <1>1, <1>2, <1>4 DEF Inv

-------------------------------------------------------------------------------
(* The requests.                                                           *)

LEMMA CheckInv ==
  ASSUME IInv, NEW t \in Types, CreateCheck(t)
  PROVE  Inv'
<1>1. \A u \in Types : creator'[u].pc # "checked" => creator'[u] = creator[u]
  BY DEF CreateCheck, IInv, TypeOK, CreateLocals
<1>2. UNCHANGED <<strategy, steps, mgmt, orch, workers, live, deleters>>
  BY DEF CreateCheck, dbVars, workVars
<1>3. Creating'
  BY <1>1, <1>2 DEF Creating, IInv, Inv, Tables
<1> QED
  BY <1>2, <1>3, OnlyCreator DEF IInv

LEMMA GroupInv ==
  ASSUME IInv, NEW t \in Types, CreateGroup(t)
  PROVE  Inv'
<1>1. PICK T : creator' = [creator EXCEPT ![t].targets = T, ![t].pc = "subcloud"]
  BY DEF CreateGroup
<1>2. /\ creator'[t].acc = creator[t].acc /\ creator'[t].next = creator[t].next
      /\ creator[t].pc = "group"
      /\ \A u \in Types : u # t => creator'[u] = creator[u]
  BY <1>1 DEF CreateGroup, IInv, TypeOK, CreateLocals
<1>3. UNCHANGED <<strategy, steps, mgmt, orch, workers, live, deleters>>
  BY DEF CreateGroup, dbVars, workVars
<1>4. Creating'
  <2> SUFFICES ASSUME NEW u \in Types, creator'[u].pc \in {"group", "subcloud", "end"}
               PROVE  /\ strategy[u].state = "initial"
                      /\ \A r \in Subclouds : steps[r].state # "none" =>
                           /\ steps[r].stage <= creator'[u].acc.counter
                           /\ creator'[u].pc # "end" => r < creator'[u].next
    BY <1>3 DEF Creating
  <2> QED
    BY <1>2 DEF Creating, IInv, Inv, Tables
<1> QED
  BY <1>3, <1>4, OnlyCreator DEF IInv

\* The counter never goes back.
LEMMA CountersAscend ==
  ASSUME NEW acc \in StageCounters, NEW serial, NEW limit \in Nat
  PROVE  /\ SkipSubcloud(acc).counter = acc.counter
         /\ AddSubcloud(acc, serial, limit).counter \in Nat
         /\ acc.counter <= AddSubcloud(acc, serial, limit).counter
         /\ EndGroup(acc).counter \in Nat
         /\ acc.counter <= EndGroup(acc).counter
<1>1. acc.counter \in Nat /\ acc.size \in Nat
  BY DEF StageCounters
<1>2. SkipSubcloud(acc).counter = acc.counter
  BY DEF SkipSubcloud, StageCounters
<1> QED
  BY <1>1, <1>2 DEF AddSubcloud, EndGroup

\* The create loop moves on to the next subcloud with no smaller counter.
LEMMA AdvanceSet ==
  ASSUME TypeOK, NEW t \in Types, NEW r \in Subclouds, NEW acc \in StageCounters,
         NEW made, CreateAdvance(t, r, acc, made)
  PROVE  /\ creator'[t].pc \in {"group", "subcloud", "end"}
         /\ creator'[t].pc # "end" => creator'[t].next = r + 1
         /\ creator'[t].acc.counter \in Nat
         /\ acc.counter <= creator'[t].acc.counter
         /\ \A u \in Types : u # t => creator'[u] = creator[u]
<1> DEFINE last == r = NumSubclouds
           groupEnds == IF last THEN TRUE ELSE GroupOf[r + 1] # GroupOf[r]
           next == IF last THEN r ELSE r + 1
           acc2 == IF groupEnds THEN EndGroup(acc) ELSE acc
           pc == IF last THEN "end" ELSE IF groupEnds THEN "group" ELSE "subcloud"
<1>1. acc.counter \in Nat /\ acc.counter <= acc.counter
  BY DEF StageCounters
<1>2. acc2.counter \in Nat /\ acc.counter <= acc2.counter
  BY <1>1, CountersAscend
<1>3. pc \in {"group", "subcloud", "end"} /\ (pc # "end" => next = r + 1)
  OBVIOUS
<1>4. creator' = [creator EXCEPT ![t].next = next, ![t].acc = acc2, ![t].made = made,
                                 ![t].pc = pc]
  BY DEF CreateAdvance
<1> HIDE DEF last, groupEnds, next, acc2, pc
<1>5. /\ creator'[t].pc = pc /\ creator'[t].next = next /\ creator'[t].acc = acc2
      /\ \A u \in Types : u # t => creator'[u] = creator[u]
  BY <1>4 DEF TypeOK, CreateLocals
<1> QED
  BY <1>2, <1>3, <1>5

LEMMA SkipInv ==
  ASSUME IInv, NEW t \in Types, CreateSkip(t)
  PROVE  Inv'
<1> DEFINE r == creator[t].next
           acc == SkipSubcloud(creator[t].acc)
<1>1. creator[t].acc \in StageCounters /\ r \in Subclouds /\ r \in Nat
  BY TypesOf, SubcloudsAreNaturals DEF Typed, IInv
<1>2. acc \in StageCounters /\ acc.counter = creator[t].acc.counter
  BY <1>1, CountersAscend DEF SkipSubcloud, StageCounters
<1>3. PICK made : CreateAdvance(t, r, acc, made)
  BY DEF CreateSkip
<1>4. /\ creator'[t].pc # "end" => creator'[t].next = r + 1
      /\ creator'[t].acc.counter \in Nat
      /\ creator[t].acc.counter <= creator'[t].acc.counter
      /\ \A u \in Types : u # t => creator'[u] = creator[u]
  BY <1>1, <1>2, <1>3, AdvanceSet DEF IInv
<1>5. UNCHANGED <<strategy, steps, mgmt, orch, workers, live, deleters>>
  BY DEF CreateSkip, dbVars, workVars
<1>6. ASSUME NEW q \in Subclouds, steps[q].state # "none"
      PROVE  /\ steps[q].stage <= creator'[t].acc.counter
             /\ creator'[t].pc # "end" => q < creator'[t].next
  <2>1. steps[q].stage <= creator[t].acc.counter /\ q < r
    BY <1>6 DEF CreateSkip, Creating, IInv, Inv, Tables
  <2>2. q \in Nat /\ steps[q].stage \in Nat /\ creator[t].acc.counter \in Nat
    BY <1>1, TypesOf, SubcloudsAreNaturals DEF Typed, IInv, StageCounters
  <2> QED
    BY <1>1, <1>4, <2>1, <2>2
<1>7. strategy[t].state = "initial"
  BY DEF CreateSkip, Creating, IInv, Inv, Tables
<1>8. Creating'
  <2> SUFFICES ASSUME NEW u \in Types, creator'[u].pc \in {"group", "subcloud", "end"}
               PROVE  /\ strategy[u].state = "initial"
                      /\ \A q \in Subclouds : steps[q].state # "none" =>
                           /\ steps[q].stage <= creator'[u].acc.counter
                           /\ creator'[u].pc # "end" => q < creator'[u].next
    BY <1>5 DEF Creating
  <2> QED
    BY <1>4, <1>6, <1>7 DEF Creating, IInv, Inv, Tables
<1> QED
  BY <1>5, <1>8, OnlyCreator DEF IInv

LEMMA NobodyWorks ==
  ASSUME UNCHANGED <<mgmt, live>>,
         \A t \in Types, r \in Subclouds, s \in StepStates :
           mgmt[r] # "deleted" => live[t][r][s] = 0
  PROVE  WorkersOK'
BY DEF WorkersOK

\* There are no steps, or none that is begun, and nobody is at work: what is
\* left to show when steps or strategies are created.
Unbegun == \A r \in Subclouds : steps[r].state \in {"none", "initial"}

LEMMA Untouched ==
  ASSUME IInv, \A t \in Types : strategy[t].state \in {"none", "initial"},
         Tables', Unbegun', UNCHANGED <<mgmt, orch, workers, live, deleters>>
  PROVE  Inv'
<1>1. /\ \A t \in Types : orch[t].pc = "asleep"
      /\ \A t \in Types, r \in Subclouds, s \in StepStates :
           mgmt[r] # "deleted" => live[t][r][s] = 0
  BY AtRest DEF Ongoing
<1>2. WorkersOK' /\ DeletersOK'
  <2>1. WorkersOK'
    BY <1>1, NobodyWorks
  <2>2. DeletersOK'
    BY <1>1, DeletersStay DEF IInv, Inv
  <2> QED
    BY <2>1, <2>2
<1>3. StagesWhole'
  BY DEF StagesWhole, Unbegun, NotBegun
<1>4. \A t \in Types : ThreadOK(t)'
  BY <1>1, AsleepOK
<1> QED
  BY <1>2, <1>3, <1>4 DEF Inv

LEMMA RowInv ==
  ASSUME IInv, NEW t \in Types, CreateRow(t)
  PROVE  Inv'
<1>1. \A u \in Types : ~Exists(u)
  BY DEF CreateRow, CreateAlone, IInv
<1>2. PICK stop : strategy' = [strategy EXCEPT ![t] = [state |-> "initial", stop |-> stop]]
  BY <1>1 DEF CreateRow
<1>3. NoSteps /\ UNCHANGED <<steps, mgmt, orch, workers, live, deleters>>
  BY <1>1 DEF CreateRow, workVars, IInv, Inv, Tables, RowsFit
<1>4. /\ strategy'[t].state = "initial"
      /\ \A u \in Types : u # t => strategy'[u] = strategy[u]
  BY <1>2 DEF IInv, TypeOK
<1>5. \A u \in Types : u # t => creator'[u].pc = "none"
  BY DEF CreateRow, CreateAlone, IInv, TypeOK
<1>6. \A u \in Types : orch[u].pc = "asleep"
  BY <1>1, ThreadHasStrategy
<1>7. Tables'
  <2>1. RowsFit'
    BY <1>3, <1>4, <1>6 DEF RowsFit, IInv, Inv, Tables, Exists, NoSteps
  <2>2. Ascending' /\ Staged'
    BY <1>3, StatesApart DEF Ascending, Staged, NoSteps
  <2>3. Creating'
    BY <1>3, <1>4, <1>5 DEF Creating, NoSteps
  <2>4. NoAborts'
    BY <1>3, <1>4 DEF NoAborts, NoSteps, IInv, Inv, Tables
  <2> QED
    BY <2>1, <2>2, <2>3, <2>4 DEF Tables
<1>8. Unbegun'
  BY <1>3 DEF Unbegun, NoSteps
<1> QED
  BY <1>1, <1>3, <1>7, <1>8, Untouched DEF Exists

LEMMA StepInv ==
  ASSUME IInv, NEW t \in Types, CreateStep(t)
  PROVE  Inv'
<1> DEFINE c == creator[t]
           r == c.next
           g == GroupOf[r]
           acc == AddSubcloud(c.acc, Serial[g], MaxParallel[g])
<1>1. Typed /\ c.acc \in StageCounters /\ r \in Subclouds /\ Subclouds \subseteq Nat
  BY TypesOf, SubcloudsAreNaturals DEF Typed, IInv
<1>2. /\ c.pc = "subcloud" /\ strategy[t].state = "initial"
      /\ \A q \in Subclouds : steps[q].state # "none" =>
           steps[q].stage <= c.acc.counter /\ q < r
  BY DEF CreateStep, Creating, IInv, Inv, Tables
<1>3. \A u \in Types : u # t => ~Exists(u) /\ orch[u].pc = "asleep"
  BY <1>2, OthersAsleep DEF Exists
<1>4. Unbegun /\ \A u \in Types : strategy[u].state \in {"none", "initial"}
  BY <1>2, <1>3 DEF IInv, Inv, Tables, RowsFit, Unbegun, Exists
<1>5. UNCHANGED <<strategy, mgmt, orch, workers, live, deleters>>
  BY DEF CreateStep, workVars
<1>6. CASE steps[r] = NoStep /\ mgmt[r] # "deleted"
  <2>1. /\ steps'[r] = [stage |-> c.acc.counter, state |-> "initial"]
        /\ \A q \in Subclouds : q # r => steps'[q] = steps[q]
    BY <1>1, <1>6 DEF CreateStep, IInv, TypeOK
  <2>2. acc \in StageCounters /\ c.acc.counter <= acc.counter
    <3>1. g \in Groups /\ Serial[g] \in BOOLEAN /\ MaxParallel[g] \in Nat
      BY <1>1, ConstantsAssumption DEF ConstantsAssumption, Groups
    <3> QED
      BY <1>1, <3>1, CountersType, CountersAscend
  <2>3. CreateAdvance(t, r, acc, TRUE)
    BY <1>6 DEF CreateStep
  <2>4. /\ creator'[t].pc # "end" => creator'[t].next = r + 1
        /\ creator'[t].acc.counter \in Nat
        /\ acc.counter <= creator'[t].acc.counter
        /\ \A u \in Types : u # t => creator'[u] = creator[u]
    BY <1>1, <2>2, <2>3, AdvanceSet DEF IInv
  <2>5. Unbegun'
    BY <1>4, <2>1 DEF Unbegun
  <2>6. c.acc.counter \in Nat /\ acc.counter \in Nat
    BY <1>1, <2>2 DEF StageCounters
  <2>7. ASSUME NEW q \in Subclouds, steps'[q].state # "none"
        PROVE  steps'[q].stage <= c.acc.counter /\ q <= r /\ steps'[q].stage \in Nat
    <3>1. q \in Nat /\ r \in Nat
      BY <1>1
    <3>2. CASE q = r
      <4>1. steps'[q].stage = c.acc.counter
        BY <2>1, <3>2
      <4> QED
        BY <2>6, <3>1, <3>2, <4>1
    <3>3. CASE q # r
      <4>1. steps[q].stage <= c.acc.counter /\ q < r /\ steps'[q] = steps[q]
        BY <1>2, <2>1, <2>7, <3>3
      <4>2. steps[q].stage \in Nat
        BY <1>1 DEF Typed
      <4> QED
        BY <3>1, <4>1, <4>2
    <3> QED
      BY <3>2, <3>3
  <2>8. Creating'
    <3> SUFFICES ASSUME NEW u \in Types, creator'[u].pc \in {"group", "subcloud", "end"}
                 PROVE  /\ strategy[u].state = "initial"
                        /\ \A q \in Subclouds : steps'[q].state # "none" =>
                             /\ steps'[q].stage <= creator'[u].acc.counter
                             /\ creator'[u].pc # "end" => q < creator'[u].next
      BY <1>5 DEF Creating
    <3>1. u = t
      BY <1>2, <1>3, <2>4 DEF Creating, IInv, Inv, Tables, Exists
    <3>2. ASSUME NEW q \in Subclouds, steps'[q].state # "none"
          PROVE  /\ steps'[q].stage <= creator'[t].acc.counter
                 /\ creator'[t].pc # "end" => q < creator'[t].next
      <4> DEFINE n == creator'[t].acc.counter
      <4>1. steps'[q].stage <= c.acc.counter /\ q <= r /\ steps'[q].stage \in Nat
        BY <2>7, <3>2
      <4>2. n \in Nat /\ acc.counter <= n /\ q \in Nat /\ r \in Nat
        BY <1>1, <2>4
      <4> HIDE DEF n, acc
      <4>3. steps'[q].stage <= n /\ q < r + 1
        BY <2>2, <2>6, <4>1, <4>2
      <4> QED
        BY <2>4, <4>3 DEF n
    <3> QED
      BY <1>2, <3>1, <3>2
  <2>9. Ascending'
    <3> SUFFICES ASSUME NEW p \in Subclouds, NEW q \in Subclouds, p < q,
                        steps'[p].state # "none", steps'[q].state # "none"
                 PROVE  steps'[p].stage <= steps'[q].stage
      BY DEF Ascending
    <3>1. p # r
      BY <1>1, <2>7
    <3>2. CASE q = r
      BY <2>1, <2>7, <3>2
    <3>3. CASE q # r
      BY <2>1, <3>1, <3>3 DEF Ascending, IInv, Inv, Tables
    <3> QED
      BY <3>2, <3>3
  <2>10. RowsFit'
    <3>1. \A q \in Subclouds :
            /\ steps'[q].state = "none" => steps'[q] = NoStep
            /\ mgmt'[q] = "deleted" => q \in Deletable /\ steps'[q].state = "none"
      BY <1>5, <1>6, <2>1 DEF IInv, Inv, Tables, RowsFit
    <3>2. Exists(t)' /\ \A u \in Types : strategy'[u].state \in {"none", "initial"}
      BY <1>2, <1>4, <1>5 DEF Exists
    <3>3. \A u \in Types : orch'[u].pc # "destroy"
      BY <1>2, <1>3, <1>5 DEF IInv, Inv, ThreadOK, ThreadFits, DeleteLabels
    <3> QED
      BY <1>5, <2>5, <3>1, <3>2, <3>3 DEF RowsFit, Unbegun, IInv, Inv, Tables
  <2>11. Staged' /\ NoAborts'
    <3>1. Staged'
      BY <2>5, StatesApart DEF Staged, Unbegun
    <3>2. NoAborts'
      BY <1>4, <1>5, <2>5 DEF NoAborts, Unbegun
    <3> QED
      BY <3>1, <3>2
  <2> QED
    BY <1>4, <1>5, <2>5, <2>8, <2>9, <2>10, <2>11, Untouched DEF Tables
<1>7. CASE ~ (steps[r] = NoStep /\ mgmt[r] # "deleted")
  <2>1. creator' = [creator EXCEPT ![t] = NoCreate] /\ UNCHANGED steps
    BY <1>7 DEF CreateStep
  <2>2. \A u \in Types : creator'[u].pc # "none" => creator'[u] = creator[u]
    BY <2>1 DEF IInv, TypeOK, NoCreate
  <2>3. Creating'
    BY <1>5, <2>1, <2>2 DEF Creating, IInv, Inv, Tables
  <2> QED
    BY <1>5, <2>1, <2>3, OnlyCreator DEF IInv
<1> QED
  BY <1>6, <1>7

\* A request, or the end of a create, changes the state of the strategy while
\* the thread is asleep, or asks it to abort.
LEMMA RequestInv ==
  ASSUME IInv, NEW t \in Types, NEW s \in {"applying", "abort requested", "deleting"},
         Exists(t), SetStrategy(t, s),
         UNCHANGED <<steps, mgmt, orch, workers, live, deleters>>,
         Creating',
         \/ s = "applying" /\ strategy[t].state = "initial"
         \/ s = "deleting" /\ strategy[t].state \in {"initial", "complete", "failed", "aborted"}
         \/ s = "abort requested" /\ strategy[t].state = "applying" /\ ClientsAbort
  PROVE  Inv'
<1>1. /\ strategy'[t].state = s /\ strategy'[t].stop = strategy[t].stop
      /\ \A u \in Types : u # t => strategy'[u] = strategy[u]
  BY StrategySet DEF IInv
<1>2. \A u \in Types : u # t => ~Exists(u) /\ orch[u].pc = "asleep"
  BY OthersAsleep
<1>3. \A u \in Types : Exists(u)' <=> Exists(u)
  BY <1>1 DEF Exists
<1>4. Tables'
  <2>1. RowsFit'
    <3>1. strategy[t].state # "deleting" /\ s # "aborting" /\ s # "initial" /\ s # "none"
      OBVIOUS
    <3>2. orch[t].pc # "destroy"
      BY <3>1 DEF IInv, Inv, ThreadOK, ThreadFits, DeleteLabels
    <3> QED
      BY <1>1, <1>3, <3>1, <3>2 DEF RowsFit, NoSteps, IInv, Inv, Tables, Exists
  <2>2. Ascending' /\ NoAborts'
    BY <1>1 DEF Ascending, NoAborts, IInv, Inv, Tables
  <2>3. Staged'
    BY <1>1, <1>3 DEF Staged, EarlierOver, IInv, Inv, Tables
  <2> QED
    BY <2>1, <2>2, <2>3 DEF Tables
<1>5. WorkersOK'
  <2>1. CASE strategy[t].state = "applying"
    BY <1>1, <2>1, WorkersStay DEF IInv, Inv, Ongoing
  <2>2. CASE strategy[t].state # "applying"
    <3>1. \A u \in Types : strategy[u].state \notin Ongoing
      BY <1>2, <2>2 DEF Exists, Ongoing
    <3> QED
      <4>1. \A u \in Types, r \in Subclouds, x \in StepStates :
              mgmt[r] # "deleted" => live[u][r][x] = 0
        BY <3>1, AtRest
      <4> QED
        BY <4>1, NobodyWorks
  <2> QED
    BY <2>1, <2>2
<1>6. DeletersOK'
  BY DeletersStay DEF IInv, Inv
<1>7. StagesWhole'
  BY <1>1 DEF StagesWhole, IInv, Inv, Tables, RowsFit
<1>8. ThreadOK(t)'
  <2>1. CASE orch[t].pc = "asleep"
    BY <2>1, AsleepOK
  <2>2. CASE orch[t].pc # "asleep"
    <3>1. strategy[t].state = "applying" /\ s = "abort requested"
      <4>1. orch[t].pc \in ApplyLabels \cup AbortLabels \cup DeleteLabels
        BY <2>2, TypesOf
           DEF IInv, Typed, OrchLabels, ApplyLabels, AbortLabels, DeleteLabels
      <4> QED
        BY <4>1 DEF IInv, Inv, ThreadOK, ThreadFits, Ongoing
    <3>2. ThreadFits(t)' /\ AbortFits(t)'
      BY <1>1, <3>1 DEF ThreadFits, AbortFits, IInv, Inv, ThreadOK, DeleteLabels, Ongoing
    <3>3. StageFits(t)'
      <4>1. StageFits(t)
        BY DEF IInv, Inv, ThreadOK
      <4>2. InStage(t)' = InStage(t)
        BY DEF InStage
      <4> QED
        BY <1>1, <4>1, <4>2 DEF StageFits, EarlierOver, StepFits
    <3>4. OutcomeFits(t)'
      <4>1. Outcomes' = Outcomes /\ Lost' = Lost
        BY DEF Outcomes, Lost
      <4> QED
        BY <1>1, <4>1 DEF OutcomeFits, IInv, Inv, ThreadOK
    <3> QED
      BY <3>2, <3>3, <3>4 DEF ThreadOK
  <2> QED
    BY <2>1, <2>2
<1>9. \A u \in Types : ThreadOK(u)'
  BY <1>8, OthersOK
<1> QED
  BY <1>4, <1>5, <1>6, <1>7, <1>9 DEF Inv

LEMMA ApiInv ==
  ASSUME SerialApi, IInv, NEW t \in Types, Api(t) \/ CreateProgress(t)
  PROVE  Inv'
<1>1. ASSUME NoCreateRunning, UNCHANGED creator
      PROVE  Creating'
  BY <1>1 DEF NoCreateRunning, Creating
<1>2. CASE CreateEnd(t)
  <2>1. /\ UNCHANGED <<steps, mgmt, orch, workers, live, deleters>>
        /\ \A u \in Types : creator'[u].pc = "none"
        /\ strategy[t].state = "initial"
    BY <1>2 DEF CreateEnd, workVars, CreateAlone, IInv, Inv, Tables, Creating, TypeOK,
                NoCreate
  <2>2. Creating'
    BY <2>1 DEF Creating
  <2>3. CASE UNCHANGED strategy
    BY <2>1, <2>2, <2>3, OnlyCreator DEF IInv
  <2>4. CASE SetStrategy(t, "deleting")
    BY <2>1, <2>2, <2>4, RequestInv DEF Exists
  <2> QED
    BY <1>2, <2>3, <2>4 DEF CreateEnd
<1>3. CASE ApplyStrategy(t)
  <2>1. /\ UNCHANGED <<steps, mgmt, orch, workers, live, deleters, creator>>
        /\ NoCreateRunning /\ strategy[t].state = "initial"
        /\ SetStrategy(t, "applying")
    BY <1>3 DEF ApplyStrategy, ApiFree, workVars, apiVars
  <2> QED
    BY <1>1, <2>1, RequestInv DEF Exists
<1>4. CASE AbortStrategy(t)
  <2>1. /\ UNCHANGED <<steps, mgmt, orch, workers, live, deleters, creator>>
        /\ NoCreateRunning /\ strategy[t].state = "applying" /\ ClientsAbort
    BY <1>4 DEF AbortStrategy, ApiFree, workVars, apiVars
  <2>2. PICK u \in Types : Exists(u) /\ SetStrategy(u, "abort requested")
    BY <1>4 DEF AbortStrategy
  <2>3. u = t
    BY <2>1, <2>2 DEF IInv, AtMostOneStrategy, Exists
  <2> QED
    BY <1>1, <2>1, <2>2, <2>3, RequestInv
<1>5. CASE DeleteStrategy(t)
  <2>1. /\ UNCHANGED <<steps, mgmt, orch, workers, live, deleters, creator>>
        /\ NoCreateRunning
        /\ strategy[t].state \in {"initial", "complete", "failed", "aborted"}
        /\ SetStrategy(t, "deleting")
    BY <1>5 DEF DeleteStrategy, ApiFree, workVars, apiVars
  <2> QED
    BY <1>1, <2>1, RequestInv DEF Exists
<1> QED
  BY <1>2, <1>3, <1>4, <1>5, CheckInv, RowInv, GroupInv, SkipInv, StepInv
     DEF Api, CreateProgress

-------------------------------------------------------------------------------
(* The thread between its reads.                                           *)

LEMMA LoopInv ==
  ASSUME IInv, NEW t \in Types,
         LoopRead(t) \/ PreApplySetup(t) \/ FinishFails(t) \/ DestroyFails(t)
  PROVE  Inv'
<1>1. UNCHANGED <<strategy, steps, mgmt, creator, workers, live, deleters>>
  BY DEF LoopRead, PreApplySetup, FinishFails, DestroyFails, dbVars, workVars, apiVars
<1>2. CASE LoopRead(t)
  <2>1. /\ orch[t].pc = "asleep" /\ Exists(t)
        /\ \/ /\ strategy[t].state \in {"applying", "aborting"}
              /\ Goto(t, "setup") \/ Goto(t, "apply")
           \/ strategy[t].state = "abort requested" /\ Goto(t, "abort")
           \/ strategy[t].state = "deleting" /\ Goto(t, "delete")
    BY <1>2 DEF LoopRead, Exists
  <2>2. \A u \in Types : u # t => orch'[u] = orch[u]
    BY <2>1, GotoSet DEF IInv
  <2>3. \/ /\ strategy[t].state \in {"applying", "aborting"}
           /\ orch'[t].pc \in {"setup", "apply"}
        \/ strategy[t].state = "abort requested" /\ orch'[t].pc = "abort"
        \/ strategy[t].state = "deleting" /\ orch'[t].pc = "delete"
    BY <2>1, GotoSet DEF IInv
  <2>4. ThreadFits(t)'
    BY <1>1, <2>3 DEF ThreadFits, ApplyLabels, AbortLabels, DeleteLabels, Ongoing
  <2> QED
    BY <1>1, <2>1, <2>2, <2>3, <2>4, OnlyMoves
<1>3. CASE PreApplySetup(t)
  <2>1. orch[t].pc = "setup" /\ (Goto(t, "apply") \/ Sleep(t))
    BY <1>3 DEF PreApplySetup
  <2>2. /\ orch'[t].pc \in {"apply", "asleep"}
        /\ \A u \in Types : u # t => orch'[u] = orch[u]
    BY <2>1, GotoSet, SleepSet DEF IInv
  <2>3. ThreadFits(t)'
    BY <1>1, <2>1, <2>2
       DEF IInv, Inv, ThreadOK, ThreadFits, ApplyLabels, AbortLabels, DeleteLabels
  <2> QED
    BY <1>1, <2>1, <2>2, <2>3, OnlyMoves, ThreadHasStrategy
<1>4. CASE FinishFails(t) \/ DestroyFails(t)
  <2>1. orch[t].pc # "asleep" /\ ~Exists(t)
    BY <1>4 DEF FinishFails, DestroyFails
  <2> QED
    BY <2>1, ThreadHasStrategy
<1> QED
  BY <1>2, <1>3, <1>4

\* apply() read the rows: what it found is so, and it knows where it stands.
LEMMA ReadSteps ==
  ASSUME TypeOK
  PROVE  /\ \A r \in Subclouds : /\ StepRows[r].state = steps[r].state
                                 /\ StepRows[r].stage = steps[r].stage
                                 /\ StepRows[r].mgmt = mgmt[r]
         /\ Present(StepRows) = {r \in Subclouds : steps[r].state # "none"}
BY DEF StepRows, Present

LEMMA VerdictIs ==
  ASSUME TypeOK
  PROVE  Verdict(StepRows) = Lifecycle!Overall(Outcomes)
<1>1. ASSUME NEW s
      PROVE  (\E r \in Present(StepRows) : StepRows[r].state = s) <=> s \in Outcomes
  <2>1. \A r \in Present(StepRows) :
          r \in Subclouds /\ steps[r].state # "none" /\ StepRows[r].state = steps[r].state
    BY ReadSteps
  <2>2. ASSUME s \in Outcomes
        PROVE  \E r \in Present(StepRows) : StepRows[r].state = s
    BY <2>2, ReadSteps DEF Outcomes
  <2> QED
    BY <2>1, <2>2 DEF Outcomes
<1> QED
  BY <1>1, Zenon DEF Verdict, Lifecycle!Overall

\* Where the first loop of apply() breaks, everything before is over.
LEMMA BreakIs ==
  ASSUME IInv, NEW t \in Types, NEW b \in Subclouds,
         Breaks(StepRows, strategy[t].stop) # {},
         b = First(Breaks(StepRows, strategy[t].stop))
  PROVE  /\ steps[b].state # "none"
         /\ steps[b].state \notin Terminal \/ (strategy[t].stop /\ steps[b].state = "failed")
         /\ \A q \in Subclouds : q < b /\ steps[q].state # "none" =>
              steps[q].state \in Terminal /\ (strategy[t].stop => steps[q].state # "failed")
         /\ EarlierOver(steps[b].stage, strategy[t].stop)
<1> DEFINE B == Breaks(StepRows, strategy[t].stop)
<1>1. B = {r \in Subclouds : /\ steps[r].state # "none"
                             /\ \/ steps[r].state \notin Terminal
                                \/ strategy[t].stop /\ steps[r].state = "failed"}
  BY ReadSteps DEF Breaks, IInv
<1>2. b \in B /\ \A q \in B : b <= q
  BY <1>1, FirstIsLeast
<1>3. Subclouds \subseteq Nat
  BY SubcloudsAreNaturals
<1>4. \A q \in Subclouds : q < b /\ steps[q].state # "none" =>
        steps[q].state \in Terminal /\ (strategy[t].stop => steps[q].state # "failed")
  BY <1>1, <1>2, <1>3
<1>5. ASSUME NEW q \in Subclouds, steps[q].state # "none", steps[q].stage < steps[b].stage
      PROVE  q < b
  <2>1. ~ (b < q) /\ b # q
    <3>1. steps[q].stage \in Nat /\ steps[b].stage \in Nat /\ steps[b].state # "none"
      BY <1>1, <1>2, TypesOf DEF IInv, Typed
    <3>2. b < q => steps[b].stage <= steps[q].stage
      BY <1>5, <3>1 DEF IInv, Inv, Tables, Ascending
    <3> QED
      BY <1>5, <3>1, <3>2
  <2> QED
    BY <1>3, <2>1
<1> QED
  BY <1>1, <1>2, <1>4, <1>5 DEF EarlierOver

\* Entries of steps that are over are removed.
LEMMA ForgetInv ==
  ASSUME IInv, NEW t \in Types, NEW R, Forget(t, R),
         orch[t].pc # "delete wait",
         \A u \in Types : u # t => orch'[u] = orch[u],
         \A r \in Subclouds : r \in R => steps[r].state \notin WorkStates,
         UNCHANGED <<strategy, steps, mgmt, live, deleters>>
  PROVE  WorkersOK' /\ DeletersOK'
<1>1. /\ \A r \in Subclouds :
           workers'[t][r] = IF r \in R THEN "none" ELSE workers[t][r]
      /\ \A u \in Types : u # t => workers'[u] = workers[u]
  BY ForgetSet DEF IInv
<1>2. WorkersOK'
  <2> SUFFICES ASSUME NEW u \in Types, NEW r \in Subclouds, NEW s \in StepStates,
                      live'[u][r][s] > 0, mgmt'[r] # "deleted"
               PROVE  /\ live'[u][r][s] = 1 /\ s \in WorkStates
                      /\ steps'[r].state = s /\ workers'[u][r] = s
                      /\ strategy'[u].state \in Ongoing
    BY DEF WorkersOK
  <2>1. /\ live[u][r][s] = 1 /\ s \in WorkStates
        /\ steps[r].state = s /\ workers[u][r] = s
        /\ strategy[u].state \in Ongoing
    BY DEF IInv, Inv, WorkersOK
  <2>2. workers'[u][r] = workers[u][r]
    BY <1>1, <2>1
  <2> QED
    BY <2>1, <2>2
<1>3. DeletersOK'
  <2> SUFFICES ASSUME NEW u \in Types, NEW r \in Subclouds
               PROVE  /\ workers'[u][r] = "delete thread" =>
                           deleters'[u][r] = 1 /\ orch'[u].pc = "delete wait"
                      /\ workers'[u][r] # "delete thread" => deleters'[u][r] = 0
    BY DEF DeletersOK
  <2>1. /\ workers[u][r] = "delete thread" =>
             deleters[u][r] = 1 /\ orch[u].pc = "delete wait"
        /\ workers[u][r] # "delete thread" => deleters[u][r] = 0
    BY DEF DeletersOK, IInv, Inv
  <2>2. CASE u = t
    <3>1. workers[t][r] # "delete thread" /\ deleters[t][r] = 0
      BY <2>1, <2>2
    <3> QED
      BY <1>1, <2>2, <3>1
  <2>3. CASE u # t
    BY <1>1, <2>1, <2>3
  <2> QED
    BY <2>2, <2>3
<1> QED
  BY <1>2, <1>3

LEMMA ApplySet ==
  ASSUME IInv, NEW t \in Types, ApplyRead(t)
  PROVE  /\ orch[t].pc = "apply" /\ strategy[t].state \in Ongoing /\ Exists(t)
         /\ UNCHANGED <<strategy, steps, mgmt, creator, live, deleters>>
         /\ \A u \in Types : u # t => orch'[u] = orch[u]
         /\ \/ /\ Breaks(StepRows, strategy[t].stop) = {}
               /\ Forget(t, Present(StepRows))
               /\ orch'[t].pc = "finish" /\ orch'[t].verdict = Verdict(StepRows)
            \/ \E b \in Subclouds, passed \in SUBSET Subclouds :
                 /\ Breaks(StepRows, strategy[t].stop) # {}
                 /\ b = First(Breaks(StepRows, strategy[t].stop))
                 /\ Forget(t, passed)
                 /\ \A r \in passed : /\ steps[r].state # "none"
                                      /\ r < b \/ steps[r].state = "failed"
                 /\ \/ /\ steps[b].state = "failed"
                       /\ ~WorkRemaining(StepRows, steps[b].stage)
                       /\ orch'[t].pc = "stop" /\ orch'[t].verdict = "failed"
                    \/ /\ orch'[t].pc = "stage" /\ orch'[t].snap = StepRows
                       /\ orch'[t].stage = steps[b].stage /\ orch'[t].cursor = 1
<1> DEFINE snap == StepRows
           breaks == Breaks(snap, strategy[t].stop)
           b == First(breaks)
           hasFailed == snap[b].state = "failed"
           passed == {r \in Present(snap) : r < b \/ (r = b /\ hasFailed)}
<1>1. orch[t].pc = "apply" /\ strategy[t].state \in Ongoing /\ Exists(t)
  BY DEF ApplyRead, IInv, Inv, ThreadOK, ThreadFits, ApplyLabels, Exists, Ongoing
<1>2. UNCHANGED <<strategy, steps, mgmt, creator, live, deleters>>
  BY DEF ApplyRead, dbVars, apiVars
<1>3. orch \in [Types -> OrchLocals]
  BY DEF IInv, TypeOK
<1>4. CASE breaks = {}
  <2>1. /\ Forget(t, Present(snap))
        /\ orch' = [orch EXCEPT ![t] = [Asleep EXCEPT !.pc = "finish",
                                                     !.verdict = Verdict(snap)]]
    BY <1>4 DEF ApplyRead
  <2>2. /\ orch'[t].pc = "finish" /\ orch'[t].verdict = Verdict(snap)
        /\ \A u \in Types : u # t => orch'[u] = orch[u]
    BY <1>3, <2>1 DEF Asleep
  <2> QED
    BY <1>1, <1>2, <1>4, <2>1, <2>2
<1>5. CASE breaks # {}
  <2>1. b \in Subclouds
    <3>1. breaks \in SUBSET Subclouds
      BY DEF Breaks, Present
    <3> QED
      BY <1>5, <3>1, FirstIsLeast
  <2>2. /\ Forget(t, passed)
        /\ orch' = [orch EXCEPT ![t] =
             IF hasFailed /\ ~WorkRemaining(snap, snap[b].stage)
             THEN [Asleep EXCEPT !.pc = "stop", !.verdict = "failed"]
             ELSE [Asleep EXCEPT !.pc = "stage", !.snap = snap, !.stage = snap[b].stage]]
    BY <1>5, Zenon DEF ApplyRead
  <2>3. snap[b].state = steps[b].state /\ snap[b].stage = steps[b].stage
    BY <2>1, ReadSteps DEF IInv
  <2>4. /\ passed \in SUBSET Subclouds
        /\ \A r \in passed : /\ steps[r].state # "none"
                             /\ r < b \/ steps[r].state = "failed"
    BY <2>3, ReadSteps DEF IInv
  <2>5. \A u \in Types : u # t => orch'[u] = orch[u]
    BY <1>3, <2>2
  <2>6. CASE hasFailed /\ ~WorkRemaining(snap, snap[b].stage)
    <3>1. orch'[t] = [Asleep EXCEPT !.pc = "stop", !.verdict = "failed"]
      BY <1>3, <2>2, <2>6
    <3>2. orch'[t].pc = "stop" /\ orch'[t].verdict = "failed"
      BY <3>1 DEF Asleep
    <3> QED
      BY <1>1, <1>2, <1>5, <2>1, <2>2, <2>3, <2>4, <2>5, <2>6, <3>2
  <2>7. CASE ~ (hasFailed /\ ~WorkRemaining(snap, snap[b].stage))
    <3>1. orch'[t] = [Asleep EXCEPT !.pc = "stage", !.snap = snap, !.stage = snap[b].stage]
      BY <1>3, <2>2, <2>7
    <3>2. /\ orch'[t].pc = "stage" /\ orch'[t].snap = snap
          /\ orch'[t].stage = snap[b].stage /\ orch'[t].cursor = 1
      BY <3>1 DEF Asleep
    <3> QED
      BY <1>1, <1>2, <1>5, <2>1, <2>2, <2>3, <2>4, <2>5, <3>2
  <2> QED
    BY <2>6, <2>7
<1> QED
  BY <1>4, <1>5

\* The stage at which apply() stands has no aborted steps.
LEMMA NoneAborted ==
  ASSUME IInv, NEW t \in Types, orch[t].pc = "apply", NEW b \in Subclouds,
         steps[b].state # "none",
         steps[b].state \notin Terminal \/ steps[b].state = "failed",
         NEW r \in Subclouds, steps[r].stage = steps[b].stage
  PROVE  steps[r].state # "aborted"
<1> SUFFICES ASSUME steps[r].state = "aborted"
             PROVE  FALSE
  OBVIOUS
<1>1. ClientsAbort
  BY DEF IInv, Inv, Tables, NoAborts
<1>2. strategy[t].state \in Ongoing /\ Exists(t)
  BY DEF IInv, Inv, ThreadOK, ThreadFits, ApplyLabels, Exists, Ongoing
<1>3. CASE steps[b].state = "initial"
  <2>1. strategy[t].state \in {"applying", "abort requested"}
    BY <1>2, <1>3 DEF IInv, Inv, Tables, RowsFit, Ongoing
  <2> QED
    BY <1>1, <2>1 DEF IInv, Inv, StagesWhole
<1>4. CASE steps[b].state # "initial"
  <2>1. steps[b].state \notin NotBegun \cup {"none"} /\ steps[r].state \in NotBegun
    BY <1>4 DEF NotBegun, Terminal
  <2>2. PICK u \in Types : orch[u].pc = "stage"
    BY <1>1, <2>1 DEF IInv, Inv, StagesWhole
  <2> QED
    BY <1>2, <2>2, OthersAsleep
<1> QED
  BY <1>3, <1>4

LEMMA ApplyInv ==
  ASSUME IInv, NEW t \in Types, ApplyRead(t)
  PROVE  Inv'
<1>1. /\ orch[t].pc = "apply" /\ strategy[t].state \in Ongoing /\ Exists(t)
      /\ UNCHANGED <<strategy, steps, mgmt, creator, live, deleters>>
      /\ \A u \in Types : u # t => orch'[u] = orch[u]
  BY ApplySet
<1>2. orch'[t].pc \in {"finish", "stop", "stage"}
  BY ApplySet
<1>3. Tables'
  BY <1>1, <1>2, TablesStay DEF IInv, Inv
<1>4. StagesWhole'
  BY <1>1, OthersAsleep DEF IInv, Inv, StagesWhole
<1>5. \A u \in Types : u # t => ThreadOK(u)'
  BY <1>1, OthersOK
<1>6. ThreadFits(t)' /\ AbortFits(t)'
  BY <1>1, <1>2 DEF ThreadFits, AbortFits, AbortLabels, DeleteLabels
<1>7. Outcomes' = Outcomes /\ Lost' = Lost
  BY <1>1 DEF Outcomes, Lost
<1>8. CASE /\ Breaks(StepRows, strategy[t].stop) = {}
           /\ Forget(t, Present(StepRows))
           /\ orch'[t].pc = "finish" /\ orch'[t].verdict = Verdict(StepRows)
  <2>1. \A r \in Subclouds : steps[r].state # "none" => steps[r].state \in Terminal
    BY <1>8, ReadSteps DEF Breaks, IInv
  <2>2. Outcomes \subseteq Terminal
    BY <2>1 DEF Outcomes
  <2>3. OutcomeFits(t)'
    <3>1. orch'[t].verdict = Lifecycle!Overall(Outcomes \cup {})
      BY <1>8, VerdictIs DEF IInv
    <3> QED
      BY <1>7, <1>8, <2>2, <3>1 DEF OutcomeFits
  <2>4. \A r \in Subclouds : r \in Present(StepRows) => steps[r].state \notin WorkStates
    BY <2>1, ReadSteps, StatesApart DEF IInv
  <2>5. WorkersOK' /\ DeletersOK'
    BY <1>1, <1>8, <2>4, ForgetInv
  <2>6. StageFits(t)'
    BY <1>8 DEF StageFits
  <2> QED
    BY <1>3, <1>4, <1>5, <1>6, <2>3, <2>5, <2>6 DEF Inv, ThreadOK
<1>9. ASSUME NEW b \in Subclouds, NEW passed \in SUBSET Subclouds,
             Breaks(StepRows, strategy[t].stop) # {},
             b = First(Breaks(StepRows, strategy[t].stop)),
             Forget(t, passed),
             \A r \in passed : /\ steps[r].state # "none"
                               /\ r < b \/ steps[r].state = "failed",
             \/ /\ steps[b].state = "failed"
                /\ ~WorkRemaining(StepRows, steps[b].stage)
                /\ orch'[t].pc = "stop" /\ orch'[t].verdict = "failed"
             \/ /\ orch'[t].pc = "stage" /\ orch'[t].snap = StepRows
                /\ orch'[t].stage = steps[b].stage /\ orch'[t].cursor = 1
      PROVE  Inv'
  <2>1. /\ steps[b].state # "none"
        /\ steps[b].state \notin Terminal \/ (strategy[t].stop /\ steps[b].state = "failed")
        /\ \A q \in Subclouds : q < b /\ steps[q].state # "none" => steps[q].state \in Terminal
        /\ EarlierOver(steps[b].stage, strategy[t].stop)
    BY <1>9, BreakIs
  <2>2. \A r \in Subclouds : r \in passed => steps[r].state \notin WorkStates
    BY <1>9, <2>1, StatesApart
  <2>3. WorkersOK' /\ DeletersOK'
    BY <1>1, <1>9, <2>2, ForgetInv
  <2>4. CASE /\ steps[b].state = "failed"
             /\ ~WorkRemaining(StepRows, steps[b].stage)
             /\ orch'[t].pc = "stop" /\ orch'[t].verdict = "failed"
    <3>1. strategy[t].stop /\ "failed" \in Outcomes
      BY <2>1, <2>4 DEF Terminal, Outcomes
    <3>2. ASSUME NEW r \in Subclouds, steps[r].state \in WorkStates
          PROVE  FALSE
      <4>1. EarlierOver(steps[r].stage, strategy[t].stop)
        BY <1>1, <3>2 DEF IInv, Inv, Tables, Staged
      <4>2. ~ (steps[b].stage < steps[r].stage)
        BY <2>1, <2>4, <3>1, <4>1 DEF EarlierOver
      <4>3. ~ (steps[r].stage < steps[b].stage)
        BY <2>1, <3>2, StatesApart DEF EarlierOver
      <4>4. steps[r].stage = steps[b].stage
        <5>1. steps[r].stage \in Nat /\ steps[b].stage \in Nat
          BY TypesOf DEF IInv, Typed
        <5> QED
          BY <4>2, <4>3, <5>1
      <4>5. r \in Present(StepRows) /\ StepRows[r].stage = steps[b].stage
            /\ StepRows[r].state \notin {"complete", "failed"}
        BY <3>2, <4>4, ReadSteps, StatesApart DEF IInv
      <4> QED
        BY <2>4, <4>5 DEF WorkRemaining
    <3>3. Outcomes \subseteq Terminal \cup {"initial"}
      <4>1. \A r \in Subclouds : steps[r].state \in StepStates \cup {"none"}
        BY TypesOf DEF IInv, Typed
      <4> QED
        BY <3>2, <4>1 DEF Outcomes, StepStates
    <3>4. OutcomeFits(t)' /\ StageFits(t)'
      BY <1>1, <1>7, <2>4, <3>1, <3>3 DEF OutcomeFits, StageFits
    <3> QED
      BY <1>3, <1>4, <1>5, <1>6, <2>3, <3>4 DEF Inv, ThreadOK
  <2>5. CASE /\ orch'[t].pc = "stage" /\ orch'[t].snap = StepRows
             /\ orch'[t].stage = steps[b].stage /\ orch'[t].cursor = 1
    <3>1. ASSUME NEW r \in Subclouds, steps[r].stage = steps[b].stage
          PROVE  steps[r].state # "aborted"
      BY <1>1, <2>1, <3>1, NoneAborted
    <3>2. InStage(t)' = {r \in Subclouds : steps[r].state # "none"
                                           /\ steps[r].stage = steps[b].stage}
      BY <2>5, ReadSteps DEF InStage, IInv
    <3>3. ASSUME NEW r \in InStage(t)'
          PROVE  StepFits(t, r, StepRows[r].state)'
      <4>1. /\ r \in Subclouds /\ steps[r].state # "none"
            /\ steps[r].stage = steps[b].stage /\ StepRows[r].state = steps[r].state
        BY <3>2, <3>3, ReadSteps DEF IInv
      <4>2. r \in Nat /\ r >= 1 /\ ~ (r < 1)
        BY <4>1 DEF Subclouds
      <4>3. \A s \in WorkStates : s # "initial"
        BY StatesApart
      <4>4. StepRows' = StepRows
        BY <1>1 DEF StepRows
      <4> QED
        BY <1>1, <2>5, <3>1, <4>1, <4>2, <4>3, <4>4 DEF StepFits, Terminal
    <3>4. EarlierOver(orch[t].stage, strategy[t].stop)'
      BY <1>1, <2>1, <2>5 DEF EarlierOver
    <3>5. StageFits(t)'
      <4>1. StepRows' = StepRows
        BY <1>1 DEF StepRows
      <4> QED
        BY <1>1, <2>5, <3>1, <3>2, <3>3, <3>4, <4>1 DEF StageFits
    <3>6. OutcomeFits(t)'
      BY <2>5 DEF OutcomeFits
    <3> QED
      BY <1>3, <1>4, <1>5, <1>6, <2>3, <3>5, <3>6 DEF Inv, ThreadOK
  <2> QED
    BY <1>9, <2>4, <2>5
<1> QED
  BY <1>8, <1>9, ApplySet

-------------------------------------------------------------------------------
(* The visits to the steps of a stage.                                     *)

LEMMA VisitingIs ==
  ASSUME IInv, NEW t \in Types, NEW r \in Subclouds, Visiting(t, r)
  PROVE  /\ orch[t].pc = "stage" /\ Exists(t) /\ strategy[t].state \in Ongoing
         /\ r \in InStage(t) /\ r >= orch[t].cursor
         /\ orch[t].snap[r].state \in StepStates
         /\ StepFits(t, r, orch[t].snap[r].state)
         /\ ToVisit(t) = {q \in InStage(t) : q >= orch[t].cursor}
         /\ \A q \in InStage(t) : q >= orch[t].cursor /\ q # r => q > r
<1>1. orch[t].pc = "stage" /\ ToVisit(t) # {} /\ r = First(ToVisit(t))
  BY DEF Visiting
<1>2. Exists(t) /\ strategy[t].state \in Ongoing
  BY <1>1 DEF IInv, Inv, ThreadOK, ThreadFits, ApplyLabels, Exists, Ongoing
<1>3. ToVisit(t) = {q \in InStage(t) : q >= orch[t].cursor}
  BY DEF ToVisit, InStage
<1>4. ToVisit(t) \in SUBSET Subclouds
  BY DEF ToVisit, Present
<1>5. r \in ToVisit(t) /\ \A q \in ToVisit(t) : r <= q
  BY <1>1, <1>4, FirstIsLeast
<1>6. StepFits(t, r, orch[t].snap[r].state)
  BY <1>1, <1>3, <1>5 DEF IInv, Inv, ThreadOK, StageFits
<1>7. orch[t].snap[r].state \in StepStates
  BY VisitedStep DEF IInv
<1>8. ASSUME NEW q \in InStage(t), q >= orch[t].cursor, q # r
      PROVE  q > r
  <2>1. q \in Nat /\ r \in Nat /\ r <= q
    BY <1>3, <1>4, <1>5, <1>8, SubcloudsAreNaturals
  <2> QED
    BY <1>8, <2>1
<1> QED
  BY <1>1, <1>2, <1>3, <1>5, <1>6, <1>7, <1>8

\* A visit leaves a step that has begun, and the others as they are.
VisitLeaves(t, r) ==
  /\ UNCHANGED <<strategy, mgmt>>
  /\ \A q \in Subclouds : q # r =>
       steps'[q] = steps[q] /\ workers'[t][q] = workers[t][q]
  /\ steps'[r].stage = steps[r].stage
  /\ steps'[r].state = "none" <=> steps[r].state = "none"
  /\ steps'[r].state \notin NotBegun
  /\ steps[r].state \in Terminal => steps'[r].state = steps[r].state

LEMMA StageGoesOn ==
  ASSUME IInv, NEW t \in Types, NEW r \in Subclouds, Visiting(t, r),
         Visited(t, r), VisitLeaves(t, r)
  PROVE  StageFits(t)' /\ StagesWhole'
<1> DEFINE o == orch[t]
<1>1. /\ o.pc = "stage" /\ Exists(t)
      /\ r \in InStage(t) /\ r >= o.cursor /\ o.snap[r].state \in StepStates
      /\ StepFits(t, r, o.snap[r].state)
      /\ ToVisit(t) = {q \in InStage(t) : q >= o.cursor}
      /\ \A q \in InStage(t) : q >= o.cursor /\ q # r => q > r
  BY VisitingIs
<1>2. /\ \/ orch'[t].pc = "asleep" /\ \A q \in ToVisit(t) : ~ (q > r)
         \/ /\ orch'[t].pc = "stage" /\ orch'[t].snap = o.snap
            /\ orch'[t].stage = o.stage /\ orch'[t].cursor = r + 1
      /\ \A u \in Types : u # t => orch'[u] = orch[u]
  BY <1>1, VisitedSet DEF IInv
<1>3. StageFits(t)
  BY DEF IInv, Inv, ThreadOK
<1>4. /\ InStage(t) \subseteq Subclouds /\ Subclouds \subseteq Nat /\ o.cursor \in Nat
      /\ \A q \in Subclouds : steps[q].stage \in Nat
  BY SubcloudsAreNaturals, TypesOf DEF InStage, Present, Typed, IInv
<1>5. ASSUME orch'[t].pc = "stage"
      PROVE  StageFits(t)'
  <2>1. /\ orch'[t].snap = o.snap /\ orch'[t].stage = o.stage
        /\ orch'[t].cursor = r + 1 /\ InStage(t)' = InStage(t)
    BY <1>2, <1>5 DEF InStage
  <2>2. \A q \in Subclouds :
          /\ steps'[q].stage = steps[q].stage
          /\ steps'[q].state = "none" <=> steps[q].state = "none"
          /\ steps[q].state \in Terminal => steps'[q].state = steps[q].state
          /\ steps'[q].state \in NotBegun => steps'[q].state = steps[q].state
    BY DEF VisitLeaves
  <2>3. EarlierOver(o.stage, strategy[t].stop)'
    <3>1. EarlierOver(o.stage, strategy[t].stop)
      BY <1>1, <1>3 DEF StageFits
    <3> SUFFICES ASSUME NEW q \in Subclouds, steps'[q].state # "none",
                        steps'[q].stage < orch'[t].stage
                 PROVE  /\ steps'[q].state \in Terminal
                        /\ strategy'[t].stop => steps'[q].state # "failed"
      BY <2>1 DEF EarlierOver
    <3>2. steps[q].state \in Terminal /\ (strategy[t].stop => steps[q].state # "failed")
      BY <2>1, <2>2, <3>1 DEF EarlierOver
    <3> QED
      BY <2>2, <3>2 DEF VisitLeaves
  <2>4. ASSUME NEW q \in Subclouds, steps'[q].state # "none", steps'[q].stage = o.stage
        PROVE  q \in InStage(t) /\ steps'[q].state # "aborted"
    BY <1>1, <1>3, <2>2, <2>4 DEF StageFits, NotBegun
  <2>5. ASSUME NEW q \in InStage(t)
        PROVE  StepFits(t, q, o.snap[q].state)'
    <3>1. StepFits(t, q, o.snap[q].state) /\ q \in Subclouds /\ q \in Nat /\ r \in Nat
      BY <1>1, <1>3, <1>4 DEF StageFits
    <3>2. CASE q = r
      <4>1. r < r + 1 /\ ~ (r >= r + 1)
        BY <3>1
      <4>2. /\ o.snap[r].state # "aborted"
            /\ steps'[r].state = "none" => mgmt'[r] = "deleted"
            /\ steps'[r].state # "none" =>
                 /\ steps'[r].stage = orch'[t].stage
                 /\ steps'[r].state # "initial"
                 /\ o.snap[r].state \in Terminal => steps'[r].state = o.snap[r].state
        BY <1>1, <2>1 DEF StepFits, VisitLeaves, NotBegun
      <4> QED
        BY <2>1, <3>2, <4>1, <4>2 DEF StepFits
    <3>3. CASE q # r
      <4>1. steps'[q] = steps[q] /\ workers'[t][q] = workers[t][q] /\ mgmt' = mgmt
        BY <3>1, <3>3 DEF VisitLeaves
      <4>2. /\ q >= r + 1 => q >= o.cursor
            /\ q < r + 1 => q < o.cursor
        <5>1. q >= o.cursor => q > r
          BY <1>1, <3>3
        <5> QED
          BY <1>1, <1>4, <3>1, <3>3, <5>1
      <4> QED
        BY <2>1, <3>1, <4>1, <4>2 DEF StepFits
    <3> QED
      BY <3>2, <3>3
  <2> QED
    BY <2>1, <2>3, <2>4, <2>5 DEF StageFits
<1>6. StageFits(t)'
  BY <1>2, <1>5 DEF StageFits
<1>7. ASSUME orch'[t].pc = "asleep", NEW q \in Subclouds, steps'[q].state \in NotBegun,
             steps'[q].stage = o.stage
      PROVE  FALSE
  <2>1. q # r /\ steps'[q] = steps[q]
    BY <1>7 DEF VisitLeaves
  <2>2. q \in InStage(t) /\ steps[q].state = "initial"
    BY <1>1, <1>3, <1>7, <2>1 DEF StageFits, NotBegun
  <2>3. StepFits(t, q, o.snap[q].state)
    BY <1>1, <1>3, <2>2 DEF StageFits
  <2>4. ~ (q < o.cursor)
    BY <2>2, <2>3 DEF StepFits
  <2>5. q >= o.cursor
    BY <1>4, <2>2, <2>4
  <2> QED
    BY <1>1, <1>2, <1>7, <2>1, <2>2, <2>5
<1>8. StagesWhole'
  <2> SUFFICES ASSUME ClientsAbort
               PROVE  /\ \A q \in Subclouds, u \in Types :
                           steps'[q].state = "aborted" =>
                             /\ strategy'[u].state # "applying"
                             /\ strategy'[u].state = "abort requested" =>
                                  orch'[u].pc \in {"aborting", "abort end"}
                      /\ \A p, q \in Subclouds :
                           /\ steps'[p].state \notin NotBegun \cup {"none"}
                           /\ steps'[q].state \in NotBegun
                           /\ steps'[p].stage = steps'[q].stage
                           => \E u \in Types : orch'[u].pc = "stage"
                                               /\ orch'[u].stage = steps'[q].stage
    BY DEF StagesWhole
  <2>1. ASSUME NEW q \in Subclouds, steps'[q].state = "aborted", NEW u \in Types
        PROVE  /\ strategy'[u].state # "applying"
               /\ strategy'[u].state = "abort requested" =>
                    orch'[u].pc \in {"aborting", "abort end"}
    <3>1. q # r /\ steps[q].state = "aborted"
      BY <2>1 DEF VisitLeaves, NotBegun
    <3>2. /\ strategy[u].state # "applying"
          /\ strategy[u].state = "abort requested" =>
               orch[u].pc \in {"aborting", "abort end"}
      BY <3>1 DEF IInv, Inv, StagesWhole
    <3> QED
      BY <1>1, <1>2, <3>2 DEF VisitLeaves
  <2>2. ASSUME NEW p \in Subclouds, NEW q \in Subclouds,
               steps'[p].state \notin NotBegun \cup {"none"},
               steps'[q].state \in NotBegun, steps'[p].stage = steps'[q].stage
        PROVE  \E u \in Types : orch'[u].pc = "stage" /\ orch'[u].stage = steps'[q].stage
    <3>1. q # r /\ steps'[q] = steps[q]
      BY <2>2 DEF VisitLeaves
    <3>2. steps[q].stage = o.stage
      <4>1. CASE p = r
        BY <1>1, <2>2, <3>1, <4>1 DEF VisitLeaves, StepFits, NotBegun
      <4>2. CASE p # r
        <5>1. steps'[p] = steps[p]
          BY <4>2 DEF VisitLeaves
        <5>2. PICK u \in Types : orch[u].pc = "stage" /\ orch[u].stage = steps[q].stage
          BY <2>2, <3>1, <5>1 DEF IInv, Inv, StagesWhole
        <5>3. u = t
          BY <1>1, <5>2, OthersAsleep
        <5> QED
          BY <5>2, <5>3
      <4> QED
        BY <4>1, <4>2
    <3>3. orch'[t].pc # "asleep"
      BY <1>7, <2>2, <3>1, <3>2
    <3> QED
      BY <1>2, <3>1, <3>2, <3>3
  <2> QED
    BY <2>1, <2>2
<1> QED
  BY <1>6, <1>8

\* A step of an ongoing strategy that is due, or at work, moves on.
LEMMA MoveTables ==
  ASSUME IInv, NEW t \in Types, strategy[t].state \in Ongoing,
         NEW r \in Subclouds, steps[r].state \in {"initial"} \cup WorkStates,
         NEW s \in WorkStates \cup Terminal, SetStep(r, s),
         s \in WorkStates => EarlierOver(steps[r].stage, strategy[t].stop),
         s = "aborted" => ClientsAbort,
         UNCHANGED <<strategy, mgmt, creator>>,
         \A u \in Types : orch'[u].pc # "destroy"
  PROVE  Tables'
<1>1. /\ steps'[r].state = s /\ steps'[r].stage = steps[r].stage
      /\ \A q \in Subclouds : q # r => steps'[q] = steps[q]
  BY StepSet DEF IInv
<1>2. s # "none" /\ s # "initial" /\ steps[r].state # "none" /\ steps[r].state \notin Terminal
  BY StatesApart DEF Terminal
<1>3. /\ \A q \in Subclouds : /\ steps'[q].stage = steps[q].stage
                              /\ steps'[q].state = "none" <=> steps[q].state = "none"
      /\ \A q \in Subclouds : steps[q].stage \in Nat
  BY <1>1, <1>2, TypesOf DEF IInv, Typed
<1>4. Exists(t) /\ \A u \in Types : u # t => ~Exists(u)
  BY OthersAsleep DEF Exists, Ongoing
<1>5. RowsFit'
  <2>1. \A q \in Subclouds :
          /\ steps'[q].state = "none" => steps'[q] = NoStep
          /\ mgmt'[q] = "deleted" => q \in Deletable /\ steps'[q].state = "none"
    BY <1>1, <1>2, <1>3 DEF IInv, Inv, Tables, RowsFit
  <2>2. Exists(t)' /\ \A u \in Types : strategy'[u].state # "initial"
    BY <1>4 DEF Exists, Ongoing
  <2>3. ASSUME NEW u \in Types, strategy'[u].state = "aborting", NEW q \in Subclouds
        PROVE  steps'[q].state # "initial"
    BY <1>1, <1>2, <2>3 DEF IInv, Inv, Tables, RowsFit
  <2>4. \A u \in Types : strategy'[u].state = "none" => strategy'[u] = NoStrategy
    BY DEF IInv, Inv, Tables, RowsFit
  <2> QED
    BY <2>1, <2>2, <2>3, <2>4 DEF RowsFit
<1>6. Ascending'
  BY <1>3 DEF Ascending, IInv, Inv, Tables
<1>7. Creating'
  BY <1>4 DEF Creating, IInv, Inv, Tables, Exists, Ongoing
<1>8. Staged'
  <2> SUFFICES ASSUME NEW u \in Types, Exists(u)', NEW q \in Subclouds,
                      steps'[q].state \in WorkStates,
                      NEW p \in Subclouds, steps'[p].state # "none",
                      steps'[p].stage < steps'[q].stage
               PROVE  /\ steps'[p].state \in Terminal
                      /\ strategy'[u].stop => steps'[p].state # "failed"
    BY DEF Staged, EarlierOver
  <2>1. u = t
    BY <1>4 DEF Exists
  <2>2. EarlierOver(steps[q].stage, strategy[t].stop)
    <3>1. CASE q = r
      BY <1>1, <3>1
    <3>2. CASE q # r
      BY <1>1, <1>4, <3>2 DEF IInv, Inv, Tables, Staged
    <3> QED
      BY <3>1, <3>2
  <2>3. /\ steps[p].state \in Terminal
        /\ strategy[t].stop => steps[p].state # "failed"
    BY <1>3, <2>2 DEF EarlierOver
  <2>4. p # r
    BY <1>2, <2>3
  <2> QED
    BY <1>1, <2>1, <2>3, <2>4
<1>9. NoAborts'
  BY <1>1 DEF NoAborts, IInv, Inv, Tables
<1> QED
  BY <1>5, <1>6, <1>7, <1>8, <1>9 DEF Tables

Nobody(r) == \A u \in Types, s \in StepStates : live[u][r][s] = 0

\* A subcloud whose step is not at work has no greenthread.
LEMMA NobodyAt ==
  ASSUME IInv, NEW r \in Subclouds, mgmt[r] # "deleted",
         NEW t \in Types, NEW s, steps[r].state = s,
         s \notin WorkStates \/ (workers[t][r] # s /\ Exists(t))
  PROVE  Nobody(r)
<1> SUFFICES ASSUME NEW u \in Types, NEW x \in StepStates, live[u][r][x] # 0
             PROVE  FALSE
  BY DEF Nobody
<1>1. live[u][r][x] > 0
  <2>1. live[u][r][x] \in Nat
    BY TypesOf DEF IInv, Typed
  <2> QED
    BY <2>1
<1>2. /\ x \in WorkStates /\ steps[r].state = x /\ workers[u][r] = x
      /\ strategy[u].state \in Ongoing
  BY <1>1 DEF IInv, Inv, WorkersOK
<1>3. Exists(u)
  BY <1>2 DEF Exists, Ongoing
<1> QED
  BY <1>2, <1>3 DEF IInv, AtMostOneStrategy

\* A worker is started where there is none.
LEMMA ProcessInv ==
  ASSUME IInv, NEW t \in Types, NEW r \in Subclouds, NEW s \in WorkStates,
         ProcessUpdateStep(t, r, s), orch[t].pc = "stage",
         strategy[t].state \in Ongoing,
         mgmt[r] # "deleted" => steps'[r].state = s \/ workers[t][r] = s,
         mgmt[r] # "deleted" => Nobody(r) \/ (steps' = steps /\ workers[t][r] = s),
         \A q \in Subclouds : q # r => steps'[q] = steps[q],
         UNCHANGED <<strategy, mgmt, deleters>>
  PROVE  /\ WorkersOK' /\ DeletersOK' /\ Visited(t, r)
         /\ \A q \in Subclouds : q # r => workers'[t][q] = workers[t][q]
<1>1. s \in StepStates /\ s # "delete thread"
  BY StatesApart
<1>2. workers[t][r] # "delete thread" /\ deleters[t][r] = 0
  BY DEF IInv, Inv, DeletersOK
<1>3. \/ Visited(t, r) /\ workers[t][r] = s /\ UNCHANGED <<workers, live>>
      \/ /\ Visited(t, r) /\ workers[t][r] # s
         /\ workers' = [workers EXCEPT ![t][r] = s]
         /\ live' = [live EXCEPT ![t][r][s] = live[t][r][s] + 1]
  BY <1>2, Zenon DEF ProcessUpdateStep
<1>4. CASE workers[t][r] = s /\ UNCHANGED <<workers, live>>
  <2>1. DeletersOK'
    <3>1. \A u \in Types : orch[u].pc = "delete wait" => orch'[u].pc = "delete wait"
      <4>1. Visited(t, r)
        BY <1>2, <1>4, Zenon DEF ProcessUpdateStep
      <4> QED
        BY <4>1, VisitedSet DEF IInv
    <3> QED
      BY <1>4, <3>1, DeletersStay DEF IInv, Inv
  <2>2. WorkersOK'
    <3> SUFFICES ASSUME NEW u \in Types, NEW q \in Subclouds, NEW x \in StepStates,
                        live'[u][q][x] > 0, mgmt'[q] # "deleted"
                 PROVE  /\ live'[u][q][x] = 1 /\ x \in WorkStates
                        /\ steps'[q].state = x /\ workers'[u][q] = x
                        /\ strategy'[u].state \in Ongoing
      BY DEF WorkersOK
    <3>1. /\ live[u][q][x] = 1 /\ x \in WorkStates
          /\ steps[q].state = x /\ workers[u][q] = x
          /\ strategy[u].state \in Ongoing
      BY <1>4 DEF IInv, Inv, WorkersOK
    <3>2. steps'[q] = steps[q]
      BY <3>1 DEF Nobody
    <3> QED
      BY <1>4, <3>1, <3>2
  <2> QED
    BY <1>3, <1>4, <2>1, <2>2
<1>5. CASE /\ Visited(t, r) /\ workers[t][r] # s
           /\ workers' = [workers EXCEPT ![t][r] = s]
           /\ live' = [live EXCEPT ![t][r][s] = live[t][r][s] + 1]
  <2>1. /\ workers'[t][r] = s
        /\ \A q \in Subclouds : q # r => workers'[t][q] = workers[t][q]
        /\ \A u \in Types : u # t => workers'[u] = workers[u]
    BY <1>5 DEF IInv, TypeOK
  <2>2. /\ live'[t][r][s] = live[t][r][s] + 1
        /\ \A x \in StepStates : x # s => live'[t][r][x] = live[t][r][x]
        /\ \A q \in Subclouds : q # r => live'[t][q] = live[t][q]
        /\ \A u \in Types : u # t => live'[u] = live[u]
    <3>1. live \in [Types -> [Subclouds -> [StepStates -> Nat]]]
      BY DEF IInv, TypeOK
    <3> QED
      BY <1>1, <1>5, <3>1
  <2>3. DeletersOK'
    <3> SUFFICES ASSUME NEW u \in Types, NEW q \in Subclouds
                 PROVE  /\ workers'[u][q] = "delete thread" =>
                             deleters'[u][q] = 1 /\ orch'[u].pc = "delete wait"
                        /\ workers'[u][q] # "delete thread" => deleters'[u][q] = 0
      BY DEF DeletersOK
    <3>1. /\ workers[u][q] = "delete thread" =>
               deleters[u][q] = 1 /\ orch[u].pc = "delete wait"
          /\ workers[u][q] # "delete thread" => deleters[u][q] = 0
      BY DEF DeletersOK, IInv, Inv
    <3>2. \A v \in Types : orch[v].pc = "delete wait" => orch'[v].pc = "delete wait"
      BY <1>5, VisitedSet DEF IInv
    <3>3. CASE u = t /\ q = r
      BY <1>1, <1>2, <2>1, <3>3
    <3>4. CASE ~ (u = t /\ q = r)
      <4>1. workers'[u][q] = workers[u][q]
        BY <2>1, <3>4
      <4> QED
        BY <3>1, <3>2, <4>1
    <3> QED
      BY <3>3, <3>4
  <2>4. WorkersOK'
    <3> SUFFICES ASSUME NEW u \in Types, NEW q \in Subclouds, NEW x \in StepStates,
                        live'[u][q][x] > 0, mgmt'[q] # "deleted"
                 PROVE  /\ live'[u][q][x] = 1 /\ x \in WorkStates
                        /\ steps'[q].state = x /\ workers'[u][q] = x
                        /\ strategy'[u].state \in Ongoing
      BY DEF WorkersOK
    <3>1. CASE q = r
      <4>1. Nobody(r) /\ steps'[r].state = s
        BY <1>5, <3>1
      <4>2. u = t /\ x = s
        BY <2>2, <3>1, <4>1 DEF Nobody
      <4> QED
        <5>1. live[t][r][s] = 0
          BY <1>1, <4>1 DEF Nobody
        <5>2. live'[t][r][s] = 1
          BY <2>2, <5>1
        <5> QED
          BY <2>1, <3>1, <4>1, <4>2, <5>2
    <3>2. CASE q # r
      <4>1. /\ live'[u][q] = live[u][q] /\ workers'[u][q] = workers[u][q]
            /\ steps'[q] = steps[q]
        BY <2>1, <2>2, <3>2
      <4>2. /\ live[u][q][x] = 1 /\ x \in WorkStates
            /\ steps[q].state = x /\ workers[u][q] = x
            /\ strategy[u].state \in Ongoing
        BY <4>1 DEF IInv, Inv, WorkersOK
      <4> QED
        BY <4>1, <4>2
    <3> QED
      BY <3>1, <3>2
  <2> QED
    BY <1>5, <2>1, <2>3, <2>4
<1> QED
  BY <1>3, <1>4, <1>5

\* After a visit.
LEMMA VisitOK ==
  ASSUME IInv, NEW t \in Types, NEW r \in Subclouds, Visiting(t, r),
         Visited(t, r), VisitLeaves(t, r), Tables', WorkersOK', DeletersOK'
  PROVE  Inv'
<1>1. /\ orch[t].pc = "stage" /\ Exists(t) /\ strategy[t].state \in Ongoing
  BY VisitingIs
<1>2. StageFits(t)' /\ StagesWhole'
  BY StageGoesOn
<1>3. /\ orch'[t].pc \in {"stage", "asleep"}
      /\ \A u \in Types : u # t => orch'[u] = orch[u]
  BY <1>1, VisitedSet DEF IInv
<1>4. ThreadOK(t)'
  BY <1>1, <1>2, <1>3
     DEF ThreadOK, ThreadFits, AbortFits, OutcomeFits, ApplyLabels, AbortLabels,
         DeleteLabels, VisitLeaves
<1>5. \A u \in Types : ThreadOK(u)'
  BY <1>1, <1>3, <1>4, OthersOK
<1> QED
  BY <1>2, <1>5 DEF Inv

\* What a pass leaves of a step that has begun when it read it.
LEMMA BegunLeft ==
  ASSUME IInv, NEW t \in Types, NEW r \in Subclouds, Visiting(t, r),
         orch[t].snap[r].state # "initial",
         UNCHANGED <<strategy, steps, mgmt>>,
         \A q \in Subclouds : q # r => workers'[t][q] = workers[t][q]
  PROVE  VisitLeaves(t, r)
<1>1. /\ orch[t].pc = "stage" /\ r \in InStage(t)
      /\ StepFits(t, r, orch[t].snap[r].state)
  BY VisitingIs
<1>2. steps[r].state # "initial"
  BY <1>1 DEF StepFits
<1>3. steps[r].state # "aborted"
  <2>1. steps[r].state # "none" => steps[r].stage = orch[t].stage
    BY <1>1 DEF StepFits
  <2> QED
    BY <1>1, <2>1 DEF IInv, Inv, ThreadOK, StageFits
<1> QED
  BY <1>2, <1>3 DEF VisitLeaves, NotBegun

LEMMA FinishedInv ==
  ASSUME IInv, NEW t \in Types, NEW r \in Subclouds, VisitFinished(t, r)
  PROVE  Inv'
<1>1. /\ Visiting(t, r) /\ orch[t].snap[r].state \in {"failed", "complete"}
      /\ Forget(t, {r}) /\ Visited(t, r)
      /\ UNCHANGED <<strategy, steps, mgmt, creator, live, deleters>>
  BY DEF VisitFinished, dbVars, apiVars
<1>2. /\ orch[t].pc = "stage" /\ r \in InStage(t)
      /\ StepFits(t, r, orch[t].snap[r].state)
  BY <1>1, VisitingIs
<1>3. /\ orch'[t].pc \in {"stage", "asleep"}
      /\ \A u \in Types : u # t => orch'[u] = orch[u]
  BY <1>1, <1>2, VisitedSet DEF IInv
<1>4. Tables'
  BY <1>1, <1>3, TablesStay DEF IInv, Inv
<1>5. steps[r].state \notin WorkStates
  BY <1>1, <1>2, StatesApart DEF StepFits, Terminal
<1>6. WorkersOK' /\ DeletersOK'
  <2>1. \A q \in Subclouds : q \in {r} => steps[q].state \notin WorkStates
    BY <1>5
  <2> QED
    BY <1>1, <1>2, <1>3, <2>1, ForgetInv
<1>7. VisitLeaves(t, r)
  <2>1. \A q \in Subclouds : q # r => workers'[t][q] = workers[t][q]
    BY <1>1, ForgetSet DEF IInv
  <2> QED
    BY <1>1, <2>1, BegunLeft
<1> QED
  BY <1>1, <1>4, <1>6, <1>7, VisitOK

LEMMA InProgressInv ==
  ASSUME IInv, NEW t \in Types, NEW r \in Subclouds, VisitInProgress(t, r)
  PROVE  Inv'
<1> DEFINE s == orch[t].snap[r].state
<1>1. /\ Visiting(t, r) /\ s \notin {"failed", "complete", "initial"}
      /\ ProcessUpdateStep(t, r, s)
      /\ UNCHANGED <<strategy, steps, mgmt, creator, deleters>>
  BY DEF VisitInProgress, dbVars, apiVars
<1>2. /\ orch[t].pc = "stage" /\ Exists(t) /\ strategy[t].state \in Ongoing
      /\ r \in InStage(t) /\ StepFits(t, r, s) /\ s \in StepStates /\ r >= orch[t].cursor
  BY <1>1, VisitingIs
<1>3. s \in WorkStates
  BY <1>1, <1>2 DEF StepFits, StepStates, Terminal
<1>4. ASSUME mgmt[r] # "deleted"
      PROVE  /\ steps[r].state = s \/ workers[t][r] = s
             /\ Nobody(r) \/ workers[t][r] = s
  <2>1. steps[r].state = s \/ workers[t][r] = s
    BY <1>2, <1>3, <1>4 DEF StepFits
  <2>2. workers[t][r] # s => Nobody(r)
    BY <1>2, <1>4, <2>1, NobodyAt
  <2> QED
    BY <2>1, <2>2
<1>5. /\ WorkersOK' /\ DeletersOK' /\ Visited(t, r)
      /\ \A q \in Subclouds : q # r => workers'[t][q] = workers[t][q]
  <2> HIDE DEF s
  <2> QED
    BY <1>1, <1>2, <1>3, <1>4, ProcessInv
<1>6. \A u \in Types : orch'[u].pc = "destroy" => orch[u].pc = "destroy"
  BY <1>2, <1>5, VisitedSet DEF IInv
<1>7. Tables'
  BY <1>1, <1>6, TablesStay DEF IInv, Inv
<1>8. VisitLeaves(t, r)
  BY <1>1, <1>5, BegunLeft
<1> QED
  BY <1>1, <1>5, <1>7, <1>8, VisitOK

\* A step not yet started, when it is visited.
LEMMA StartFacts ==
  ASSUME IInv, NEW t \in Types, NEW r \in Subclouds, Visiting(t, r),
         orch[t].snap[r].state = "initial", steps[r] # NoStep
  PROVE  /\ steps[r].state = "initial" /\ steps[r].stage = orch[t].stage
         /\ mgmt[r] # "deleted" /\ Nobody(r)
         /\ EarlierOver(steps[r].stage, strategy[t].stop)
         /\ strategy[t].state \in {"applying", "abort requested"}
<1>1. /\ orch[t].pc = "stage" /\ strategy[t].state \in Ongoing
      /\ r \in InStage(t) /\ StepFits(t, r, "initial") /\ r >= orch[t].cursor
  BY VisitingIs
<1>2. steps[r].state # "none" /\ mgmt[r] # "deleted"
  BY DEF IInv, Inv, Tables, RowsFit
<1>3. steps[r].state = "initial" /\ steps[r].stage = orch[t].stage
  BY <1>1, <1>2 DEF StepFits
<1>4. EarlierOver(steps[r].stage, strategy[t].stop)
  BY <1>1, <1>3 DEF IInv, Inv, ThreadOK, StageFits
<1>5. Nobody(r)
  BY <1>2, <1>3, NobodyAt, StatesApart
<1>6. strategy[t].state # "aborting"
  BY <1>3 DEF IInv, Inv, Tables, RowsFit
<1> QED
  BY <1>1, <1>2, <1>3, <1>4, <1>5, <1>6 DEF Ongoing

LEMMA UnmanagedInv ==
  ASSUME IInv, NEW t \in Types, NEW r \in Subclouds, VisitUnmanaged(t, r)
  PROVE  Inv'
<1>1. /\ Visiting(t, r) /\ orch[t].snap[r].state = "initial" /\ steps[r] # NoStep
      /\ SetStep(r, "failed") /\ Visited(t, r)
      /\ UNCHANGED <<strategy, mgmt, creator, workers, live, deleters>>
  BY DEF VisitUnmanaged, workVars, apiVars
<1>2. /\ steps[r].state = "initial" /\ mgmt[r] # "deleted" /\ Nobody(r)
      /\ strategy[t].state \in Ongoing /\ orch[t].pc = "stage"
  BY <1>1, StartFacts, VisitingIs
<1>3. /\ steps'[r].state = "failed" /\ steps'[r].stage = steps[r].stage
      /\ \A q \in Subclouds : q # r => steps'[q] = steps[q]
  BY <1>1, StepSet DEF IInv
<1>4. /\ orch'[t].pc \in {"stage", "asleep"}
      /\ \A u \in Types : u # t => orch'[u] = orch[u]
  BY <1>1, <1>2, VisitedSet DEF IInv
<1>5. Tables'
  <2>1. \A u \in Types : orch'[u].pc # "destroy"
    BY <1>2, <1>4, OthersAsleep DEF Exists, Ongoing
  <2>2. "failed" \in Terminal /\ "failed" \notin WorkStates
    BY StatesApart DEF Terminal
  <2> QED
    BY <1>1, <1>2, <2>1, <2>2, MoveTables
<1>6. WorkersOK'
  <2> SUFFICES ASSUME NEW u \in Types, NEW q \in Subclouds, NEW x \in StepStates,
                      live'[u][q][x] > 0, mgmt'[q] # "deleted"
               PROVE  /\ live'[u][q][x] = 1 /\ x \in WorkStates
                      /\ steps'[q].state = x /\ workers'[u][q] = x
                      /\ strategy'[u].state \in Ongoing
    BY DEF WorkersOK
  <2>1. q # r
    BY <1>1, <1>2 DEF Nobody
  <2> QED
    BY <1>1, <1>3, <2>1 DEF IInv, Inv, WorkersOK
<1>7. DeletersOK'
  BY <1>1, <1>2, <1>4, DeletersStay DEF IInv, Inv
<1>8. VisitLeaves(t, r)
  BY <1>1, <1>2, <1>3 DEF VisitLeaves, NotBegun, Terminal
<1> QED
  BY <1>1, <1>5, <1>6, <1>7, <1>8, VisitOK

LEMMA InitialInv ==
  ASSUME IInv, NEW t \in Types, NEW r \in Subclouds, VisitInitial(t, r)
  PROVE  Inv'
<1> DEFINE s == StartingState[t]
<1>1. /\ Visiting(t, r) /\ orch[t].snap[r].state = "initial" /\ steps[r] # NoStep
      /\ SetStep(r, s) /\ ProcessUpdateStep(t, r, s)
      /\ UNCHANGED <<strategy, mgmt, creator, deleters>>
  BY DEF VisitInitial, apiVars
<1>2. /\ steps[r].state = "initial" /\ mgmt[r] # "deleted" /\ Nobody(r)
      /\ EarlierOver(steps[r].stage, strategy[t].stop)
      /\ strategy[t].state \in Ongoing /\ orch[t].pc = "stage"
  BY <1>1, StartFacts, VisitingIs
<1>3. s \in WorkStates
  BY ConstantsAssumption DEF ConstantsAssumption
<1> HIDE DEF s
<1>4. /\ steps'[r].state = s /\ steps'[r].stage = steps[r].stage
      /\ \A q \in Subclouds : q # r => steps'[q] = steps[q]
  BY <1>1, StepSet DEF IInv
<1>5. /\ WorkersOK' /\ DeletersOK' /\ Visited(t, r)
      /\ \A q \in Subclouds : q # r => workers'[t][q] = workers[t][q]
  BY <1>1, <1>2, <1>3, <1>4, ProcessInv
<1>6. /\ orch'[t].pc \in {"stage", "asleep"}
      /\ \A u \in Types : u # t => orch'[u] = orch[u]
  BY <1>2, <1>5, VisitedSet DEF IInv
<1>7. Tables'
  <2>1. \A u \in Types : orch'[u].pc # "destroy"
    BY <1>2, <1>6, OthersAsleep DEF Exists, Ongoing
  <2>2. s # "aborted"
    BY <1>3, StatesApart
  <2> QED
    BY <1>1, <1>2, <1>3, <2>1, <2>2, MoveTables
<1>8. VisitLeaves(t, r)
  <2>1. s \notin NotBegun /\ s # "none"
    BY <1>3, StatesApart DEF NotBegun
  <2> QED
    BY <1>1, <1>2, <1>4, <1>5, <2>1 DEF VisitLeaves, Terminal
<1> QED
  BY <1>1, <1>5, <1>7, <1>8, VisitOK

\* The pass ends at a step that has gone with its subcloud.  No pass that a
\* client may abort ends so.
LEMMA GoneInv ==
  ASSUME IInv, WholePasses, NEW t \in Types, NEW r \in Subclouds, VisitGone(t, r)
  PROVE  Inv'
<1>1. /\ orch[t].pc \in {"stage", "aborting"} /\ steps[r] = NoStep /\ Sleep(t)
      /\ UNCHANGED <<strategy, steps, mgmt, creator, workers, live, deleters>>
  BY DEF VisitGone, Visiting, dbVars, workVars, apiVars
<1>2. /\ orch'[t].pc = "asleep" /\ \A u \in Types : u # t => orch'[u] = orch[u]
      /\ Exists(t)
  BY <1>1, SleepSet, ThreadHasStrategy DEF IInv
<1>3. Tables' /\ WorkersOK' /\ DeletersOK'
  BY <1>1, <1>2, TablesStay, WorkersStay, DeletersStay DEF IInv, Inv
<1>4. mgmt[r] = "deleted"
  <2>1. steps[r].state = "none"
    BY <1>1 DEF NoStep
  <2>2. CASE orch[t].pc = "stage"
    <3>1. Visiting(t, r)
      BY <2>2 DEF VisitGone
    <3>2. StepFits(t, r, orch[t].snap[r].state)
      BY <3>1, VisitingIs
    <3> QED
      BY <2>1, <3>2 DEF StepFits
  <2>3. CASE orch[t].pc = "aborting"
    <3>1. r = orch[t].cursor
      BY <2>3 DEF VisitGone, Visiting
    <3>2. AbortFits(t)
      BY DEF IInv, Inv, ThreadOK
    <3>3. orch[t].snap[r].state = "initial"
      BY <2>3, <3>1, <3>2 DEF AbortFits
    <3>4. r >= orch[t].cursor
      <4>1. r \in Nat
        BY SubcloudsAreNaturals
      <4> QED
        BY <3>1, <4>1
    <3> QED
      BY <2>1, <2>3, <3>2, <3>3, <3>4 DEF AbortFits
  <2> QED
    BY <1>1, <2>2, <2>3
<1>5. ~ClientsAbort
  BY <1>4 DEF WholePasses, IInv, Inv, Tables, RowsFit
<1>6. StagesWhole'
  BY <1>5 DEF StagesWhole
<1>7. \A u \in Types : ThreadOK(u)'
  BY <1>2, AsleepOK, OthersOK
<1> QED
  BY <1>3, <1>6, <1>7 DEF Inv

-------------------------------------------------------------------------------
(* The abort.                                                              *)

\* What abort() does next.
LEMMA AbortNextIs ==
  ASSUME TypeOK, NEW t \in Types, NEW snap \in Snaps, NEW from \in Nat,
         AbortNext(t, snap, from)
  PROVE  /\ \A u \in Types : u # t => orch'[u] = orch[u]
         /\ \/ /\ orch'[t].pc = "abort end"
               /\ \A r \in Subclouds : ~ (r >= from /\ snap[r].state = "initial")
            \/ /\ orch'[t].pc = "aborting" /\ orch'[t].snap = snap
               /\ orch'[t].cursor \in Subclouds /\ orch'[t].cursor >= from
               /\ snap[orch'[t].cursor].state = "initial"
               /\ \A r \in Subclouds :
                    r >= from /\ snap[r].state = "initial" => r >= orch'[t].cursor
<1> DEFINE todo == {r \in Present(snap) : r >= from /\ snap[r].state = "initial"}
<1>1. todo = {r \in Subclouds : r >= from /\ snap[r].state = "initial"}
  BY DEF Present
<1>2. orch' = [orch EXCEPT ![t] =
         IF todo = {} THEN [Asleep EXCEPT !.pc = "abort end"]
         ELSE [Asleep EXCEPT !.pc = "aborting", !.snap = snap, !.cursor = First(todo)]]
  BY DEF AbortNext
<1> HIDE DEF todo
<1>3. CASE todo = {}
  <2>1. orch' = [orch EXCEPT ![t] = [Asleep EXCEPT !.pc = "abort end"]]
    BY <1>2, <1>3
  <2> QED
    BY <1>1, <1>3, <2>1 DEF TypeOK, Asleep
<1>4. CASE todo # {}
  <2>1. orch' = [orch EXCEPT ![t] = [Asleep EXCEPT !.pc = "aborting", !.snap = snap,
                                                   !.cursor = First(todo)]]
    BY <1>2, <1>4
  <2>2. First(todo) \in todo /\ \A r \in todo : First(todo) <= r
    BY <1>1, <1>4, FirstIsLeast
  <2>3. /\ orch'[t].pc = "aborting" /\ orch'[t].snap = snap
        /\ orch'[t].cursor = First(todo)
        /\ \A u \in Types : u # t => orch'[u] = orch[u]
    BY <2>1 DEF TypeOK, Asleep
  <2>4. \A r \in todo : r >= First(todo)
    BY <1>1, <2>2, SubcloudsAreNaturals
  <2> QED
    BY <1>1, <2>2, <2>3, <2>4
<1> QED
  BY <1>3, <1>4

\* No thread is in a stage while another label is reached.
LEMMA NobodyInStage ==
  ASSUME IInv, NEW t \in Types, Exists(t), orch[t].pc # "stage"
  PROVE  \A u \in Types : orch[u].pc # "stage"
BY OthersAsleep

LEMMA AbortReadInv ==
  ASSUME IInv, NEW t \in Types, AbortRead(t)
  PROVE  Inv'
<1>1. /\ orch[t].pc = "abort" /\ AbortNext(t, StepRows, 1)
      /\ UNCHANGED <<strategy, steps, mgmt, creator, workers, live, deleters>>
  BY DEF AbortRead, dbVars, workVars, apiVars
<1>2. strategy[t].state = "abort requested" /\ Exists(t)
  BY <1>1 DEF IInv, Inv, ThreadOK, ThreadFits, AbortLabels, Exists
<1>3. /\ \A u \in Types : u # t => orch'[u] = orch[u]
      /\ \/ /\ orch'[t].pc = "abort end"
            /\ \A r \in Subclouds : ~ (r >= 1 /\ StepRows[r].state = "initial")
         \/ /\ orch'[t].pc = "aborting" /\ orch'[t].snap = StepRows
            /\ orch'[t].cursor \in Subclouds /\ orch'[t].cursor >= 1
            /\ StepRows[orch'[t].cursor].state = "initial"
            /\ \A r \in Subclouds :
                 r >= 1 /\ StepRows[r].state = "initial" => r >= orch'[t].cursor
  <2>1. StepRows \in Snaps
    BY SnapType DEF IInv
  <2> QED
    BY <1>1, <2>1, AbortNextIs DEF IInv
<1>4. Tables' /\ WorkersOK' /\ DeletersOK'
  BY <1>1, <1>3, TablesStay, WorkersStay, DeletersStay DEF IInv, Inv
<1>5. StagesWhole'
  <2>1. \A u \in Types : u # t => strategy[u].state = "none"
    BY <1>2, OthersAsleep DEF Exists
  <2>2. \A u \in Types : orch[u].pc # "stage"
    BY <1>1, <1>2, NobodyInStage
  <2> QED
    BY <1>1, <1>2, <1>3, <2>1, <2>2 DEF StagesWhole, IInv, Inv
<1>6. AbortFits(t)'
  <2>1. \A r \in Subclouds : r >= 1 /\ StepRows[r].state = steps[r].state
    BY ReadSteps DEF IInv, Subclouds
  <2>2. CASE orch'[t].pc = "abort end"
    BY <1>1, <1>3, <2>1, <2>2 DEF AbortFits
  <2>3. CASE orch'[t].pc = "aborting"
    <3>1. /\ orch'[t].snap = StepRows /\ orch'[t].cursor \in Subclouds
          /\ steps[orch'[t].cursor].state = "initial"
          /\ \A r \in Subclouds : steps[r].state = "initial" => r >= orch'[t].cursor
      BY <1>3, <2>1, <2>3
    <3> QED
      BY <1>1, <2>1, <2>3, <3>1 DEF AbortFits
  <2> QED
    BY <1>3, <2>2, <2>3
<1>7. ThreadOK(t)'
  BY <1>1, <1>2, <1>3, <1>6
     DEF ThreadOK, ThreadFits, StageFits, OutcomeFits, ApplyLabels, AbortLabels,
         DeleteLabels
<1>8. \A u \in Types : ThreadOK(u)'
  BY <1>2, <1>3, <1>7, OthersOK
<1> QED
  BY <1>4, <1>5, <1>8 DEF Inv

\* The step that abort() withdraws has not begun.
LEMMA WithdrawFacts ==
  ASSUME IInv, NEW t \in Types, AbortStep(t), NEW r, r = orch[t].cursor
  PROVE  /\ r \in Subclouds /\ steps[r].state = "initial" /\ mgmt[r] # "deleted"
         /\ strategy[t].state = "abort requested" /\ Exists(t) /\ ClientsAbort
<1>1. orch[t].pc = "aborting" /\ steps[r] # NoStep
  BY DEF AbortStep
<1>2. strategy[t].state = "abort requested"
  BY <1>1 DEF IInv, Inv, ThreadOK, ThreadFits, AbortLabels
<1>3. ClientsAbort
  BY <1>2 DEF IInv, Inv, Tables, NoAborts
<1>4. AbortFits(t)
  BY DEF IInv, Inv, ThreadOK
<1>5. r \in Subclouds /\ orch[t].snap[r].state = "initial"
  BY <1>1, <1>4 DEF AbortFits
<1>6. r >= orch[t].cursor
  <2>1. r \in Nat
    BY <1>5, SubcloudsAreNaturals
  <2> QED
    BY <2>1
<1>7. steps[r].state \in {"none", "initial"}
  BY <1>1, <1>4, <1>5, <1>6 DEF AbortFits
<1>8. steps[r].state # "none" /\ mgmt[r] # "deleted"
  BY <1>1, <1>5 DEF IInv, Inv, Tables, RowsFit
<1> QED
  BY <1>2, <1>3, <1>5, <1>7, <1>8 DEF Exists

LEMMA AbortStepInv ==
  ASSUME IInv, NEW t \in Types, AbortStep(t)
  PROVE  Inv'
<1> DEFINE r == orch[t].cursor
<1>1. /\ orch[t].pc = "aborting" /\ SetStep(r, "aborted")
      /\ AbortNext(t, orch[t].snap, r + 1)
      /\ UNCHANGED <<strategy, mgmt, creator, workers, live, deleters>>
  BY DEF AbortStep, workVars, apiVars
<1>2. /\ r \in Subclouds /\ steps[r].state = "initial" /\ mgmt[r] # "deleted"
      /\ strategy[t].state = "abort requested" /\ Exists(t) /\ ClientsAbort
  BY WithdrawFacts
<1> HIDE DEF r
<1>3. r \in Nat /\ Subclouds \subseteq Nat
  BY <1>2, SubcloudsAreNaturals
<1>4. /\ steps'[r].state = "aborted" /\ steps'[r].stage = steps[r].stage
      /\ \A q \in Subclouds : q # r => steps'[q] = steps[q]
  BY <1>1, <1>2, StepSet DEF IInv
<1>5. /\ \A u \in Types : u # t => orch'[u] = orch[u]
      /\ \/ /\ orch'[t].pc = "abort end"
            /\ \A q \in Subclouds : ~ (q >= r + 1 /\ orch[t].snap[q].state = "initial")
         \/ /\ orch'[t].pc = "aborting" /\ orch'[t].snap = orch[t].snap
            /\ orch'[t].cursor \in Subclouds /\ orch'[t].cursor >= r + 1
            /\ orch[t].snap[orch'[t].cursor].state = "initial"
            /\ \A q \in Subclouds :
                 q >= r + 1 /\ orch[t].snap[q].state = "initial" => q >= orch'[t].cursor
  <2>1. orch[t].snap \in Snaps /\ r + 1 \in Nat
    BY <1>3 DEF IInv, TypeOK, OrchLocals
  <2> QED
    BY <1>1, <2>1, AbortNextIs DEF IInv
<1>6. Tables'
  <2>1. \A u \in Types : orch'[u].pc # "destroy"
    BY <1>2, <1>5, OthersAsleep
  <2>2. "aborted" \in Terminal /\ "aborted" \notin WorkStates
    BY StatesApart DEF Terminal
  <2> QED
    BY <1>1, <1>2, <2>1, <2>2, MoveTables DEF Ongoing
<1>7. WorkersOK'
  <2>1. Nobody(r)
    BY <1>2, NobodyAt, StatesApart
  <2> SUFFICES ASSUME NEW u \in Types, NEW q \in Subclouds, NEW x \in StepStates,
                      live'[u][q][x] > 0, mgmt'[q] # "deleted"
               PROVE  /\ live'[u][q][x] = 1 /\ x \in WorkStates
                      /\ steps'[q].state = x /\ workers'[u][q] = x
                      /\ strategy'[u].state \in Ongoing
    BY DEF WorkersOK
  <2>2. q # r
    BY <1>1, <2>1 DEF Nobody
  <2> QED
    BY <1>1, <1>4, <2>2 DEF IInv, Inv, WorkersOK
<1>8. DeletersOK'
  BY <1>1, <1>5, DeletersStay DEF IInv, Inv
<1>9. StagesWhole'
  <2>1. \A u \in Types : u # t => strategy[u].state = "none"
    BY <1>2, OthersAsleep DEF Exists
  <2>2. \A u \in Types : orch[u].pc # "stage"
    BY <1>1, <1>2, NobodyInStage
  <2>3. ASSUME NEW q \in Subclouds, NEW u \in Types, steps'[q].state = "aborted"
        PROVE  /\ strategy'[u].state # "applying"
               /\ strategy'[u].state = "abort requested" =>
                    orch'[u].pc \in {"aborting", "abort end"}
    BY <1>1, <1>2, <1>5, <2>1
  <2>4. ASSUME NEW p \in Subclouds, NEW q \in Subclouds,
               steps'[p].state \notin NotBegun \cup {"none"}, steps'[q].state \in NotBegun,
               steps'[p].stage = steps'[q].stage
        PROVE  FALSE
    <3>1. steps[p] = steps'[p] /\ steps[q].state \in NotBegun
          /\ steps[q].stage = steps'[q].stage
      BY <1>2, <1>4, <2>4 DEF NotBegun
    <3> QED
      BY <1>2, <2>2, <2>4, <3>1 DEF StagesWhole, IInv, Inv
  <2> QED
    BY <2>3, <2>4 DEF StagesWhole
<1>10. AbortFits(t)'
  <2>1. ASSUME NEW q \in Subclouds, steps'[q].state = "initial"
        PROVE  orch[t].snap[q].state = "initial" /\ q >= r + 1
    <3>1. q # r /\ steps[q].state = "initial"
      BY <1>4, <2>1
    <3>2. orch[t].snap[q].state = "initial" /\ q >= r
      BY <1>1, <3>1 DEF AbortFits, IInv, Inv, ThreadOK, r
    <3>3. q \in Nat
      BY <1>3
    <3> QED
      BY <1>3, <3>1, <3>2, <3>3
  <2>2. ASSUME NEW q \in Subclouds, orch[t].snap[q].state = "initial", q >= r + 1
        PROVE  /\ steps'[q].state \in {"none", "initial"}
               /\ steps'[q].state = "none" => mgmt[q] = "deleted"
    <3>1. q # r /\ q >= r
      <4>1. q \in Nat
        BY <1>3
      <4> QED
        BY <1>3, <2>2, <4>1
    <3> QED
      BY <1>1, <1>4, <2>2, <3>1 DEF AbortFits, IInv, Inv, ThreadOK, r
  <2>3. CASE orch'[t].pc = "abort end"
    BY <1>5, <2>1, <2>3 DEF AbortFits
  <2>4. CASE orch'[t].pc = "aborting"
    <3>1. /\ orch'[t].snap = orch[t].snap /\ orch'[t].cursor \in Subclouds
          /\ orch'[t].cursor >= r + 1 /\ orch[t].snap[orch'[t].cursor].state = "initial"
          /\ \A q \in Subclouds :
               q >= r + 1 /\ orch[t].snap[q].state = "initial" => q >= orch'[t].cursor
      BY <1>5, <2>4
    <3>2. ASSUME NEW q \in Subclouds, q >= orch'[t].cursor
          PROVE  q >= r + 1
      <4>1. q \in Nat /\ orch'[t].cursor \in Nat
        BY <1>3, <3>1
      <4> QED
        BY <1>3, <3>1, <3>2, <4>1
    <3> QED
      BY <1>1, <2>1, <2>2, <2>4, <3>1, <3>2 DEF AbortFits
  <2> QED
    BY <1>5, <2>3, <2>4
<1>11. ThreadOK(t)'
  BY <1>1, <1>2, <1>5, <1>10
     DEF ThreadOK, ThreadFits, StageFits, OutcomeFits, ApplyLabels, AbortLabels,
         DeleteLabels
<1>12. \A u \in Types : ThreadOK(u)'
  BY <1>2, <1>5, <1>11, OthersOK
<1> QED
  BY <1>6, <1>7, <1>8, <1>9, <1>12 DEF Inv

LEMMA AbortEndInv ==
  ASSUME IInv, NEW t \in Types, AbortEnd(t)
  PROVE  Inv'
<1>1. /\ orch[t].pc = "abort end" /\ SetStrategy(t, "aborting") /\ Sleep(t)
      /\ UNCHANGED <<steps, mgmt, creator, workers, live, deleters>>
  BY DEF AbortEnd, workVars, apiVars
<1>2. /\ strategy[t].state = "abort requested" /\ Exists(t)
      /\ \A r \in Subclouds : steps[r].state # "initial"
  BY <1>1 DEF IInv, Inv, ThreadOK, ThreadFits, AbortFits, AbortLabels, Exists
<1>3. /\ strategy'[t].state = "aborting" /\ strategy'[t].stop = strategy[t].stop
      /\ \A u \in Types : u # t => strategy'[u] = strategy[u]
  BY <1>1, StrategySet DEF IInv
<1>4. /\ orch'[t].pc = "asleep" /\ \A u \in Types : u # t => orch'[u] = orch[u]
  BY <1>1, SleepSet DEF IInv
<1>5. \A u \in Types : u # t => ~Exists(u) /\ orch[u].pc = "asleep"
  BY <1>2, OthersAsleep
<1>6. \A u \in Types : Exists(u)' <=> Exists(u)
  BY <1>2, <1>3 DEF Exists
<1>7. Tables'
  <2>1. RowsFit'
    BY <1>1, <1>2, <1>3, <1>4, <1>5, <1>6
       DEF RowsFit, NoSteps, IInv, Inv, Tables, Exists
  <2>2. Ascending' /\ NoAborts'
    BY <1>1, <1>3 DEF Ascending, NoAborts, IInv, Inv, Tables
  <2>3. Staged'
    BY <1>1, <1>3, <1>6 DEF Staged, EarlierOver, IInv, Inv, Tables
  <2>4. Creating'
    BY <1>1, <1>2, <1>3, <1>5 DEF Creating, IInv, Inv, Tables, Exists
  <2> QED
    BY <2>1, <2>2, <2>3, <2>4 DEF Tables
<1>8. WorkersOK' /\ DeletersOK'
  BY <1>1, <1>3, <1>4, WorkersStay, DeletersStay DEF IInv, Inv, Ongoing
<1>9. StagesWhole'
  <2>1. \A u \in Types : orch[u].pc # "stage"
    BY <1>1, <1>2, NobodyInStage
  <2> QED
    BY <1>1, <1>2, <1>3, <1>4, <1>5, <2>1 DEF StagesWhole, IInv, Inv, Exists
<1>10. \A u \in Types : ThreadOK(u)'
  BY <1>4, <1>5, AsleepOK
<1> QED
  BY <1>7, <1>8, <1>9, <1>10 DEF Inv

-------------------------------------------------------------------------------
(* The end of a strategy.                                                  *)

Ends == {"complete", "aborted", "failed"}

\* The strategy takes its outcome when nothing is at work.
LEMMA EndInv ==
  ASSUME IInv, NEW t \in Types, orch[t].pc \in {"finish", "stop"}, Exists(t),
         NEW s \in Ends, SetStrategy(t, s), Sleep(t),
         \A r \in Subclouds : steps[r].state \notin WorkStates,
         \A r \in Subclouds : workers'[t][r] \in {workers[t][r], "none"},
         \A u \in Types : u # t => workers'[u] = workers[u],
         UNCHANGED <<steps, mgmt, creator, live, deleters>>
  PROVE  Inv'
<1>1. strategy[t].state \in Ongoing
  BY DEF IInv, Inv, ThreadOK, ThreadFits, ApplyLabels
<1>2. /\ strategy'[t].state = s /\ strategy'[t].stop = strategy[t].stop
      /\ \A u \in Types : u # t => strategy'[u] = strategy[u]
  BY StrategySet DEF IInv
<1>3. /\ orch'[t].pc = "asleep" /\ \A u \in Types : u # t => orch'[u] = orch[u]
  BY SleepSet DEF IInv
<1>4. \A u \in Types : u # t => ~Exists(u) /\ orch[u].pc = "asleep"
  BY OthersAsleep
<1>5. \A u \in Types : Exists(u)' <=> Exists(u)
  BY <1>2 DEF Exists, Ends
<1>6. Tables'
  <2>1. RowsFit'
    BY <1>2, <1>3, <1>4, <1>5 DEF RowsFit, NoSteps, IInv, Inv, Tables, Exists, Ends
  <2>2. Ascending' /\ NoAborts'
    BY <1>2 DEF Ascending, NoAborts, IInv, Inv, Tables, Ends
  <2>3. Staged'
    BY <1>2, <1>5 DEF Staged, EarlierOver, IInv, Inv, Tables
  <2>4. Creating'
    BY <1>1, <1>2, <1>4 DEF Creating, IInv, Inv, Tables, Exists, Ongoing
  <2> QED
    BY <2>1, <2>2, <2>3, <2>4 DEF Tables
<1>7. WorkersOK'
  <2> SUFFICES ASSUME NEW u \in Types, NEW r \in Subclouds, NEW x \in StepStates,
                      live'[u][r][x] > 0, mgmt'[r] # "deleted"
               PROVE  FALSE
    BY DEF WorkersOK
  <2> QED
    BY DEF IInv, Inv, WorkersOK
<1>8. DeletersOK'
  <2> SUFFICES ASSUME NEW u \in Types, NEW r \in Subclouds
               PROVE  /\ workers'[u][r] = "delete thread" =>
                           deleters'[u][r] = 1 /\ orch'[u].pc = "delete wait"
                      /\ workers'[u][r] # "delete thread" => deleters'[u][r] = 0
    BY DEF DeletersOK
  <2>1. workers[u][r] # "delete thread" /\ deleters[u][r] = 0
    BY <1>4 DEF DeletersOK, IInv, Inv
  <2>2. workers'[u][r] # "delete thread"
    <3>1. CASE u = t
      BY <2>1, <3>1
    <3>2. CASE u # t
      BY <2>1, <3>2
    <3> QED
      BY <3>1, <3>2
  <2> QED
    BY <2>1, <2>2
<1>9. StagesWhole'
  <2>1. \A u \in Types : orch[u].pc # "stage"
    BY NobodyInStage
  <2> QED
    BY <1>2, <1>3, <1>4, <2>1 DEF StagesWhole, IInv, Inv, Exists, Ends
<1>10. \A u \in Types : ThreadOK(u)'
  BY <1>3, <1>4, AsleepOK
<1> QED
  BY <1>6, <1>7, <1>8, <1>9, <1>10 DEF Inv

\* A set of outcomes leaves out the step states it does not name.
LEMMA NoOutcome ==
  ASSUME Outcomes \subseteq Terminal \cup {"initial"}
  PROVE  \A r \in Subclouds : steps[r].state \notin WorkStates
<1> SUFFICES ASSUME NEW r \in Subclouds, steps[r].state \in WorkStates
             PROVE  FALSE
  OBVIOUS
<1>1. steps[r].state \in Outcomes
  BY StatesApart DEF Outcomes
<1> QED
  BY <1>1, StatesApart

LEMMA OverallEnds ==
  ASSUME NEW S
  PROVE  Lifecycle!Overall(S) \in Ends
BY DEF Lifecycle!Overall, Ends

LEMMA FinishInv ==
  ASSUME IInv, NEW t \in Types, Finish(t) \/ StopOnFailure(t)
  PROVE  Inv'
<1>1. /\ orch[t].pc \in {"finish", "stop"} /\ Exists(t)
      /\ SetStrategy(t, orch[t].verdict) /\ Sleep(t)
      /\ UNCHANGED <<steps, mgmt, creator, live, deleters>>
  BY DEF Finish, StopOnFailure, workVars, apiVars
<1>2. OutcomeFits(t)
  BY DEF IInv, Inv, ThreadOK
<1>3. orch[t].verdict \in Ends
  <2>1. CASE orch[t].pc = "finish"
    BY <1>2, <2>1, OverallEnds DEF OutcomeFits
  <2>2. CASE orch[t].pc = "stop"
    BY <1>2, <2>2 DEF OutcomeFits, Ends
  <2> QED
    BY <1>1, <2>1, <2>2
<1>4. \A r \in Subclouds : steps[r].state \notin WorkStates
  <2>1. Outcomes \subseteq Terminal \cup {"initial"}
    BY <1>1, <1>2 DEF OutcomeFits
  <2> QED
    BY <2>1, NoOutcome
<1>5. /\ \A r \in Subclouds : workers'[t][r] \in {workers[t][r], "none"}
      /\ \A u \in Types : u # t => workers'[u] = workers[u]
  <2>1. CASE Finish(t)
    BY <2>1, ForgetSet DEF Finish, IInv
  <2>2. CASE StopOnFailure(t)
    BY <2>2 DEF StopOnFailure, workVars
  <2> QED
    BY <2>1, <2>2
<1> QED
  BY <1>1, <1>3, <1>4, <1>5, EndInv

\* A strategy that is being deleted: no subcloud is worked on.
LEMMA Deleting ==
  ASSUME IInv, NEW t \in Types, orch[t].pc \in DeleteLabels
  PROVE  /\ strategy[t].state = "deleting" /\ Exists(t)
         /\ \A u \in Types : u # t => strategy[u].state = "none" /\ orch[u].pc = "asleep"
         /\ \A u \in Types, r \in Subclouds, x \in StepStates :
              mgmt[r] # "deleted" => live[u][r][x] = 0
<1>1. strategy[t].state = "deleting" /\ Exists(t)
  BY DEF IInv, Inv, ThreadOK, ThreadFits, Exists
<1>2. \A u \in Types : u # t => strategy[u].state = "none" /\ orch[u].pc = "asleep"
  BY <1>1, OthersAsleep DEF Exists
<1>3. \A u \in Types : strategy[u].state \notin Ongoing
  BY <1>1, <1>2 DEF Ongoing
<1> QED
  BY <1>1, <1>2, <1>3, AtRest

\* What a step of delete() leaves as it was.
LEMMA DeletingInv ==
  ASSUME IInv, NEW t \in Types, orch[t].pc \in DeleteLabels,
         orch'[t].pc \in DeleteLabels, \A u \in Types : u # t => orch'[u] = orch[u],
         Tables', DeletersOK', UNCHANGED <<strategy, mgmt, live>>,
         steps' = steps \/ NoSteps'
  PROVE  Inv'
<1>1. /\ strategy[t].state = "deleting" /\ Exists(t)
      /\ \A u \in Types : u # t => strategy[u].state = "none" /\ orch[u].pc = "asleep"
      /\ \A u \in Types, r \in Subclouds, x \in StepStates :
           mgmt[r] # "deleted" => live[u][r][x] = 0
  BY Deleting
<1>2. WorkersOK'
  BY <1>1, NobodyWorks
<1>3. StagesWhole'
  <2>1. CASE steps' = steps
    <3>1. \A u \in Types : orch[u].pc # "stage"
      BY <1>1 DEF DeleteLabels
    <3> QED
      BY <1>1, <2>1, <3>1 DEF StagesWhole, IInv, Inv
  <2>2. CASE NoSteps'
    BY <2>2 DEF StagesWhole, NoSteps, NotBegun
  <2> QED
    BY <2>1, <2>2
<1>4. ThreadOK(t)'
  BY <1>1 DEF ThreadOK, ThreadFits, StageFits, AbortFits, OutcomeFits, ApplyLabels,
              AbortLabels, DeleteLabels
<1>5. \A u \in Types : ThreadOK(u)'
  BY <1>1, <1>4, OthersOK
<1> QED
  BY <1>2, <1>3, <1>5 DEF Inv

LEMMA DeletersAre ==
  ASSUME IInv, NEW t \in Types, NEW r \in Subclouds
  PROVE  /\ workers[t][r] = "delete thread" =>
              deleters[t][r] = 1 /\ orch[t].pc = "delete wait"
         /\ workers[t][r] # "delete thread" => deleters[t][r] = 0
BY DEF IInv, Inv, DeletersOK

LEMMA DeleteReadInv ==
  ASSUME IInv, NEW t \in Types, DeleteRead(t)
  PROVE  Inv'
<1> DEFINE R == DeleteStarts(t)
<1>1. /\ orch[t].pc = "delete" /\ Goto(t, "delete wait")
      /\ workers' = [workers EXCEPT ![t] = [r \in Subclouds |->
                       IF r \in R THEN "delete thread" ELSE workers[t][r]]]
      /\ deleters' = [deleters EXCEPT ![t] = [r \in Subclouds |->
                       IF r \in R THEN deleters[t][r] + 1 ELSE deleters[t][r]]]
      /\ UNCHANGED <<strategy, steps, mgmt, creator, live>>
  BY DEF DeleteRead, dbVars, apiVars
<1> HIDE DEF R
<1>2. /\ orch'[t].pc = "delete wait" /\ \A u \in Types : u # t => orch'[u] = orch[u]
  BY <1>1, GotoSet DEF IInv
<1>3. /\ \A r \in Subclouds :
           workers'[t][r] = IF r \in R THEN "delete thread" ELSE workers[t][r]
      /\ \A u \in Types : u # t => workers'[u] = workers[u]
  BY <1>1 DEF IInv, TypeOK
<1>4. /\ \A r \in Subclouds :
           deleters'[t][r] = IF r \in R THEN deleters[t][r] + 1 ELSE deleters[t][r]
      /\ \A u \in Types : u # t => deleters'[u] = deleters[u]
  BY <1>1 DEF IInv, TypeOK
<1>5. \A r \in Subclouds : workers[t][r] # "delete thread" /\ deleters[t][r] = 0
  BY <1>1 DEF IInv, Inv, DeletersOK
<1>6. DeletersOK'
  <2> SUFFICES ASSUME NEW u \in Types, NEW r \in Subclouds
               PROVE  /\ workers'[u][r] = "delete thread" =>
                           deleters'[u][r] = 1 /\ orch'[u].pc = "delete wait"
                      /\ workers'[u][r] # "delete thread" => deleters'[u][r] = 0
    BY DEF DeletersOK
  <2>1. CASE u = t
    <3>1. CASE r \in R
      <4>1. deleters'[t][r] = deleters[t][r] + 1 /\ deleters[t][r] = 0
        BY <1>4, <1>5, <3>1
      <4>2. deleters'[t][r] = 1
        BY <4>1
      <4> QED
        BY <1>2, <1>3, <2>1, <3>1, <4>2
    <3>2. CASE r \notin R
      BY <1>2, <1>3, <1>4, <1>5, <2>1, <3>2
    <3> QED
      BY <3>1, <3>2
  <2>2. CASE u # t
    <3>1. workers'[u] = workers[u] /\ deleters'[u] = deleters[u] /\ orch'[u] = orch[u]
      BY <1>2, <1>3, <1>4, <2>2
    <3> QED
      BY <3>1, DeletersAre
  <2> QED
    BY <2>1, <2>2
<1>7. Tables'
  BY <1>1, <1>2, TablesStay DEF IInv, Inv
<1> QED
  BY <1>1, <1>2, <1>6, <1>7, DeletingInv DEF DeleteLabels

LEMMA OneIsNotZero == \A n : n = 1 => n # 0 /\ n - 1 = 0
OBVIOUS

\* No delete thread is left behind when the wait is over.
LEMMA DestroyStepsInv ==
  ASSUME ~SlowDelete, IInv, NEW t \in Types, DestroySteps(t)
  PROVE  Inv'
<1>1. /\ orch[t].pc = "delete wait" /\ Goto(t, "destroy")
      /\ steps' = [r \in Subclouds |-> NoStep]
      /\ UNCHANGED <<strategy, mgmt, creator, workers, live, deleters>>
  BY DEF DestroySteps, workVars, apiVars
<1>2. /\ orch'[t].pc = "destroy" /\ \A u \in Types : u # t => orch'[u] = orch[u]
  BY <1>1, GotoSet DEF IInv
<1>3. \A r \in Subclouds : workers[t][r] # "delete thread"
  <2> SUFFICES ASSUME NEW r \in Subclouds, workers[t][r] = "delete thread"
               PROVE  FALSE
    OBVIOUS
  <2>1. deleters[t][r] = 1
    BY DeletersAre
  <2> QED
    <3>1. workers[t][r] # "none"
      OBVIOUS
    <3>2. deleters[t][r] # 0
      BY <2>1, OneIsNotZero, Zenon
    <3> QED
      BY <3>1, <3>2, Zenon DEF DestroySteps
<1>4. DeletersOK'
  BY <1>1, <1>2, <1>3 DEF DeletersOK, IInv, Inv
<1>5. \A r \in Subclouds : steps'[r] = NoStep /\ steps'[r].state = "none"
  BY <1>1 DEF NoStep
<1>6. /\ strategy[t].state = "deleting" /\ Exists(t)
      /\ \A u \in Types : u # t => strategy[u].state = "none" /\ orch[u].pc = "asleep"
  BY <1>1, Deleting DEF DeleteLabels
<1>7. Tables'
  <2>1. RowsFit'
    BY <1>1, <1>5 DEF RowsFit, NoSteps, IInv, Inv, Tables
  <2>2. Ascending' /\ Creating' /\ Staged' /\ NoAborts'
    BY <1>1, <1>5, <1>6, StatesApart
       DEF Ascending, Creating, Staged, NoAborts, IInv, Inv, Tables
  <2> QED
    BY <2>1, <2>2 DEF Tables
<1>8. NoSteps'
  BY <1>5 DEF NoSteps
<1> QED
  BY <1>1, <1>2, <1>4, <1>7, <1>8, DeletingInv DEF DeleteLabels

LEMMA DestroyInv ==
  ASSUME IInv, NEW t \in Types, DestroyStrategy(t)
  PROVE  Inv'
<1>1. PICK u \in {v \in Types : Exists(v)} : strategy' = [strategy EXCEPT ![u] = NoStrategy]
  BY DEF DestroyStrategy
<1>2. /\ orch[t].pc = "destroy" /\ Sleep(t)
      /\ UNCHANGED <<steps, mgmt, creator, workers, live, deleters>>
  BY DEF DestroyStrategy, workVars, apiVars
<1>3. /\ strategy[t].state = "deleting" /\ Exists(t)
      /\ \A v \in Types : v # t => strategy[v].state = "none" /\ orch[v].pc = "asleep"
      /\ \A v \in Types, r \in Subclouds, x \in StepStates :
           mgmt[r] # "deleted" => live[v][r][x] = 0
  BY <1>2, Deleting DEF DeleteLabels
<1>4. u = t
  BY <1>3 DEF Exists
<1>5. /\ strategy'[t] = NoStrategy /\ strategy'[t].state = "none"
      /\ \A v \in Types : v # t => strategy'[v] = strategy[v]
  BY <1>1, <1>4 DEF IInv, TypeOK, NoStrategy
<1>6. \A v \in Types : orch'[v].pc = "asleep"
  BY <1>2, <1>3, SleepSet DEF IInv
<1>7. NoSteps
  BY <1>2 DEF IInv, Inv, Tables, RowsFit
<1>8. \A v \in Types : strategy'[v].state = "none"
  BY <1>3, <1>5
<1>9. Tables'
  <2>1. RowsFit'
    BY <1>2, <1>5, <1>6, <1>7, <1>8 DEF RowsFit, NoSteps, IInv, Inv, Tables
  <2>2. Ascending' /\ Staged' /\ NoAborts'
    BY <1>2, <1>7, <1>8, StatesApart DEF Ascending, Staged, NoAborts, NoSteps
  <2>3. Creating'
    BY <1>2, <1>3 DEF Creating, IInv, Inv, Tables
  <2> QED
    BY <2>1, <2>2, <2>3 DEF Tables
<1>10. WorkersOK'
  BY <1>2, <1>3, NobodyWorks
<1>11. DeletersOK'
  <2>1. \A v \in Types : orch[v].pc # "delete wait"
    BY <1>2, <1>3
  <2> QED
    BY <1>2, <2>1, DeletersStay DEF IInv, Inv
<1>12. StagesWhole'
  BY <1>2, <1>7 DEF StagesWhole, NoSteps, NotBegun
<1>13. \A v \in Types : ThreadOK(v)'
  BY <1>6, AsleepOK
<1> QED
  BY <1>9, <1>10, <1>11, <1>12, <1>13 DEF Inv

LEMMA DeleterInv ==
  ASSUME IInv, NEW t \in Types, NEW r \in Subclouds, DeleterEnds(t, r)
  PROVE  Inv'
<1>1. /\ deleters[t][r] > 0
      /\ deleters' = [deleters EXCEPT ![t][r] = deleters[t][r] - 1]
      /\ workers' = [workers EXCEPT ![t][r] = "none"]
      /\ UNCHANGED <<strategy, steps, mgmt, orch, creator, live>>
  BY DEF DeleterEnds, dbVars, apiVars
<1>2. workers[t][r] = "delete thread" /\ deleters[t][r] = 1 /\ orch[t].pc = "delete wait"
  <2>1. deleters[t][r] # 0
    BY <1>1
  <2> QED
    BY <2>1, DeletersAre
<1>3. /\ workers'[t][r] = "none" /\ deleters'[t][r] = 0
      /\ \A q \in Subclouds : q # r => /\ workers'[t][q] = workers[t][q]
                                       /\ deleters'[t][q] = deleters[t][q]
      /\ \A u \in Types : u # t => workers'[u] = workers[u] /\ deleters'[u] = deleters[u]
  <2>1. deleters[t][r] - 1 = 0
    BY <1>2, OneIsNotZero, Zenon
  <2>2. deleters' = [deleters EXCEPT ![t][r] = 0]
    BY <1>1, <2>1, Zenon
  <2> QED
    <3>1. /\ workers \in [Types -> [Subclouds -> EntryStates]]
          /\ deleters \in [Types -> [Subclouds -> Nat]]
      BY DEF IInv, TypeOK
    <3>2. workers' = [workers EXCEPT ![t][r] = "none"]
      BY <1>1
    <3>3. /\ workers'[t][r] = "none"
          /\ \A q \in Subclouds : q # r => workers'[t][q] = workers[t][q]
          /\ \A u \in Types : u # t => workers'[u] = workers[u]
      BY <3>1, <3>2
    <3>4. /\ deleters'[t][r] = 0
          /\ \A q \in Subclouds : q # r => deleters'[t][q] = deleters[t][q]
          /\ \A u \in Types : u # t => deleters'[u] = deleters[u]
      BY <2>2, <3>1
    <3> QED
      BY <3>3, <3>4
<1>4. DeletersOK'
  <2> SUFFICES ASSUME NEW u \in Types, NEW q \in Subclouds
               PROVE  /\ workers'[u][q] = "delete thread" =>
                           deleters'[u][q] = 1 /\ orch'[u].pc = "delete wait"
                      /\ workers'[u][q] # "delete thread" => deleters'[u][q] = 0
    BY DEF DeletersOK
  <2>1. CASE u = t /\ q = r
    BY <1>3, <2>1
  <2>2. CASE ~ (u = t /\ q = r)
    <3>1. workers'[u][q] = workers[u][q] /\ deleters'[u][q] = deleters[u][q]
      BY <1>3, <2>2
    <3> QED
      BY <1>1, <3>1, DeletersAre
  <2> QED
    BY <2>1, <2>2
<1>5. Tables'
  BY <1>1, TablesStay DEF IInv, Inv
<1> QED
  BY <1>1, <1>2, <1>4, <1>5, DeletingInv DEF DeleteLabels

-------------------------------------------------------------------------------
(* The greenthreads and the environment.                                   *)

\* The state a greenthread of a subcloud that is there works at.
LEMMA WorkerFacts ==
  ASSUME IInv, NEW t \in Types, NEW r \in Subclouds, NEW s \in StepStates,
         WorkerEnds(t, r, s), mgmt[r] # "deleted"
  PROVE  /\ live[t][r][s] = 1 /\ s \in WorkStates /\ steps[r].state = s
         /\ workers[t][r] = s /\ strategy[t].state \in Ongoing /\ Exists(t)
         /\ \E res \in Operators[t] \cup {"complete", "failed"} : SetStep(r, res)
<1>1. live[t][r][s] > 0
  BY DEF WorkerEnds
<1>2. /\ live[t][r][s] = 1 /\ s \in WorkStates /\ steps[r].state = s
      /\ workers[t][r] = s /\ strategy[t].state \in Ongoing
  BY <1>1 DEF IInv, Inv, WorkersOK
<1>3. steps[r] # NoStep
  <2>1. s # "none"
    BY <1>2, StatesApart
  <2>2. NoStep.state = "none"
    BY DEF NoStep
  <2> QED
    BY <1>2, <2>1, <2>2
<1>4. PICK res \in Results(t, s) : SetStep(r, res)
  BY <1>3 DEF WorkerEnds
<1>5. res \in Operators[t] \cup {"complete", "failed"}
  <2>1. ASSUME s \in Operators[t]
        PROVE  NextStates[t][s] \subseteq Operators[t] \cup {"complete"}
    BY <2>1, ConstantsAssumption DEF ConstantsAssumption
  <2> QED
    BY <1>4, <2>1 DEF Results
<1> QED
  BY <1>2, <1>4, <1>5 DEF Exists, Ongoing

\* A result is a state to work at, or a finished one that is not "aborted".
LEMMA ResultsApart ==
  ASSUME NEW t \in Types, NEW res \in Operators[t] \cup {"complete", "failed"}
  PROVE  /\ res \in WorkStates \cup Terminal
         /\ res \notin {"aborted", "initial", "none"}
<1>1. Operators[t] \subseteq WorkStates
  BY DEF WorkStates
<1> QED
  BY <1>1, StatesApart DEF Terminal

LEMMA WorkerInv ==
  ASSUME IInv, NEW t \in Types, NEW r \in Subclouds, NEW s \in StepStates,
         WorkerEnds(t, r, s)
  PROVE  Inv'
<1>1. /\ live[t][r][s] > 0
      /\ live' = [live EXCEPT ![t][r][s] = live[t][r][s] - 1]
      /\ UNCHANGED <<strategy, mgmt, orch, workers, deleters, creator>>
  BY DEF WorkerEnds, apiVars
<1>2. /\ \A x \in StepStates : x # s => live'[t][r][x] = live[t][r][x]
      /\ \A q \in Subclouds : q # r => live'[t][q] = live[t][q]
      /\ \A u \in Types : u # t => live'[u] = live[u]
  <2>1. live \in [Types -> [Subclouds -> [StepStates -> Nat]]]
    BY DEF IInv, TypeOK
  <2> QED
    BY <1>1, <2>1
<1>3. DeletersOK'
  BY <1>1, DeletersStay DEF IInv, Inv
<1>4. CASE mgmt[r] = "deleted"
  <2>1. UNCHANGED steps
    BY <1>4 DEF WorkerEnds, IInv, Inv, Tables, RowsFit
  <2>2. Tables' /\ StagesWhole'
    BY <1>1, <2>1, TablesStay, WholeStays DEF IInv, Inv
  <2>3. WorkersOK'
    <3> SUFFICES ASSUME NEW u \in Types, NEW q \in Subclouds, NEW x \in StepStates,
                        live'[u][q][x] > 0, mgmt'[q] # "deleted"
                 PROVE  /\ live'[u][q][x] = 1 /\ x \in WorkStates
                        /\ steps'[q].state = x /\ workers'[u][q] = x
                        /\ strategy'[u].state \in Ongoing
      BY DEF WorkersOK
    <3>1. live'[u][q][x] = live[u][q][x]
      BY <1>1, <1>2, <1>4
    <3> QED
      BY <1>1, <2>1, <3>1 DEF IInv, Inv, WorkersOK
  <2>4. \A u \in Types : ThreadOK(u)'
    BY <1>1, <2>1, ThreadsStay DEF IInv, Inv
  <2> QED
    BY <1>3, <2>2, <2>3, <2>4 DEF Inv
<1>5. CASE mgmt[r] # "deleted"
  <2>1. /\ live[t][r][s] = 1 /\ s \in WorkStates /\ steps[r].state = s
        /\ workers[t][r] = s /\ strategy[t].state \in Ongoing /\ Exists(t)
    BY <1>5, WorkerFacts
  <2>2. PICK res \in Operators[t] \cup {"complete", "failed"} : SetStep(r, res)
    BY <1>5, WorkerFacts
  <2>3. res \in WorkStates \cup Terminal /\ res \notin {"aborted", "initial", "none"}
    BY ResultsApart
  <2>4. /\ steps'[r].state = res /\ steps'[r].stage = steps[r].stage
        /\ \A q \in Subclouds : q # r => steps'[q] = steps[q]
    BY <2>2, StepSet DEF IInv
  <2>5. s \notin Terminal /\ s \notin {"aborted", "initial", "none"}
    BY <2>1, StatesApart
  <2>6. live'[t][r][s] = 0
    <3>1. live[t][r][s] - 1 = 0
      BY <2>1, OneIsNotZero, Zenon
    <3>2. live' = [live EXCEPT ![t][r][s] = 0]
      BY <1>1, <3>1, Zenon
    <3>3. live \in [Types -> [Subclouds -> [StepStates -> Nat]]]
      BY DEF IInv, TypeOK
    <3> QED
      BY <3>2, <3>3
  <2>7. Tables'
    <3>1. \A u \in Types : orch'[u].pc # "destroy"
      BY <1>1, <2>1, OthersAsleep DEF IInv, Inv, ThreadOK, ThreadFits, DeleteLabels, Ongoing
    <3>2. EarlierOver(steps[r].stage, strategy[t].stop)
      BY <2>1 DEF IInv, Inv, Tables, Staged
    <3> QED
      BY <1>1, <2>1, <2>2, <2>3, <3>1, <3>2, MoveTables
  <2>8. WorkersOK'
    <3> SUFFICES ASSUME NEW u \in Types, NEW q \in Subclouds, NEW x \in StepStates,
                        live'[u][q][x] > 0, mgmt'[q] # "deleted"
                 PROVE  /\ live'[u][q][x] = 1 /\ x \in WorkStates
                        /\ steps'[q].state = x /\ workers'[u][q] = x
                        /\ strategy'[u].state \in Ongoing
      BY DEF WorkersOK
    <3>1. ~ (u = t /\ q = r /\ x = s)
      BY <2>6
    <3>2. live'[u][q][x] = live[u][q][x]
      BY <1>2, <3>1
    <3>3. /\ live[u][q][x] = 1 /\ x \in WorkStates
          /\ steps[q].state = x /\ workers[u][q] = x
          /\ strategy[u].state \in Ongoing
      BY <1>1, <3>2 DEF IInv, Inv, WorkersOK
    <3>4. u = t
      BY <2>1, <3>3, OthersAsleep DEF Exists, Ongoing
    <3>5. q # r
      BY <2>1, <3>1, <3>3, <3>4
    <3> QED
      BY <1>1, <2>4, <3>2, <3>3, <3>5
  <2>9. StagesWhole'
    <3>1. ASSUME NEW q \in Subclouds, steps'[q].state = "aborted"
          PROVE  steps[q].state = "aborted"
      BY <2>3, <2>4, <3>1
    <3>2. ASSUME NEW q \in Subclouds, steps'[q].state \notin NotBegun \cup {"none"}
          PROVE  steps[q].state \notin NotBegun \cup {"none"}
      BY <2>1, <2>4, <2>5, <3>2 DEF NotBegun
    <3>3. ASSUME NEW q \in Subclouds, steps'[q].state \in NotBegun
          PROVE  steps[q].state \in NotBegun
      BY <2>3, <2>4, <3>3 DEF NotBegun
    <3>4. \A q \in Subclouds : steps'[q].stage = steps[q].stage
      BY <2>4
    <3>5. StagesWhole
      BY DEF IInv, Inv
    <3>6. ASSUME ClientsAbort, NEW q \in Subclouds, NEW u \in Types,
                 steps'[q].state = "aborted"
          PROVE  /\ strategy'[u].state # "applying"
                 /\ strategy'[u].state = "abort requested" =>
                      orch'[u].pc \in {"aborting", "abort end"}
      BY <1>1, <3>1, <3>5, <3>6 DEF StagesWhole
    <3>7. ASSUME ClientsAbort, NEW p \in Subclouds, NEW q \in Subclouds,
                 steps'[p].state \notin NotBegun \cup {"none"},
                 steps'[q].state \in NotBegun, steps'[p].stage = steps'[q].stage
          PROVE  \E u \in Types : orch'[u].pc = "stage" /\ orch'[u].stage = steps'[q].stage
      <4>1. /\ steps[p].state \notin NotBegun \cup {"none"}
            /\ steps[q].state \in NotBegun /\ steps[p].stage = steps[q].stage
            /\ steps'[q].stage = steps[q].stage
        BY <3>2, <3>3, <3>4, <3>7
      <4> QED
        BY <1>1, <3>5, <3>7, <4>1 DEF StagesWhole
    <3> QED
      BY <3>6, <3>7 DEF StagesWhole
  <2>10. StageFits(t)'
    <3> SUFFICES ASSUME orch[t].pc = "stage"
                 PROVE  StageFits(t)'
      BY <1>1 DEF StageFits
    <3>1. /\ EarlierOver(orch[t].stage, strategy[t].stop)
          /\ \A q \in Subclouds :
               steps[q].state # "none" /\ steps[q].stage = orch[t].stage =>
                 q \in InStage(t) /\ steps[q].state # "aborted"
          /\ \A q \in InStage(t) : StepFits(t, q, orch[t].snap[q].state)
      BY DEF IInv, Inv, ThreadOK, StageFits
    <3>2. InStage(t)' = InStage(t)
      BY <1>1 DEF InStage
    <3>3. EarlierOver(orch[t].stage, strategy[t].stop)'
      <4>1. ~ (steps[r].stage < orch[t].stage)
        BY <2>1, <2>5, <3>1 DEF EarlierOver
      <4> QED
        BY <1>1, <2>4, <3>1, <4>1 DEF EarlierOver
    <3>4. ASSUME NEW q \in InStage(t)
          PROVE  StepFits(t, q, orch[t].snap[q].state)'
      <4>1. q \in Subclouds /\ StepFits(t, q, orch[t].snap[q].state)
        BY <3>1 DEF InStage, Present
      <4>2. CASE q # r
        BY <1>1, <2>4, <4>1, <4>2 DEF StepFits
      <4>3. CASE q = r
        BY <1>1, <2>1, <2>3, <2>4, <2>5, <4>1, <4>3 DEF StepFits
      <4> QED
        BY <4>2, <4>3
    <3>5. ASSUME NEW q \in Subclouds, steps'[q].state # "none",
                 steps'[q].stage = orch[t].stage
          PROVE  q \in InStage(t) /\ steps'[q].state # "aborted"
      BY <2>1, <2>3, <2>4, <2>5, <3>1, <3>5
    <3> QED
      BY <1>1, <3>2, <3>3, <3>4, <3>5 DEF StageFits
  <2>11. AbortFits(t)'
    <3>1. ASSUME NEW q \in Subclouds
          PROVE  /\ steps'[q].state = "initial" => steps[q].state = "initial"
                 /\ steps[q].state \in {"none", "initial"} => steps'[q] = steps[q]
      BY <2>1, <2>3, <2>4, <2>5
    <3> QED
      BY <1>1, <3>1 DEF AbortFits, IInv, Inv, ThreadOK
  <2>12. OutcomeFits(t)'
    <3>1. ~ (Outcomes \subseteq Terminal \cup {"initial"})
      BY <2>1, NoOutcome
    <3>2. orch[t].pc \notin {"finish", "stop"}
      BY <3>1 DEF IInv, Inv, ThreadOK, OutcomeFits
    <3> QED
      BY <1>1, <3>2 DEF OutcomeFits
  <2>13. ThreadOK(t)'
    BY <1>1, <2>10, <2>11, <2>12 DEF IInv, Inv, ThreadOK, ThreadFits
  <2>14. \A u \in Types : ThreadOK(u)'
    BY <1>1, <2>1, <2>13, OthersOK
  <2> QED
    BY <1>3, <2>7, <2>8, <2>9, <2>14 DEF Inv
<1> QED
  BY <1>4, <1>5

LEMMA ManageInv ==
  ASSUME IInv, NEW r \in Subclouds, Unmanage(r) \/ Manage(r)
  PROVE  Inv'
<1>1. UNCHANGED <<strategy, steps, orch, workers, live, deleters, creator>>
  BY DEF Unmanage, Manage, workVars, apiVars
<1>2. \A q \in Subclouds : mgmt'[q] = "deleted" <=> mgmt[q] = "deleted"
  BY DEF Unmanage, Manage, IInv, TypeOK
<1>3. Tables'
  BY <1>1, <1>2 DEF Tables, RowsFit, Ascending, Creating, Staged, EarlierOver, NoAborts,
                    NoSteps, Exists, IInv, Inv
<1>4. WorkersOK'
  BY <1>1, <1>2 DEF WorkersOK, IInv, Inv
<1>5. DeletersOK' /\ StagesWhole'
  BY <1>1, DeletersStay, WholeStays DEF IInv, Inv
<1>6. ASSUME NEW t \in Types
      PROVE  ThreadOK(t)'
  <2>1. ThreadOK(t)
    BY DEF IInv, Inv
  <2>2. ThreadFits(t)' /\ AbortFits(t)'
    BY <1>1, <1>2, <2>1 DEF ThreadOK, ThreadFits, AbortFits
  <2>3. StageFits(t)'
    <3>1. InStage(t)' = InStage(t) /\ InStage(t) \subseteq Subclouds
      BY <1>1 DEF InStage, Present
    <3>2. ASSUME NEW q \in InStage(t), StepFits(t, q, orch[t].snap[q].state)
          PROVE  StepFits(t, q, orch[t].snap[q].state)'
      BY <1>1, <1>2, <3>1, <3>2 DEF StepFits
    <3> QED
      BY <1>1, <2>1, <3>1, <3>2 DEF ThreadOK, StageFits, EarlierOver
  <2>4. OutcomeFits(t)'
    <3>1. Outcomes' = Outcomes /\ Lost' = Lost
      BY <1>1 DEF Outcomes, Lost
    <3> QED
      BY <1>1, <2>1, <3>1 DEF ThreadOK, OutcomeFits
  <2> QED
    BY <2>2, <2>3, <2>4 DEF ThreadOK
<1> QED
  BY <1>3, <1>4, <1>5, <1>6 DEF Inv

\* A step goes with its subcloud; what it came to may count in the outcome.
LEMMA SubcloudInv ==
  ASSUME IInv, WholePasses, NEW r \in Deletable, r \in Subclouds, DeleteSubcloud(r)
  PROVE  Inv'
<1>1. /\ UNCHANGED <<strategy, orch, workers, live, deleters, creator>>
      /\ mgmt' = [mgmt EXCEPT ![r] = "deleted"]
      /\ steps' = [steps EXCEPT ![r] = NoStep]
  BY DEF DeleteSubcloud, workVars, apiVars
<1>2. /\ steps'[r] = NoStep /\ steps'[r].state = "none"
      /\ \A q \in Subclouds : q # r => steps'[q] = steps[q]
  BY <1>1 DEF IInv, TypeOK, NoStep
<1>3. /\ mgmt'[r] = "deleted"
      /\ \A q \in Subclouds : q # r => mgmt'[q] = mgmt[q]
  BY <1>1 DEF IInv, TypeOK
<1>4. Tables'
  <2>1. RowsFit'
    BY <1>1, <1>2, <1>3 DEF RowsFit, NoSteps, IInv, Inv, Tables, Exists
  <2>2. \A q \in Subclouds : steps'[q].state # "none" => steps'[q] = steps[q]
    BY <1>2
  <2>3. Ascending' /\ Creating' /\ NoAborts'
    BY <1>1, <2>2 DEF Ascending, Creating, NoAborts, IInv, Inv, Tables
  <2>4. Staged'
    BY <1>1, <2>2, StatesApart DEF Staged, EarlierOver, IInv, Inv, Tables, Exists
  <2> QED
    BY <2>1, <2>3, <2>4 DEF Tables
<1>5. WorkersOK'
  BY <1>1, <1>2, <1>3 DEF WorkersOK, IInv, Inv
<1>6. DeletersOK'
  BY <1>1, DeletersStay DEF IInv, Inv
<1>7. StagesWhole'
  BY DEF StagesWhole, WholePasses
<1>8. ASSUME NEW t \in Types
      PROVE  ThreadOK(t)'
  <2>1. ThreadOK(t)
    BY DEF IInv, Inv
  <2>2. ThreadFits(t)' /\ AbortFits(t)'
    <3>1. \A q \in Subclouds :
            /\ steps'[q].state = "initial" => steps[q].state = "initial"
            /\ steps[q].state \in {"none", "initial"} => steps'[q].state \in {"none", "initial"}
            /\ \/ steps'[q].state = "none" /\ mgmt'[q] = "deleted"
               \/ steps'[q].state = steps[q].state /\ mgmt'[q] = mgmt[q]
      BY <1>2, <1>3
    <3>2. AbortFits(t)
      BY <2>1 DEF ThreadOK
    <3>3. AbortFits(t)'
      BY <1>1, <3>1, <3>2 DEF AbortFits
    <3> QED
      BY <1>1, <2>1, <3>3 DEF ThreadOK, ThreadFits
  <2>3. StageFits(t)'
    <3>1. InStage(t)' = InStage(t) /\ InStage(t) \subseteq Subclouds
      BY <1>1 DEF InStage, Present
    <3>2. ASSUME NEW q \in InStage(t), StepFits(t, q, orch[t].snap[q].state)
          PROVE  StepFits(t, q, orch[t].snap[q].state)'
      <4>1. CASE q = r
        BY <1>1, <1>2, <1>3, <3>2, <4>1 DEF StepFits
      <4>2. CASE q # r
        <5>1. steps'[q] = steps[q] /\ mgmt'[q] = mgmt[q]
          BY <1>2, <1>3, <3>1, <4>2
        <5> QED
          BY <1>1, <3>2, <5>1 DEF StepFits
      <4> QED
        BY <4>1, <4>2
    <3>3. \A q \in Subclouds : steps'[q].state # "none" => steps'[q] = steps[q]
      BY <1>2
    <3> QED
      BY <1>1, <2>1, <3>1, <3>2, <3>3 DEF ThreadOK, StageFits, EarlierOver
  <2>4. OutcomeFits(t)'
    <3>1. Lost'
      BY <1>2 DEF Lost
    <3>2. /\ Outcomes' \subseteq Outcomes
          /\ Outcomes' \cup (IF steps[r].state = "none" THEN {} ELSE {steps[r].state})
               = Outcomes
      BY <1>2 DEF Outcomes
    <3>3. ASSUME orch[t].pc = "finish"
          PROVE  /\ Outcomes' \subseteq Terminal
                 /\ \E lost \in SUBSET Terminal :
                      orch[t].verdict = Lifecycle!Overall(Outcomes' \cup lost)
      <4>1. PICK lost \in SUBSET Terminal :
                   orch[t].verdict = Lifecycle!Overall(Outcomes \cup lost)
        BY <2>1, <3>3 DEF ThreadOK, OutcomeFits
      <4>2. Outcomes \subseteq Terminal
        BY <2>1, <3>3 DEF ThreadOK, OutcomeFits
      <4> DEFINE more == lost \cup (IF steps[r].state = "none" THEN {} ELSE {steps[r].state})
      <4>3. more \in SUBSET Terminal /\ Outcomes' \cup more = Outcomes \cup lost
        BY <3>2, <4>2
      <4> QED
        BY <3>2, <4>1, <4>2, <4>3
    <3>4. ASSUME orch[t].pc = "stop"
          PROVE  /\ strategy[t].stop /\ orch[t].verdict = "failed"
                 /\ Outcomes' \subseteq Terminal \cup {"initial"}
      BY <2>1, <3>2, <3>4 DEF ThreadOK, OutcomeFits
    <3> QED
      BY <1>1, <3>1, <3>3, <3>4 DEF OutcomeFits
  <2> QED
    BY <2>2, <2>3, <2>4 DEF ThreadOK
<1> QED
  BY <1>4, <1>5, <1>6, <1>7, <1>8 DEF Inv

LEMMA RestartInv ==
  ASSUME IInv, WholePasses, Restart
  PROVE  Inv'
<1>1. /\ UNCHANGED <<strategy, steps, mgmt>>
      /\ \A t \in Types : orch'[t].pc = "asleep" /\ creator'[t].pc = "none"
      /\ \A t \in Types, r \in Subclouds :
           workers'[t][r] = "none" /\ deleters'[t][r] = 0
  BY DEF Restart, dbVars, Asleep, NoCreate
<1>2. ~ClientsAbort
  <2>1. restarts < MaxRestarts /\ restarts \in Nat
    BY DEF Restart, IInv, TypeOK
  <2> QED
    BY <2>1 DEF WholePasses
<1>3. Tables'
  <2>1. Tables
    BY DEF IInv, Inv
  <2>2. strategy' = strategy /\ steps' = steps /\ mgmt' = mgmt
    BY <1>1
  <2>3. Creating'
    BY <1>1 DEF Creating
  <2>4. ASSUME NEW t \in Types
        PROVE  orch'[t].pc # "destroy"
    BY <1>1
  <2>5. RowsFit'
    BY <2>1, <2>2, <2>4 DEF Tables, RowsFit, NoSteps, Exists
  <2>6. Ascending'
    BY <2>1, <2>2 DEF Tables, Ascending
  <2>7. Staged'
    BY <2>1, <2>2 DEF Tables, Staged, EarlierOver, Exists
  <2>8. NoAborts'
    BY <2>1, <2>2 DEF Tables, NoAborts
  <2> QED
    BY <2>3, <2>5, <2>6, <2>7, <2>8 DEF Tables
<1>4. WorkersOK'
  <2>1. \A t \in Types, r \in Subclouds, s \in StepStates : live'[t][r][s] = 0
    BY DEF Restart
  <2>2. \A t \in Types, r \in Subclouds, s \in StepStates : ~ (live'[t][r][s] > 0)
    BY <2>1
  <2> QED
    BY <2>2 DEF WorkersOK
<1>5. DeletersOK'
  BY <1>1 DEF DeletersOK
<1>6. StagesWhole'
  BY <1>2 DEF StagesWhole
<1>7. \A t \in Types : ThreadOK(t)'
  BY <1>1, AsleepOK
<1> QED
  BY <1>3, <1>4, <1>5, <1>6, <1>7 DEF Inv

-------------------------------------------------------------------------------
(* The invariant holds, and what it says of the workers.                   *)

LEMMA InvAtFirst == Init => Inv
<1> SUFFICES ASSUME Init
             PROVE  Inv
  OBVIOUS
<1>1. /\ \A t \in Types : /\ strategy[t] = NoStrategy /\ strategy[t].state = "none"
                          /\ orch[t].pc = "asleep" /\ creator[t].pc = "none"
      /\ \A r \in Subclouds : /\ steps[r] = NoStep /\ steps[r].state = "none"
                              /\ mgmt[r] # "deleted"
      /\ \A t \in Types, r \in Subclouds : workers[t][r] = "none" /\ deleters[t][r] = 0
  BY DEF Init, NoStrategy, NoStep, Asleep, NoCreate
<1>2. Tables
  BY <1>1, StatesApart DEF Tables, RowsFit, Ascending, Creating, Staged, NoAborts, NoSteps
<1>3. WorkersOK
  <2>1. \A t \in Types, r \in Subclouds, s \in StepStates : live[t][r][s] = 0
    BY DEF Init
  <2>2. \A t \in Types, r \in Subclouds, s \in StepStates : ~ (live[t][r][s] > 0)
    BY <2>1
  <2> QED
    BY <2>2 DEF WorkersOK
<1>4. DeletersOK
  BY <1>1 DEF DeletersOK
<1>5. StagesWhole
  BY <1>1 DEF StagesWhole, NotBegun
<1>6. \A t \in Types : ThreadOK(t)
  BY <1>1 DEF ThreadOK, ThreadFits, StageFits, AbortFits, OutcomeFits, ApplyLabels,
              AbortLabels, DeleteLabels
<1> QED
  BY <1>2, <1>3, <1>4, <1>5, <1>6 DEF Inv

LEMMA ThreadInv ==
  ASSUME ~SlowDelete, WholePasses, IInv, NEW t \in Types, OrchThread(t)
  PROVE  Inv'
<1>1. ASSUME NEW r \in Subclouds,
             \/ VisitFinished(t, r) \/ VisitUnmanaged(t, r) \/ VisitInitial(t, r)
             \/ VisitInProgress(t, r) \/ VisitGone(t, r)
      PROVE  Inv'
  BY <1>1, FinishedInv, UnmanagedInv, InitialInv, InProgressInv, GoneInv
<1>2. CASE \/ LoopRead(t) \/ PreApplySetup(t) \/ FinishFails(t) \/ DestroyFails(t)
           \/ ApplyRead(t) \/ Finish(t) \/ StopOnFailure(t)
  BY <1>2, LoopInv, ApplyInv, FinishInv
<1>3. CASE \/ AbortRead(t) \/ AbortStep(t) \/ AbortEnd(t)
           \/ DeleteRead(t) \/ DestroySteps(t) \/ DestroyStrategy(t)
  BY <1>3, AbortReadInv, AbortStepInv, AbortEndInv, DeleteReadInv, DestroyStepsInv,
     DestroyInv
<1> QED
  BY <1>1, <1>2, <1>3 DEF OrchThread

LEMMA InvKept ==
  ASSUME SerialApi, ~SlowDelete, WholePasses, IInv, [Next]_vars
  PROVE  IInv'
<1>1. TypeOK' /\ AtMostOneStrategy' /\ CreateAlone'
  BY TypesKept, OneKept DEF IInv
<1>2. CASE UNCHANGED vars
  <2>1. UNCHANGED <<strategy, steps, mgmt, orch, workers, live, deleters, creator>>
    BY <1>2 DEF vars, dbVars, workVars, apiVars
  <2>2. Creating'
    BY <2>1 DEF Creating, IInv, Inv, Tables
  <2> QED
    BY <1>1, <2>1, <2>2, OnlyCreator DEF IInv
<1>3. ASSUME NEW t \in Types, Api(t) \/ CreateProgress(t)
      PROVE  Inv'
  BY <1>3, ApiInv
<1>4. ASSUME NEW t \in Types, OrchThread(t)
      PROVE  Inv'
  BY <1>4, ThreadInv
<1>5. ASSUME NEW t \in Types, NEW r \in Subclouds, Worker(t, r) \/ DeleterEnds(t, r)
      PROVE  Inv'
  BY <1>5, WorkerInv, DeleterInv DEF Worker
<1>6. ASSUME Environment
      PROVE  Inv'
  <2>1. Touchable \subseteq Subclouds /\ Deletable \subseteq Subclouds
    BY ConstantsAssumption DEF ConstantsAssumption
  <2>2. ASSUME NEW r \in Touchable, Unmanage(r) \/ Manage(r)
        PROVE  Inv'
    BY <2>1, <2>2, ManageInv
  <2>3. ASSUME NEW r \in Deletable, DeleteSubcloud(r)
        PROVE  Inv'
    BY <2>1, <2>3, SubcloudInv
  <2> QED
    BY <1>6, <2>2, <2>3 DEF Environment
<1>7. ASSUME Restart
      PROVE  Inv'
  BY <1>7, RestartInv
<1>8. CASE Next
  BY <1>1, <1>3, <1>4, <1>5, <1>6, <1>7, <1>8 DEF Next, IInv
<1> QED
  BY <1>2, <1>8

LEMMA AlwaysInv ==
  ASSUME SerialApi, ~SlowDelete, WholePasses
  PROVE  Spec => []IInv
<1>1. Init => IInv
  BY TypesAtFirst, OneAtFirst, InvAtFirst DEF IInv
<1>2. IInv /\ [Next]_vars => IInv'
  BY InvKept
<1> QED
  BY <1>1, <1>2, PTL DEF Spec

(* No subcloud is ever worked on twice, and the greenthread of a subcloud  *)
(* works at the state the step shows: a delete waits for its threads, no   *)
(* request overlaps a create, and what the thread read earlier in its pass *)
(* does not mislead it, whatever moves on or is deleted meanwhile.         *)
THEOREM OneWorkerAtATime ==
  ASSUME SerialApi, ~SlowDelete, WholePasses
  PROVE  Spec => []OneWorkerPerSubcloud
<1>1. IInv => OneWorkerPerSubcloud
  <2> SUFFICES ASSUME IInv, NEW t \in Types, NEW r \in Subclouds, steps[r] # NoStep,
                      NEW s \in Running(t, r)
               PROVE  live[t][r][s] = 1 /\ steps[r].state = s
    BY DEF OneWorkerPerSubcloud
  <2>1. s \in StepStates /\ live[t][r][s] > 0
    BY DEF Running
  <2>2. mgmt[r] # "deleted"
    BY DEF IInv, Inv, Tables, RowsFit
  <2> QED
    BY <2>1, <2>2 DEF IInv, Inv, WorkersOK
<1> QED
  BY <1>1, AlwaysInv, PTL

-------------------------------------------------------------------------------
(* What a client sees.                                                     *)

Shown(s) == IF s \in WorkStates THEN "working" ELSE s

LEMMA ShownApart ==
  \A s : /\ Shown(s) = "none" <=> s = "none"
         /\ Shown(s) = "initial" <=> s = "initial"
         /\ Shown(s) \in Terminal <=> s \in Terminal
         /\ s \notin WorkStates => Shown(s) = s
         /\ s \in WorkStates => Shown(s) = "working"
BY StatesApart DEF Shown, Terminal

LEMMA StepsShown ==
  ASSUME TypeOK
  PROVE  /\ ShownSteps = [r \in Subclouds |-> [stage |-> steps[r].stage,
                                               state |-> Shown(steps[r].state)]]
         /\ \A r \in Subclouds : /\ ShownSteps[r].stage = steps[r].stage
                                 /\ ShownSteps[r].state = Shown(steps[r].state)
<1>1. ASSUME NEW r \in Subclouds
      PROVE  [steps[r] EXCEPT !.state = IF @ \in WorkStates THEN "working" ELSE @]
               = [stage |-> steps[r].stage, state |-> Shown(steps[r].state)]
  <2>1. steps[r] \in Steps
    BY DEF TypeOK
  <2> QED
    BY <2>1 DEF Steps, Shown
<1>2. ShownSteps = [r \in Subclouds |-> [stage |-> steps[r].stage,
                                         state |-> Shown(steps[r].state)]]
  BY <1>1 DEF ShownSteps
<1> QED
  BY <1>2

LEMMA StepsShownNext ==
  ASSUME TypeOK'
  PROVE  ShownSteps' = [r \in Subclouds |-> [stage |-> steps'[r].stage,
                                             state |-> Shown(steps'[r].state)]]
<1>1. ASSUME NEW r \in Subclouds
      PROVE  [steps'[r] EXCEPT !.state = IF @ \in WorkStates THEN "working" ELSE @]
               = [stage |-> steps'[r].stage, state |-> Shown(steps'[r].state)]
  <2>1. steps'[r] \in Steps
    BY DEF TypeOK
  <2> QED
    BY <2>1 DEF Steps, Shown
<1> QED
  BY <1>1 DEF ShownSteps

LEMMA StrategyShown ==
  ASSUME AtMostOneStrategy, NEW t \in Types, Exists(t)
  PROVE  ShownStrategy = strategy[t]
BY DEF ShownStrategy, AtMostOneStrategy

LEMMA StrategyShownNext ==
  ASSUME AtMostOneStrategy', NEW t \in Types, Exists(t)'
  PROVE  ShownStrategy' = strategy'[t]
<1>1. \A u \in Types : strategy'[u].state # "none" => u = t
  BY DEF AtMostOneStrategy, Exists
<1>2. t = CHOOSE u \in Types : strategy'[u].state # "none"
  BY <1>1 DEF Exists
<1>3. \E u \in Types : strategy'[u].state # "none"
  BY DEF Exists
<1> QED
  BY <1>2, <1>3 DEF ShownStrategy, Exists

LEMMA NothingShown ==
  ASSUME \A t \in Types : ~Exists(t)
  PROVE  ShownStrategy = NoStrategy
BY DEF ShownStrategy

\* What leaves the tables alone shows nothing.
LEMMA Unseen == UNCHANGED <<strategy, steps>> => UNCHANGED Lifecycle!vars
BY DEF ShownSteps, ShownStrategy, Lifecycle!vars, Exists

LEMMA StrategyStill == UNCHANGED strategy => UNCHANGED ShownStrategy
BY DEF ShownStrategy, Exists

LEMMA StepsStill == UNCHANGED steps => UNCHANGED ShownSteps
BY DEF ShownSteps

\* The strategy changes its state, and shows it.
LEMMA BecomesShown ==
  ASSUME IInv, IInv', NEW t \in Types, NEW s, s # "none", Exists(t), SetStrategy(t, s)
  PROVE  Lifecycle!Becomes(s) /\ ShownStrategy = strategy[t]
<1>1. /\ strategy'[t] = [state |-> s, stop |-> strategy[t].stop]
      /\ strategy'[t].state = s
  BY StrategySet DEF IInv
<1>2. ShownStrategy = strategy[t] /\ ShownStrategy' = strategy'[t]
  BY <1>1, StrategyShown, StrategyShownNext DEF IInv, Exists
<1>3. [strategy[t] EXCEPT !.state = s] = [state |-> s, stop |-> strategy[t].stop]
  <2>1. strategy[t] \in StrategyRows
    BY DEF IInv, TypeOK
  <2> QED
    BY <2>1 DEF StrategyRows
<1> QED
  BY <1>1, <1>2, <1>3 DEF Lifecycle!Becomes

\* A step changes its state, and shows it.
LEMMA MovesShown ==
  ASSUME TypeOK, TypeOK', NEW r \in Subclouds, NEW s, SetStep(r, s), UNCHANGED strategy
  PROVE  Lifecycle!Moves(r, Shown(s))
<1>1. /\ steps'[r].state = s /\ steps'[r].stage = steps[r].stage
      /\ \A q \in Subclouds : q # r => steps'[q] = steps[q]
  BY StepSet
<1>2. ShownSteps' = [ShownSteps EXCEPT ![r].state = Shown(s)]
  <2>1. ShownSteps = [q \in Subclouds |-> [stage |-> steps[q].stage,
                                           state |-> Shown(steps[q].state)]]
    BY StepsShown
  <2>2. ShownSteps' = [q \in Subclouds |-> [stage |-> steps'[q].stage,
                                            state |-> Shown(steps'[q].state)]]
    BY StepsShownNext
  <2>3. [ShownSteps EXCEPT ![r].state = Shown(s)]
          = [q \in Subclouds |-> IF q = r THEN [ShownSteps[r] EXCEPT !.state = Shown(s)]
                                 ELSE ShownSteps[q]]
    BY <2>1
  <2>4. [ShownSteps[r] EXCEPT !.state = Shown(s)]
          = [stage |-> steps[r].stage, state |-> Shown(s)]
    BY <2>1
  <2>5. ASSUME NEW q \in Subclouds
        PROVE  [stage |-> steps'[q].stage, state |-> Shown(steps'[q].state)]
                 = IF q = r THEN [ShownSteps[r] EXCEPT !.state = Shown(s)] ELSE ShownSteps[q]
    <3>1. CASE q = r
      BY <1>1, <2>4, <3>1
    <3>2. CASE q # r
      BY <1>1, <2>1, <3>2
    <3> QED
      BY <3>1, <3>2
  <2> QED
    BY <2>2, <2>3, <2>5
<1> QED
  BY <1>2, StrategyStill DEF Lifecycle!Moves

\* What the abstract state sets are.
LEMMA InShown ==
  ASSUME TypeOK
  PROVE  /\ Lifecycle!Present = {r \in Subclouds : steps[r].state # "none"}
         /\ \A S : Lifecycle!In(S) = {r \in Subclouds : steps[r].state # "none"
                                                        /\ Shown(steps[r].state) \in S}
<1>1. \A r \in Subclouds : ShownSteps[r].state = Shown(steps[r].state)
  BY StepsShown
<1>2. Lifecycle!Present = {r \in Subclouds : steps[r].state # "none"}
  BY <1>1, ShownApart DEF Lifecycle!Present
<1> QED
  BY <1>1, <1>2 DEF Lifecycle!In

-------------------------------------------------------------------------------
(* Every step is one of the abstract specification, or shows nothing.      *)

Seen == Lifecycle!Next \/ UNCHANGED Lifecycle!vars

LEMMA RowSeen ==
  ASSUME IInv, IInv', NEW t \in Types, CreateRow(t)
  PROVE  Seen
<1>1. \A u \in Types : ~Exists(u)
  BY DEF CreateRow, CreateAlone, IInv
<1>2. PICK stop \in StopChoices :
         strategy' = [strategy EXCEPT ![t] = [state |-> "initial", stop |-> stop]]
  BY <1>1 DEF CreateRow
<1>3. strategy'[t] = [state |-> "initial", stop |-> stop] /\ UNCHANGED steps
  BY <1>2 DEF CreateRow, IInv, TypeOK
<1>4. stop \in BOOLEAN
  BY ConstantsAssumption DEF ConstantsAssumption
<1>5. ShownStrategy = NoStrategy
  BY <1>1, NothingShown
<1>6. ShownStrategy' = [state |-> "initial", stop |-> stop]
  BY <1>3, StrategyShownNext DEF Exists, IInv
<1>7. Lifecycle!Create
  BY <1>3, <1>4, <1>5, <1>6, StepsStill DEF Lifecycle!Create, NoStrategy, Lifecycle!NoStrategy
<1> QED
  BY <1>7 DEF Seen, Lifecycle!Next

LEMMA StepSeen ==
  ASSUME IInv, IInv', NEW t \in Types, CreateStep(t)
  PROVE  Seen
<1> DEFINE r == creator[t].next
           n == creator[t].acc.counter
<1>1. r \in Subclouds /\ n \in Nat
  BY TypesOf DEF Typed, IInv, StageCounters
<1>2. UNCHANGED strategy /\ creator[t].pc = "subcloud"
  BY DEF CreateStep
<1>3. /\ strategy[t].state = "initial"
      /\ \A q \in Subclouds : steps[q].state # "none" => steps[q].stage <= n
  BY <1>2 DEF Creating, IInv, Inv, Tables
<1>4. CASE steps[r] = NoStep /\ mgmt[r] # "deleted"
  <2>1. steps' = [steps EXCEPT ![r] = [stage |-> n, state |-> "initial"]]
    BY <1>4 DEF CreateStep
  <2>2. /\ steps'[r] = [stage |-> n, state |-> "initial"]
        /\ \A q \in Subclouds : q # r => steps'[q] = steps[q]
    BY <1>1, <2>1 DEF IInv, TypeOK
  <2>3. Shown("initial") = "initial" /\ Shown("none") = "none"
    BY ShownApart
  <2>4. ShownSteps[r] = NoStep
    <3>1. ShownSteps[r] = [stage |-> steps[r].stage, state |-> Shown(steps[r].state)]
      BY <1>1, StepsShown DEF IInv
    <3> QED
      BY <1>4, <2>3, <3>1 DEF NoStep
  <2>5. ShownSteps'[r] = [stage |-> n, state |-> "initial"]
    <3>1. ShownSteps'[r] = [stage |-> steps'[r].stage, state |-> Shown(steps'[r].state)]
      BY <1>1, StepsShownNext DEF IInv
    <3> QED
      BY <2>2, <2>3, <3>1
  <2>6. ShownSteps' = [ShownSteps EXCEPT ![r] = [stage |-> n, state |-> "initial"]]
    <3>1. ASSUME NEW q \in Subclouds, q # r
          PROVE  ShownSteps'[q] = ShownSteps[q]
      BY <2>2, <3>1, StepsShown, StepsShownNext DEF IInv
    <3>2. /\ ShownSteps' = [q \in Subclouds |-> ShownSteps'[q]]
          /\ ShownSteps = [q \in Subclouds |-> ShownSteps[q]]
      BY StepsShown, StepsShownNext DEF IInv
    <3> QED
      BY <2>5, <3>1, <3>2
  <2>7. ShownStrategy.state = "initial" /\ UNCHANGED ShownStrategy
    BY <1>2, <1>3, StrategyShown, StrategyStill DEF IInv, Exists
  <2>8. \A q \in Lifecycle!Present : ShownSteps[q].stage <= n
    BY <1>3, InShown, StepsShown DEF IInv
  <2>9. Lifecycle!AddStep(r)
    <3>1. ShownSteps'[r].stage = n
      BY <2>5
    <3> HIDE DEF n, r
    <3> QED
      BY <1>1, <2>4, <2>6, <2>7, <2>8, <3>1 DEF Lifecycle!AddStep, NoStep, Lifecycle!NoStep
  <2> QED
    BY <1>1, <2>9 DEF Seen, Lifecycle!Next
<1>5. CASE ~ (steps[r] = NoStep /\ mgmt[r] # "deleted")
  <2>1. UNCHANGED steps
    BY <1>5 DEF CreateStep
  <2> QED
    BY <1>2, <2>1, Unseen DEF Seen
<1> QED
  BY <1>4, <1>5

\* The writes of the strategy alone.
LEMMA RequestSeen ==
  ASSUME IInv, IInv', NEW t \in Types,
         ApplyStrategy(t) \/ AbortStrategy(t) \/ DeleteStrategy(t) \/ CreateEnd(t)
  PROVE  Seen
<1>1. UNCHANGED steps
  BY DEF ApplyStrategy, AbortStrategy, DeleteStrategy, CreateEnd
<1>2. CASE ApplyStrategy(t)
  <2>1. strategy[t].state = "initial" /\ SetStrategy(t, "applying") /\ Exists(t)
    BY <1>2 DEF ApplyStrategy, Exists
  <2>2. Lifecycle!Apply
    BY <1>1, <2>1, BecomesShown, StepsStill DEF Lifecycle!Apply
  <2> QED
    BY <2>2 DEF Seen, Lifecycle!Next
<1>3. CASE AbortStrategy(t)
  <2>1. PICK u \in Types : Exists(u) /\ SetStrategy(u, "abort requested")
    BY <1>3 DEF AbortStrategy
  <2>2. strategy[t].state = "applying" /\ Exists(t)
    BY <1>3 DEF AbortStrategy, Exists
  <2>3. u = t
    BY <2>1, <2>2 DEF IInv, AtMostOneStrategy
  <2>4. Lifecycle!Abort
    BY <1>1, <2>1, <2>2, <2>3, BecomesShown, StepsStill DEF Lifecycle!Abort
  <2> QED
    BY <2>4 DEF Seen, Lifecycle!Next
<1>4. ASSUME SetStrategy(t, "deleting"),
             strategy[t].state \in {"initial", "complete", "failed", "aborted"}
      PROVE  Seen
  <2>1. Exists(t)
    BY <1>4 DEF Exists
  <2>2. Lifecycle!Delete
    BY <1>1, <1>4, <2>1, BecomesShown, StepsStill DEF Lifecycle!Delete, Lifecycle!Finished
  <2> QED
    BY <2>2 DEF Seen, Lifecycle!Next
<1>5. CASE DeleteStrategy(t)
  BY <1>4, <1>5 DEF DeleteStrategy
<1>6. CASE CreateEnd(t)
  <2>1. strategy[t].state = "initial"
    BY <1>6 DEF CreateEnd, Creating, IInv, Inv, Tables
  <2>2. CASE SetStrategy(t, "deleting")
    BY <1>4, <2>1, <2>2
  <2>3. CASE UNCHANGED strategy
    BY <1>1, <2>3, Unseen DEF Seen
  <2> QED
    BY <1>6, <2>2, <2>3 DEF CreateEnd
<1> QED
  BY <1>2, <1>3, <1>5, <1>6

LEMMA ApiSeen ==
  ASSUME IInv, IInv', NEW t \in Types, Api(t) \/ CreateProgress(t)
  PROVE  Seen
<1>1. CASE CreateCheck(t) \/ CreateGroup(t) \/ CreateSkip(t)
  <2>1. UNCHANGED <<strategy, steps>>
    BY <1>1 DEF CreateCheck, CreateGroup, CreateSkip, dbVars
  <2> QED
    BY <2>1, Unseen DEF Seen
<1> QED
  BY <1>1, RowSeen, StepSeen, RequestSeen DEF Api, CreateProgress

LEMMA DueShown ==
  ASSUME IInv, NEW t \in Types, NEW r \in Subclouds, Visiting(t, r),
         orch[t].snap[r].state = "initial", steps[r] # NoStep
  PROVE  Lifecycle!Due(r)
<1>1. /\ steps[r].state = "initial"
      /\ EarlierOver(steps[r].stage, strategy[t].stop)
      /\ strategy[t].state \in {"applying", "abort requested"}
  BY StartFacts
<1>2. ShownStrategy = strategy[t]
  BY <1>1, StrategyShown DEF IInv, Exists
<1>3. /\ \A q \in Subclouds : ShownSteps[q].stage = steps[q].stage
      /\ \A S : Lifecycle!In(S) = {q \in Subclouds : steps[q].state # "none"
                                                     /\ Shown(steps[q].state) \in S}
      /\ Lifecycle!Present = {q \in Subclouds : steps[q].state # "none"}
  BY StepsShown, InShown DEF IInv
<1>4. r \in Lifecycle!In({"initial"})
  BY <1>1, <1>3, ShownApart
<1>5. ASSUME NEW q \in Lifecycle!Present, ShownSteps[q].stage < ShownSteps[r].stage
      PROVE  /\ q \in Lifecycle!In(Lifecycle!Finished)
             /\ strategy[t].stop => q \notin Lifecycle!In({"failed"})
  <2>1. /\ q \in Subclouds /\ steps[q].state # "none"
        /\ steps[q].state \in Terminal /\ (strategy[t].stop => steps[q].state # "failed")
    BY <1>1, <1>3, <1>5 DEF EarlierOver
  <2>2. Shown(steps[q].state) = steps[q].state
    BY <2>1, StatesApart, ShownApart
  <2>3. Terminal = Lifecycle!Finished
    BY DEF Terminal, Lifecycle!Finished
  <2> QED
    BY <1>3, <2>1, <2>2, <2>3
<1> QED
  BY <1>1, <1>2, <1>4, <1>5 DEF Lifecycle!Due

LEMMA VisitSeen ==
  ASSUME IInv, IInv', NEW t \in Types, NEW r \in Subclouds,
         \/ VisitFinished(t, r) \/ VisitUnmanaged(t, r) \/ VisitInitial(t, r)
         \/ VisitInProgress(t, r) \/ VisitGone(t, r)
  PROVE  Seen
<1>1. CASE VisitFinished(t, r) \/ VisitInProgress(t, r) \/ VisitGone(t, r)
  <2>1. UNCHANGED <<strategy, steps>>
    BY <1>1 DEF VisitFinished, VisitInProgress, VisitGone, dbVars
  <2> QED
    BY <2>1, Unseen DEF Seen
<1>2. CASE VisitInitial(t, r)
  <2>1. /\ Lifecycle!Due(r) /\ SetStep(r, StartingState[t]) /\ UNCHANGED strategy
    BY <1>2, DueShown DEF VisitInitial
  <2>2. Shown(StartingState[t]) = "working"
    BY ShownApart, ConstantsAssumption DEF ConstantsAssumption
  <2>3. Lifecycle!Moves(r, "working")
    BY <2>1, <2>2, MovesShown DEF IInv
  <2> QED
    BY <2>1, <2>3 DEF Seen, Lifecycle!Next, Lifecycle!Start
<1>3. CASE VisitUnmanaged(t, r)
  <2>1. /\ Lifecycle!Due(r) /\ SetStep(r, "failed") /\ UNCHANGED strategy
    BY <1>3, DueShown DEF VisitUnmanaged
  <2>2. Shown("failed") = "failed"
    BY StatesApart, ShownApart
  <2>3. Lifecycle!Moves(r, "failed")
    BY <2>1, <2>2, MovesShown DEF IInv
  <2> QED
    BY <2>1, <2>3 DEF Seen, Lifecycle!Next, Lifecycle!Refuse
<1> QED
  BY <1>1, <1>2, <1>3

LEMMA AbortSeen ==
  ASSUME IInv, IInv', NEW t \in Types, AbortRead(t) \/ AbortStep(t) \/ AbortEnd(t)
  PROVE  Seen
<1>1. CASE AbortRead(t)
  BY <1>1, Unseen DEF Seen, AbortRead, dbVars
<1>2. CASE AbortStep(t)
  <2> DEFINE r == orch[t].cursor
  <2>1. /\ r \in Subclouds /\ steps[r].state = "initial"
        /\ strategy[t].state = "abort requested" /\ Exists(t)
    BY <1>2, WithdrawFacts
  <2>2. SetStep(r, "aborted") /\ UNCHANGED strategy
    BY <1>2 DEF AbortStep
  <2> HIDE DEF r
  <2>3. Shown("aborted") = "aborted" /\ Shown("initial") = "initial"
    BY StatesApart, ShownApart
  <2>4. Lifecycle!Moves(r, "aborted")
    BY <2>1, <2>2, <2>3, MovesShown DEF IInv
  <2>5. r \in Lifecycle!In({"initial"})
    BY <2>1, <2>3, InShown DEF IInv
  <2>6. ShownStrategy = strategy[t]
    BY <2>1, StrategyShown DEF IInv
  <2> QED
    BY <2>1, <2>4, <2>5, <2>6 DEF Seen, Lifecycle!Next, Lifecycle!Withdraw
<1>3. CASE AbortEnd(t)
  <2>1. orch[t].pc = "abort end" /\ SetStrategy(t, "aborting") /\ UNCHANGED steps
    BY <1>3 DEF AbortEnd
  <2>2. /\ strategy[t].state = "abort requested" /\ Exists(t)
        /\ \A r \in Subclouds : steps[r].state # "initial"
    BY <2>1 DEF IInv, Inv, ThreadOK, ThreadFits, AbortFits, AbortLabels, Exists
  <2>3. Lifecycle!In({"initial"}) = {}
    <3>1. \A r \in Subclouds : Shown(steps[r].state) # "initial"
      BY <2>2, ShownApart
    <3>2. Lifecycle!In({"initial"}) = {r \in Subclouds : steps[r].state # "none"
                                          /\ Shown(steps[r].state) \in {"initial"}}
      BY InShown DEF IInv
    <3> QED
      BY <3>1, <3>2
  <2>4. Lifecycle!BeginAbort
    BY <2>1, <2>2, <2>3, BecomesShown, StepsStill DEF Lifecycle!BeginAbort
  <2> QED
    BY <2>4 DEF Seen, Lifecycle!Next
<1> QED
  BY <1>1, <1>2, <1>3

\* The outcomes are those of the abstract specification.
LEMMA OutcomesShown ==
  ASSUME IInv, Outcomes \subseteq Terminal \cup {"initial"},
         NEW lost \in SUBSET Terminal, lost # {} => Lost
  PROVE  Outcomes \cup lost \in Lifecycle!Outcomes
<1>1. \A r \in Subclouds : Shown(steps[r].state) = steps[r].state
  BY NoOutcome, ShownApart
<1>2. {ShownSteps[r].state : r \in Lifecycle!Present} = Outcomes
  BY <1>1, StepsShown, InShown DEF IInv, Outcomes
<1>3. Lost => \E r \in Deletable : ShownSteps[r] = Lifecycle!NoStep
  <2> SUFFICES ASSUME NEW r \in Deletable, steps[r].state = "none"
               PROVE  ShownSteps[r] = Lifecycle!NoStep
    BY DEF Lost
  <2>1. r \in Subclouds
    BY ConstantsAssumption DEF ConstantsAssumption
  <2>2. steps[r] = NoStep
    BY <2>1 DEF IInv, Inv, Tables, RowsFit
  <2>3. ShownSteps[r] = [stage |-> steps[r].stage, state |-> Shown(steps[r].state)]
    BY <2>1, StepsShown DEF IInv
  <2> QED
    BY <1>1, <2>1, <2>2, <2>3 DEF NoStep, Lifecycle!NoStep
<1>4. Terminal = Lifecycle!Finished
  BY DEF Terminal, Lifecycle!Finished
<1>5. lost \in IF \E r \in Deletable : ShownSteps[r] = Lifecycle!NoStep
               THEN SUBSET Lifecycle!Finished ELSE {{}}
  BY <1>3, <1>4
<1> QED
  BY <1>2, <1>5 DEF Lifecycle!Outcomes

LEMMA FinishSeen ==
  ASSUME IInv, IInv', NEW t \in Types, Finish(t) \/ StopOnFailure(t)
  PROVE  Seen
<1>1. /\ Exists(t) /\ SetStrategy(t, orch[t].verdict) /\ UNCHANGED steps
      /\ orch[t].pc \in {"finish", "stop"}
  BY DEF Finish, StopOnFailure
<1>2. strategy[t].state \in Lifecycle!Ongoing /\ OutcomeFits(t)
  BY <1>1 DEF IInv, Inv, ThreadOK, ThreadFits, ApplyLabels, Ongoing, Lifecycle!Ongoing
<1>3. ShownStrategy = strategy[t] /\ UNCHANGED ShownSteps
  BY <1>1, StrategyShown, StepsStill DEF IInv
<1>4. ASSUME Outcomes \subseteq Terminal \cup {"initial"}
      PROVE  \A r \in Subclouds : /\ Shown(steps[r].state) = steps[r].state
                                  /\ steps[r].state # "none" => steps[r].state \in Outcomes
  BY <1>4, NoOutcome, ShownApart DEF Outcomes
<1>5. Terminal = Lifecycle!Finished
  BY DEF Terminal, Lifecycle!Finished
<1>6. CASE orch[t].pc = "finish"
  <2>1. Outcomes \subseteq Terminal
    BY <1>2, <1>6 DEF OutcomeFits
  <2>2. PICK lost \in SUBSET Terminal :
               /\ orch[t].verdict = Lifecycle!Overall(Outcomes \cup lost)
               /\ lost # {} => Lost
    BY <1>2, <1>6 DEF OutcomeFits
  <2>3. Outcomes \cup lost \in Lifecycle!Outcomes
    BY <2>1, <2>2, OutcomesShown
  <2>4. orch[t].verdict # "none"
    BY <2>2, OverallEnds DEF Ends
  <2>5. Lifecycle!Becomes(Lifecycle!Overall(Outcomes \cup lost))
    BY <1>1, <2>2, <2>4, BecomesShown
  <2>6. Lifecycle!Present = Lifecycle!In(Lifecycle!Finished)
    <3>1. \A r \in Subclouds : steps[r].state # "none" =>
            Shown(steps[r].state) \in Lifecycle!Finished
      BY <1>4, <1>5, <2>1
    <3>2. /\ Lifecycle!Present = {r \in Subclouds : steps[r].state # "none"}
          /\ Lifecycle!In(Lifecycle!Finished) =
               {r \in Subclouds : steps[r].state # "none"
                                  /\ Shown(steps[r].state) \in Lifecycle!Finished}
      BY InShown DEF IInv
    <3> QED
      BY <3>1, <3>2
  <2>7. Lifecycle!Finish
    BY <1>2, <1>3, <2>3, <2>5, <2>6 DEF Lifecycle!Finish
  <2> QED
    BY <2>7 DEF Seen, Lifecycle!Next
<1>7. CASE orch[t].pc = "stop"
  <2>1. /\ strategy[t].stop /\ orch[t].verdict = "failed"
        /\ Outcomes \subseteq Terminal \cup {"initial"}
        /\ "failed" \in Outcomes \/ Lost
    BY <1>2, <1>7 DEF OutcomeFits
  <2>2. \E outcomes \in Lifecycle!Outcomes : "failed" \in outcomes
    <3>1. CASE "failed" \in Outcomes
      <4>1. Outcomes \cup {} \in Lifecycle!Outcomes
        BY <2>1, OutcomesShown
      <4> QED
        BY <3>1, <4>1
    <3>2. CASE Lost
      <4>1. Outcomes \cup {"failed"} \in Lifecycle!Outcomes
        BY <2>1, <3>2, OutcomesShown DEF Terminal
      <4> QED
        BY <4>1
    <3> QED
      BY <2>1, <3>1, <3>2
  <2>3. Lifecycle!Becomes("failed")
    BY <1>1, <2>1, BecomesShown
  <2>4. Lifecycle!Present = Lifecycle!In(Lifecycle!Finished \cup {"initial"})
    BY <1>4, <1>5, <2>1, InShown DEF IInv
  <2>5. Lifecycle!StopOnFailure
    BY <1>2, <1>3, <2>1, <2>2, <2>3, <2>4 DEF Lifecycle!StopOnFailure
  <2> QED
    BY <2>5 DEF Seen, Lifecycle!Next
<1> QED
  BY <1>1, <1>6, <1>7

LEMMA DeleteSeen ==
  ASSUME IInv, IInv', NEW t \in Types, DeleteRead(t) \/ DestroySteps(t) \/ DestroyStrategy(t)
  PROVE  Seen
<1>1. /\ strategy[t].state = "deleting" /\ Exists(t) /\ ShownStrategy = strategy[t]
      /\ \A u \in Types : u # t => strategy[u].state = "none"
  <2>1. orch[t].pc \in DeleteLabels
    BY DEF DeleteRead, DestroySteps, DestroyStrategy, DeleteLabels
  <2> QED
    BY <2>1, Deleting, StrategyShown DEF IInv
<1>2. CASE DeleteRead(t)
  BY <1>2, Unseen DEF Seen, DeleteRead, dbVars
<1>3. CASE DestroySteps(t)
  <2>1. steps' = [r \in Subclouds |-> NoStep] /\ UNCHANGED strategy
    BY <1>3 DEF DestroySteps
  <2>2. ASSUME NEW r \in Subclouds
        PROVE  [stage |-> steps'[r].stage, state |-> Shown(steps'[r].state)] = NoStep
    BY <2>1, ShownApart DEF NoStep
  <2>3. ShownSteps' = [r \in Subclouds |-> NoStep]
    BY <2>2, StepsShownNext DEF IInv
  <2>4. Lifecycle!DeleteSteps
    BY <1>1, <2>1, <2>3, StrategyStill DEF Lifecycle!DeleteSteps, NoStep, Lifecycle!NoStep
  <2> QED
    BY <2>4 DEF Seen, Lifecycle!Next
<1>4. CASE DestroyStrategy(t)
  <2>1. /\ orch[t].pc = "destroy" /\ UNCHANGED steps
        /\ \E u \in {v \in Types : Exists(v)} :
             strategy' = [strategy EXCEPT ![u] = NoStrategy]
    BY <1>4 DEF DestroyStrategy
  <2>2. \A u \in Types : strategy'[u].state = "none"
    BY <1>1, <2>1 DEF IInv, TypeOK, Exists, NoStrategy
  <2>3. ShownStrategy' = NoStrategy
    BY <2>2 DEF ShownStrategy, Exists
  <2>4. Lifecycle!Present = {}
    BY <2>1, InShown DEF IInv, Inv, Tables, RowsFit, NoSteps
  <2>5. Lifecycle!DeleteStrategy
    BY <1>1, <2>1, <2>3, <2>4, StepsStill
       DEF Lifecycle!DeleteStrategy, NoStrategy, Lifecycle!NoStrategy
  <2> QED
    BY <2>5 DEF Seen, Lifecycle!Next
<1> QED
  BY <1>2, <1>3, <1>4

LEMMA ThreadSeen ==
  ASSUME IInv, IInv', NEW t \in Types, OrchThread(t)
  PROVE  Seen
<1>1. CASE LoopRead(t) \/ PreApplySetup(t) \/ FinishFails(t) \/ DestroyFails(t)
  <2>1. UNCHANGED <<strategy, steps>>
    BY <1>1 DEF LoopRead, PreApplySetup, FinishFails, DestroyFails, dbVars
  <2> QED
    BY <2>1, Unseen DEF Seen
<1>2. CASE ApplyRead(t)
  <2>1. UNCHANGED <<strategy, steps>>
    BY <1>2 DEF ApplyRead, dbVars
  <2> QED
    BY <2>1, Unseen DEF Seen
<1> QED
  BY <1>1, <1>2, VisitSeen, AbortSeen, FinishSeen, DeleteSeen DEF OrchThread

LEMMA WorkSeen ==
  ASSUME IInv, IInv', NEW t \in Types, NEW r \in Subclouds, Worker(t, r) \/ DeleterEnds(t, r)
  PROVE  Seen
<1>1. CASE DeleterEnds(t, r)
  BY <1>1, Unseen DEF Seen, DeleterEnds, dbVars
<1>2. ASSUME NEW s \in StepStates, WorkerEnds(t, r, s)
      PROVE  Seen
  <2>1. UNCHANGED strategy
    BY <1>2 DEF WorkerEnds
  <2>2. CASE mgmt[r] = "deleted"
    <3>1. steps[r] = NoStep
      BY <2>2 DEF IInv, Inv, Tables, RowsFit
    <3>2. UNCHANGED steps
      BY <1>2, <3>1 DEF WorkerEnds
    <3> QED
      BY <2>1, <3>2, Unseen DEF Seen
  <2>3. CASE mgmt[r] # "deleted"
    <3>1. /\ s \in WorkStates /\ steps[r].state = s
          /\ strategy[t].state \in Ongoing /\ Exists(t)
      BY <1>2, <2>3, WorkerFacts
    <3>2. PICK res \in Operators[t] \cup {"complete", "failed"} : SetStep(r, res)
      BY <1>2, <2>3, WorkerFacts
    <3>3. Lifecycle!Moves(r, Shown(res))
      BY <2>1, <3>2, MovesShown DEF IInv
    <3>4. ShownStrategy = strategy[t] /\ ShownSteps[r].state = "working"
      BY <3>1, StrategyShown, StepsShown, ShownApart DEF IInv
    <3>5. CASE res \in WorkStates
      <4>1. ShownSteps' = [ShownSteps EXCEPT ![r].state = "working"]
            /\ UNCHANGED ShownStrategy
        BY <3>3, <3>5, ShownApart DEF Lifecycle!Moves
      <4>2. ShownSteps = [q \in Subclouds |-> [stage |-> steps[q].stage,
                                               state |-> Shown(steps[q].state)]]
        BY StepsShown DEF IInv
      <4>3. [ShownSteps EXCEPT ![r].state = "working"] = ShownSteps
        BY <3>4, <4>2
      <4> QED
        BY <4>1, <4>3 DEF Seen, Lifecycle!vars
    <3>6. CASE res \notin WorkStates
      <4>1. res \in {"complete", "failed"} /\ Shown(res) = res
        BY <3>6, ShownApart DEF WorkStates
      <4>2. r \in Lifecycle!In({"working"})
        <5>1. steps[r].state # "none" /\ Shown(steps[r].state) \in {"working"}
          BY <3>1, ShownApart, StatesApart
        <5>2. Lifecycle!In({"working"}) = {q \in Subclouds : steps[q].state # "none"
                                              /\ Shown(steps[q].state) \in {"working"}}
          BY InShown DEF IInv
        <5> QED
          BY <5>1, <5>2
      <4>3. Lifecycle!End(r)
        BY <3>1, <3>3, <3>4, <4>1, <4>2 DEF Lifecycle!End, Ongoing, Lifecycle!Ongoing
      <4> QED
        BY <4>3 DEF Seen, Lifecycle!Next
    <3> QED
      BY <3>5, <3>6
  <2> QED
    BY <2>2, <2>3
<1> QED
  BY <1>1, <1>2 DEF Worker

LEMMA EnvironmentSeen ==
  ASSUME IInv, IInv', Environment \/ Restart
  PROVE  Seen
<1>1. CASE Restart
  BY <1>1, Unseen DEF Seen, Restart, dbVars
<1>2. ASSUME NEW r \in Touchable, Unmanage(r) \/ Manage(r)
      PROVE  Seen
  BY <1>2, Unseen DEF Seen, Unmanage, Manage
<1>3. ASSUME NEW r \in Deletable, DeleteSubcloud(r)
      PROVE  Seen
  <2>1. r \in Subclouds
    BY ConstantsAssumption DEF ConstantsAssumption
  <2>2. steps' = [steps EXCEPT ![r] = NoStep] /\ UNCHANGED strategy
    BY <1>3 DEF DeleteSubcloud
  <2>3. /\ steps'[r] = NoStep
        /\ \A q \in Subclouds : q # r => steps'[q] = steps[q]
    BY <2>1, <2>2 DEF IInv, TypeOK
  <2>4. ShownSteps' = [ShownSteps EXCEPT ![r] = NoStep]
    <3>1. /\ ShownSteps' = [q \in Subclouds |-> [stage |-> steps'[q].stage,
                                                 state |-> Shown(steps'[q].state)]]
          /\ ShownSteps = [q \in Subclouds |-> [stage |-> steps[q].stage,
                                                state |-> Shown(steps[q].state)]]
      BY StepsShown, StepsShownNext DEF IInv
    <3>2. [stage |-> steps'[r].stage, state |-> Shown(steps'[r].state)] = NoStep
      BY <2>3, ShownApart DEF NoStep
    <3> QED
      BY <2>1, <2>3, <3>1, <3>2
  <2>5. Lifecycle!DeleteSubcloud(r)
    BY <2>2, <2>4, StrategyStill DEF Lifecycle!DeleteSubcloud, NoStep, Lifecycle!NoStep
  <2> QED
    BY <2>5 DEF Seen, Lifecycle!Next
<1> QED
  BY <1>1, <1>2, <1>3 DEF Environment

(* SwUpdateOrch implements the life of a strategy: every write of the      *)
(* handlers, threads and greenthreads shows a client one step of           *)
(* StrategyLifecycle, or nothing.  Where clients abort, a pass cut short   *)
(* by a restart or a deletion would leave a stage half begun: the abort    *)
(* withdraws its other steps, and the thread then runs them (README).      *)
THEOREM LifecycleImplemented ==
  ASSUME SerialApi, ~SlowDelete, WholePasses
  PROVE  Spec => ImplementsLifecycle
<1>1. Init => Lifecycle!Init
  <2> SUFFICES ASSUME Init
               PROVE  Lifecycle!Init
    OBVIOUS
  <2>1. TypeOK /\ \A t \in Types : ~Exists(t)
    BY TypesAtFirst DEF Init, NoStrategy, Exists
  <2>2. ASSUME NEW r \in Subclouds
        PROVE  [stage |-> steps[r].stage, state |-> Shown(steps[r].state)] = NoStep
    BY ShownApart DEF Init, NoStep
  <2>3. ShownSteps = [r \in Subclouds |-> NoStep]
    BY <2>1, <2>2, StepsShown
  <2> QED
    BY <2>1, <2>3, NothingShown
       DEF Lifecycle!Init, NoStep, NoStrategy, Lifecycle!NoStep, Lifecycle!NoStrategy
<1>2. IInv /\ IInv' /\ [Next]_vars => [Lifecycle!Next]_(Lifecycle!vars)
  <2> SUFFICES ASSUME IInv, IInv', [Next]_vars
               PROVE  Seen
    BY DEF Seen
  <2>1. CASE UNCHANGED vars
    BY <2>1, Unseen DEF Seen, vars, dbVars
  <2>2. CASE Next
    BY <2>2, ApiSeen, ThreadSeen, WorkSeen, EnvironmentSeen DEF Next
  <2> QED
    BY <2>1, <2>2
<1> QED
  BY <1>1, <1>2, AlwaysInv, PTL DEF Spec, ImplementsLifecycle, Lifecycle!Spec

===============================================================================
