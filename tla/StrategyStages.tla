---------------------------- MODULE StrategyStages ----------------------------
(***************************************************************************)
(* The loop of SwUpdateManager.create_sw_update_strategy that creates one  *)
(* strategy step per targeted subcloud, group after group.  What the loop  *)
(* reads from the database is nondeterministic: how many subclouds a group *)
(* has, which of them are targeted, the group's apply type and its         *)
(* max_parallel_subclouds.                                                 *)
(***************************************************************************)
EXTENDS StageCounter, Sequences, FiniteSets

CONSTANTS MaxGroups,       \* bound on the number of groups
          MaxGroupSize,    \* bound on the subclouds of one group
          MaxMaxParallel   \* bound on max_parallel_subclouds

ASSUME BoundsAssumption == /\ MaxGroups \in Nat \ {0}
                           /\ MaxGroupSize \in Nat
                           /\ MaxMaxParallel \in Nat \ {0}

VARIABLES acc,      \* the loop's counters
          group,    \* index of the group being iterated, 0 before the first
          serial,   \* the apply type in force is serial
          maxPar,   \* the max_parallel_subclouds in force
          seen,     \* subclouds of this group already iterated
          placed    \* the steps created so far, in id order

vars == <<acc, group, serial, maxPar, seen, placed>>

Init ==
  /\ acc = FirstStage
  /\ group = 0
  /\ serial = FALSE
  /\ maxPar = 1
  /\ seen = 0
  /\ placed = <<>>

\* Leaving a group runs the code after the inner loop; the next group
\* brings its own apply type and limit.
NextGroup ==
  /\ group < MaxGroups
  /\ acc' = IF group = 0 THEN acc ELSE EndGroup(acc)
  /\ group' = group + 1
  /\ serial' \in BOOLEAN
  /\ maxPar' \in 1..MaxMaxParallel
  /\ seen' = 0
  /\ UNCHANGED placed

\* A subcloud that is not managed, not online or not out of sync.
PassOver ==
  /\ group > 0
  /\ seen < MaxGroupSize
  /\ acc' = SkipSubcloud(acc)
  /\ seen' = seen + 1
  /\ UNCHANGED <<group, serial, maxPar, placed>>

\* A targeted subcloud: strategy_step_create in the current stage.
PlaceStep ==
  /\ group > 0
  /\ seen < MaxGroupSize
  /\ placed' = Append(placed, [group |-> group, stage |-> acc.counter,
                               cap |-> IF serial THEN 1 ELSE maxPar])
  /\ acc' = AddSubcloud(acc, serial, maxPar)
  /\ seen' = seen + 1
  /\ UNCHANGED <<group, serial, maxPar>>

Next == NextGroup \/ PassOver \/ PlaceStep

Spec == Init /\ [][Next]_vars

-------------------------------------------------------------------------------

InStage(k) == {i \in DOMAIN placed : placed[i].stage = k}

Placements == [group : 1..MaxGroups, stage : Nat \ {0}, cap : 1..MaxMaxParallel]

TypeOK ==
  /\ acc \in StageCounters
  /\ group \in 0..MaxGroups
  /\ serial \in BOOLEAN
  /\ maxPar \in 1..MaxMaxParallel
  /\ seen \in 0..MaxGroupSize
  /\ placed \in Seq(Placements)

(* The subclouds of one stage run in parallel: a stage never holds more    *)
(* steps than its group allows, and never steps of two groups, whose       *)
(* limits and apply types may differ.                                      *)
StageWithinLimits ==
  \A i \in DOMAIN placed :
    /\ Cardinality(InStage(placed[i].stage)) <= placed[i].cap
    /\ \A j \in InStage(placed[i].stage) : placed[j].group = placed[i].group

(* The orchestrator works on the stage of the first unfinished step in id  *)
(* order, so stages must not decrease along the id order.                  *)
StagesAscend ==
  \A i, j \in DOMAIN placed : i < j => placed[i].stage <= placed[j].stage

(* A stage is closed early only by the end of its group: within a group    *)
(* every stage but the last is full and no number is skipped, whatever     *)
(* subclouds are passed over in between.                                   *)
StagesPacked ==
  \A i \in 1..(Len(placed) - 1) :
    placed[i].group = placed[i + 1].group =>
      \/ placed[i + 1].stage = placed[i].stage
      \/ /\ placed[i + 1].stage = placed[i].stage + 1
         /\ Cardinality(InStage(placed[i].stage)) = placed[i].cap

(* Both: the order the orchestrator relies on when it works on one stage   *)
(* after the other.                                                        *)
StagesInOrder == StagesAscend /\ StagesPacked
===============================================================================
