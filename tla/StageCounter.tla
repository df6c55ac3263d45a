----------------------------- MODULE StageCounter -----------------------------
(***************************************************************************)
(* The stage arithmetic of SwUpdateManager.create_sw_update_strategy: how  *)
(* the loop over subcloud groups and their subclouds hands out stage       *)
(* numbers.  One record stands for the loop's local variables              *)
(* current_stage_counter, stage_size and stage_updated.                    *)
(***************************************************************************)
EXTENDS Naturals

\* A Wrong... operator is a plausible mistake in the definition that follows
\* it; no specification uses one.  They show that the properties notice.
WrongFirstStage == [counter |-> 0, size |-> 0, updated |-> FALSE]

\* Before the loop: the counter has already been moved to the first stage.
FirstStage == [counter |-> 1, size |-> 0, updated |-> FALSE]

\* A subcloud passed over takes a place in the stage.
WrongSkipSubcloud(acc) == [acc EXCEPT !.updated = FALSE, !.size = @ + 1]

\* An iteration over a subcloud that gets no step: it still clears
\* stage_updated, which the end of the group reads.
SkipSubcloud(acc) == [acc EXCEPT !.updated = FALSE]

\* One step too many in a stage.
WrongLimitAddSubcloud(acc, serial, maxParallel) ==
  IF serial \/ acc.size + 1 > maxParallel
  THEN [counter |-> acc.counter + 1, size |-> 0, updated |-> TRUE]
  ELSE [counter |-> acc.counter, size |-> acc.size + 1, updated |-> FALSE]

\* An iteration over a subcloud that gets a step in stage acc.counter.  A
\* serial group always moves on and leaves stage_size growing; a parallel
\* group moves on when the stage is full.
AddSubcloud(acc, serial, maxParallel) ==
  IF serial
  THEN [counter |-> acc.counter + 1, size |-> acc.size + 1, updated |-> TRUE]
  ELSE IF acc.size + 1 >= maxParallel
  THEN [counter |-> acc.counter + 1, size |-> 0, updated |-> TRUE]
  ELSE [counter |-> acc.counter, size |-> acc.size + 1, updated |-> FALSE]

\* After the last subcloud of a group.  stage_updated keeps its value: an
\* empty next group sees the one the previous group left.
EndGroup(acc) ==
  [counter |-> IF acc.updated THEN acc.counter ELSE acc.counter + 1,
   size |-> 0,
   updated |-> acc.updated]

StageCounters == [counter : Nat \ {0}, size : Nat, updated : BOOLEAN]
===============================================================================
