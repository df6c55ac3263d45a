------------------------ MODULE StrategyCreationProofs ------------------------
(***************************************************************************)
(* The stages of a strategy are within their limits, in ascending order    *)
(* and packed, for every number of groups, size of group and limit; and so *)
(* they are, and the certificate of the strategy stays in the vault, and   *)
(* the steps are those that were asked for, whatever changes and is        *)
(* deleted while the strategy is created.                                  *)
(***************************************************************************)
EXTENDS StrategyCreation, FiniteSetTheorems, SequenceTheorems, WellFoundedInduction, TLAPS

--------------------------------------------------------------------------------
(* The stages (StrategyStages.tla).                                        *)

\* The steps created so far lie in the stages up to the counter, each stage
\* in one group.
StagesUpToCounter ==
  \A i \in DOMAIN placed :
    /\ placed[i].stage <= acc.counter
    /\ \A j \in InStage(placed[i].stage) : placed[j].group = placed[i].group

\* The open stage: stage_size counts its steps, which are of the group being
\* iterated.  It is empty in a serial group and right after it was opened.
OpenStage ==
  /\ \A i \in InStage(acc.counter) : /\ ~serial
                                     /\ placed[i].group = group
                                     /\ placed[i].cap = maxPar
  /\ Cardinality(InStage(acc.counter)) = IF serial THEN 0 ELSE acc.size
  /\ ~serial => acc.size < maxPar
  /\ acc.updated => InStage(acc.counter) = {}
  /\ group = 0 => placed = <<>> /\ acc = FirstStage

\* Where the last step stands next to the open stage.
LastStep ==
  LET n == Len(placed)
  IN n > 0 /\ placed[n].group = group =>
       \/ placed[n].stage = acc.counter
       \/ /\ acc.counter = placed[n].stage + 1
          /\ Cardinality(InStage(placed[n].stage)) = placed[n].cap

IInv ==
  /\ TypeOK
  /\ \A i \in DOMAIN placed : placed[i].group <= group
  /\ StagesUpToCounter
  /\ OpenStage
  /\ LastStep
  /\ StageWithinLimits
  /\ StagesAscend
  /\ StagesPacked

(* A stage is a finite set of positions.                                   *)
LEMMA StageFinite ==
  ASSUME TypeOK, NEW k
  PROVE  InStage(k) \subseteq 1..Len(placed) /\ IsFiniteSet(InStage(k))
<1>1. Len(placed) \in Nat /\ DOMAIN placed = 1..Len(placed)
  BY DEF TypeOK
<1>2. InStage(k) \subseteq 1..Len(placed)
  BY <1>1 DEF InStage
<1>3. IsFiniteSet(1..Len(placed))
  BY <1>1, FS_Interval
<1> QED
  BY <1>2, <1>3, FS_Subset

(* The numbers of a step and of the group being iterated.                  *)
LEMMA Elements ==
  ASSUME TypeOK
  PROVE  /\ group \in Nat /\ maxPar \in Nat \ {0} /\ Len(placed) \in Nat
         /\ DOMAIN placed = 1..Len(placed)
         /\ \A i \in DOMAIN placed : /\ placed[i].group \in Nat
                                     /\ placed[i].stage \in Nat \ {0}
                                     /\ placed[i].cap \in Nat \ {0}
<1>1. MaxMaxParallel \in Nat /\ MaxGroups \in Nat
  BY BoundsAssumption DEF BoundsAssumption
<1>2. Len(placed) \in Nat /\ DOMAIN placed = 1..Len(placed)
  BY DEF TypeOK
<1>3. ASSUME NEW i \in DOMAIN placed
      PROVE  /\ placed[i].group \in Nat
             /\ placed[i].stage \in Nat \ {0}
             /\ placed[i].cap \in Nat \ {0}
  <2>1. placed[i] \in Placements
    BY <1>2, <1>3 DEF TypeOK
  <2> QED
    BY <1>1, <2>1 DEF Placements
<1> QED
  BY <1>1, <1>2, <1>3 DEF TypeOK

(* What the counters hold after an iteration.                              *)
LEMMA CounterFields ==
  ASSUME TypeOK
  PROVE  /\ acc.counter \in Nat \ {0} /\ acc.size \in Nat /\ acc.updated \in BOOLEAN
         /\ EndGroup(acc) \in StageCounters
         /\ SkipSubcloud(acc) \in StageCounters
         /\ SkipSubcloud(acc).counter = acc.counter
         /\ SkipSubcloud(acc).size = acc.size
         /\ SkipSubcloud(acc).updated = FALSE
<1>1. acc \in StageCounters
  BY DEF TypeOK
<1>2. acc.counter \in Nat \ {0} /\ acc.size \in Nat /\ acc.updated \in BOOLEAN
  BY <1>1 DEF StageCounters
<1>3. EndGroup(acc) \in StageCounters
  BY <1>2 DEF StageCounters, EndGroup
<1>4. /\ SkipSubcloud(acc) \in StageCounters
      /\ SkipSubcloud(acc).counter = acc.counter
      /\ SkipSubcloud(acc).size = acc.size
      /\ SkipSubcloud(acc).updated = FALSE
  BY <1>1 DEF StageCounters, SkipSubcloud
<1> QED
  BY <1>2, <1>3, <1>4

LEMMA InitInv == Init => IInv
<1> SUFFICES ASSUME Init
             PROVE  IInv
  OBVIOUS
<1>1. placed = <<>> /\ DOMAIN placed = {} /\ Len(placed) = 0
  BY DEF Init
<1>2. \A k : InStage(k) = {}
  BY <1>1 DEF InStage
<1>3. TypeOK
  <2>1. 0 \in 0..MaxGroups /\ 0 \in 0..MaxGroupSize /\ 1 \in 1..MaxMaxParallel
    BY BoundsAssumption DEF BoundsAssumption
  <2>2. acc \in StageCounters
    BY DEF Init, FirstStage, StageCounters
  <2>3. placed \in Seq(Placements)
    BY <1>1
  <2> QED
    BY <2>1, <2>2, <2>3 DEF Init, TypeOK
<1>4. StagesUpToCounter /\ StageWithinLimits /\ StagesAscend /\ StagesPacked /\ LastStep
      /\ \A i \in DOMAIN placed : placed[i].group <= group
  BY <1>1 DEF StagesUpToCounter, StageWithinLimits, StagesAscend, StagesPacked, LastStep
<1>5. Cardinality(InStage(acc.counter)) = 0
  BY <1>2, FS_EmptySet
<1>6. OpenStage
  BY <1>1, <1>2, <1>5 DEF Init, OpenStage, FirstStage
<1> QED
  BY <1>3, <1>4, <1>6 DEF IInv

LEMMA NextGroupInv == IInv /\ NextGroup => IInv'
<1> SUFFICES ASSUME IInv, NextGroup
             PROVE  IInv'
  OBVIOUS
<1> USE DEF IInv
<1>1. placed' = placed /\ \A k : InStage(k)' = InStage(k)
  BY DEF NextGroup, InStage
<1>2. acc' \in StageCounters
  BY CounterFields DEF NextGroup, TypeOK
<1>3. TypeOK'
  BY <1>1, <1>2, BoundsAssumption DEF NextGroup, TypeOK, BoundsAssumption
<1>4. /\ acc.counter <= acc'.counter
      /\ acc'.size = 0
      /\ acc'.updated => InStage(acc'.counter) = {}
      /\ InStage(acc'.counter) = {}
  <2>1. CASE group = 0
    <3>1. placed = <<>> /\ acc' = acc /\ acc.size = 0
      BY <2>1 DEF NextGroup, OpenStage, FirstStage
    <3>2. \A k : InStage(k) = {}
      BY <3>1 DEF InStage
    <3> QED
      BY <3>1, <3>2, CounterFields
  <2>2. CASE group # 0
    <3>1. acc' = EndGroup(acc)
      BY <2>2 DEF NextGroup
    <3>2. CASE acc.updated
      BY <3>1, <3>2, CounterFields DEF EndGroup, OpenStage
    <3>3. CASE ~acc.updated
      <4>1. acc'.counter = acc.counter + 1 /\ acc'.size = 0 /\ ~acc'.updated
        BY <3>1, <3>3 DEF EndGroup
      <4>2. InStage(acc.counter + 1) = {}
        BY CounterFields DEF InStage, StagesUpToCounter
      <4> QED
        BY <4>1, <4>2, CounterFields
    <3> QED
      BY <3>2, <3>3, CounterFields
  <2> QED
    BY <2>1, <2>2
<1>5. group' = group + 1 /\ maxPar' \in Nat \ {0} /\ group' # 0
  BY BoundsAssumption DEF NextGroup, TypeOK, BoundsAssumption
<1>6. \A i \in DOMAIN placed : placed[i].group <= group' /\ placed[i].group # group'
  BY <1>5, Elements
<1>7. StagesUpToCounter'
  <2>1. \A i \in DOMAIN placed : placed[i].stage <= acc'.counter
    BY <1>4, <1>2, CounterFields, Elements DEF StagesUpToCounter, StageCounters
  <2> QED
    BY <1>1, <2>1 DEF StagesUpToCounter
<1>8. Cardinality(InStage(acc'.counter)) = 0
  BY <1>4, FS_EmptySet
<1>9. OpenStage'
  <2>1. InStage(acc.counter)' = {}
    BY <1>1, <1>4 DEF InStage
  <2>2. ~serial' => acc'.size < maxPar'
    BY <1>4, <1>5
  <2> QED
    BY <1>4, <1>5, <1>8, <2>1, <2>2 DEF OpenStage
<1>10. LastStep'
  BY <1>1, <1>6 DEF LastStep, TypeOK
<1>11. StageWithinLimits' /\ StagesAscend' /\ StagesPacked'
  BY <1>1 DEF StageWithinLimits, StagesAscend, StagesPacked
<1> QED
  BY <1>1, <1>3, <1>6, <1>7, <1>9, <1>10, <1>11

LEMMA PassOverInv == IInv /\ PassOver => IInv'
<1> SUFFICES ASSUME IInv, PassOver
             PROVE  IInv'
  OBVIOUS
<1> USE DEF IInv
<1>1. placed' = placed /\ \A k : InStage(k)' = InStage(k)
  BY DEF PassOver, InStage
<1>2. /\ acc' \in StageCounters /\ acc'.counter = acc.counter
      /\ acc'.size = acc.size /\ ~acc'.updated
  BY CounterFields DEF PassOver
<1>3. TypeOK'
  <2>1. seen' \in 0..MaxGroupSize
    BY BoundsAssumption DEF PassOver, TypeOK, BoundsAssumption
  <2> QED
    BY <1>1, <1>2, <2>1 DEF PassOver, TypeOK
<1>4. InStage(acc.counter)' = InStage(acc.counter)
  BY <1>1, <1>2 DEF InStage
<1>5. OpenStage'
  BY <1>1, <1>2, <1>4 DEF PassOver, OpenStage
<1>6. StagesUpToCounter' /\ LastStep'
  BY <1>1, <1>2 DEF PassOver, StagesUpToCounter, LastStep
<1>7. StageWithinLimits' /\ StagesAscend' /\ StagesPacked'
  BY <1>1 DEF StageWithinLimits, StagesAscend, StagesPacked
<1>8. \A i \in DOMAIN placed' : placed'[i].group <= group'
  BY <1>1 DEF PassOver
<1> QED
  BY <1>3, <1>5, <1>6, <1>7, <1>8

LEMMA PlaceStepInv == IInv /\ PlaceStep => IInv'
<1> SUFFICES ASSUME IInv, PlaceStep
             PROVE  IInv'
  OBVIOUS
<1> USE DEF IInv
<1> DEFINE n == Len(placed)
           c == acc.counter
           cap == IF serial THEN 1 ELSE maxPar
           new == [group |-> group, stage |-> c, cap |-> cap]
           full == serial \/ acc.size + 1 >= maxPar
           InNext(k) == {i \in 1..(n + 1) : placed'[i].stage = k}
<1>1. n \in Nat /\ c \in Nat \ {0} /\ acc.size \in Nat /\ cap \in Nat \ {0}
      /\ group \in Nat \ {0} /\ group' = group /\ maxPar' = maxPar /\ serial' = serial
  BY Elements, CounterFields DEF PlaceStep
<1>2. /\ placed' = Append(placed, new)
      /\ Len(placed') = n + 1
      /\ DOMAIN placed' = 1..(n + 1)
      /\ \A i \in 1..n : placed'[i] = placed[i]
      /\ placed'[n + 1] = new
  <2>1. placed' = Append(placed, new)
    BY DEF PlaceStep
  <2>2. placed \in Seq(Placements) /\ new \in Placements
    BY <1>1, BoundsAssumption DEF TypeOK, Placements, PlaceStep, BoundsAssumption
  <2> QED
    BY <1>1, <2>1, <2>2
<1>3. ASSUME full
      PROVE  acc'.counter = c + 1 /\ acc'.updated /\ (~serial => acc'.size = 0)
             /\ acc' \in StageCounters
  BY <1>1, <1>3 DEF PlaceStep, AddSubcloud, StageCounters
<1>4. ASSUME ~full
      PROVE  ~serial /\ acc'.counter = c /\ acc'.size = acc.size + 1 /\ ~acc'.updated
             /\ acc' \in StageCounters /\ acc.size + 1 < maxPar
  BY <1>1, <1>4, Elements DEF PlaceStep, AddSubcloud, StageCounters
<1> HIDE DEF new, full
<1>5. \A k : k # c => InNext(k) = InStage(k)
  BY <1>1, <1>2, Elements DEF InStage, new
<1>6. InNext(c) = InStage(c) \cup {n + 1} /\ n + 1 \notin InStage(c)
  BY <1>1, <1>2, Elements DEF InStage, new
<1>7. /\ \A i \in 1..(n + 1) : i \in InNext(placed'[i].stage)
      /\ \A k : \A i \in InNext(k) : i \in 1..(n + 1) /\ placed'[i].stage = k
      /\ \A k : InStage(k) \subseteq 1..n
  BY StageFinite
<1> HIDE DEF InNext
<1>8. Cardinality(InNext(c)) = IF serial THEN 1 ELSE acc.size + 1
  <2>1. Cardinality(InNext(c)) = Cardinality(InStage(c)) + 1
    BY <1>6, StageFinite, FS_AddElement
  <2> QED
    BY <1>1, <2>1 DEF OpenStage
<1>9. Cardinality(InNext(c)) <= cap
  <2>1. CASE serial
    BY <1>8, <2>1
  <2>2. CASE ~serial
    BY <1>1, <1>8, <2>2 DEF OpenStage
  <2> QED
    BY <2>1, <2>2
<1>10. \A i \in InNext(c) : placed'[i].group = group /\ placed'[i].cap = cap
  <2>1. \A i \in InStage(c) : placed[i].group = group /\ placed[i].cap = cap
    BY DEF OpenStage
  <2> QED
    BY <1>2, <1>6, <1>7, <2>1 DEF new
<1>11. \A i \in 1..n : placed[i].stage <= c /\ placed[i].stage \in Nat
  BY <1>1, Elements DEF StagesUpToCounter
<1>12. TypeOK'
  <2>1. placed' \in Seq(Placements)
    <3>1. placed \in Seq(Placements) /\ new \in Placements
      BY <1>1, BoundsAssumption DEF TypeOK, Placements, PlaceStep, BoundsAssumption, new
    <3> QED
      BY <1>2, <3>1
  <2>2. seen' \in 0..MaxGroupSize
    BY BoundsAssumption DEF PlaceStep, TypeOK, BoundsAssumption
  <2>3. acc' \in StageCounters
    BY <1>3, <1>4
  <2> QED
    BY <2>1, <2>2, <2>3 DEF TypeOK, PlaceStep
<1>13. \A i \in 1..(n + 1) : placed'[i].group <= group'
  BY <1>1, <1>2, Elements DEF new
<1>14. \A i \in 1..(n + 1) : \A j \in InNext(placed'[i].stage) :
         placed'[j].group = placed'[i].group
  <2> SUFFICES ASSUME NEW i \in 1..(n + 1), NEW j \in InNext(placed'[i].stage)
               PROVE  placed'[j].group = placed'[i].group
    OBVIOUS
  <2>1. CASE placed'[i].stage = c
    BY <1>7, <1>10, <2>1
  <2>2. CASE placed'[i].stage # c
    <3>1. i \in 1..n /\ placed'[i] = placed[i]
      BY <1>1, <1>2, <2>2 DEF new
    <3>2. j \in InStage(placed[i].stage) /\ placed'[j] = placed[j]
      BY <1>2, <1>5, <1>7, <2>2, <3>1
    <3> QED
      BY <3>1, <3>2, Elements DEF StagesUpToCounter
  <2> QED
    BY <2>1, <2>2
<1>15. StagesUpToCounter'
  <2>1. \A i \in 1..(n + 1) : placed'[i].stage <= acc'.counter
    BY <1>1, <1>2, <1>3, <1>4, <1>11 DEF new
  <2>2. \A i \in DOMAIN placed' : InStage(placed[i].stage)' = InNext(placed'[i].stage)
    BY <1>2 DEF InStage, InNext
  <2> QED
    BY <1>2, <1>14, <2>1, <2>2 DEF StagesUpToCounter
<1>16. OpenStage'
  <2>1. InStage(acc.counter)' = InNext(acc'.counter)
    BY <1>2 DEF InStage, InNext
  <2>2. CASE full
    <3>1. InNext(acc'.counter) = {}
      BY <1>1, <1>2, <1>3, <1>11, <2>2 DEF InNext, new
    <3>2. Cardinality(InNext(acc'.counter)) = 0
      BY <3>1, FS_EmptySet
    <3> QED
      BY <1>1, <1>3, <2>1, <2>2, <3>1, <3>2, Elements DEF OpenStage
  <2>3. CASE ~full
    <3>1. InStage(acc.counter)' = InNext(c)
      BY <1>4, <2>1, <2>3
    <3>2. cap = maxPar
      BY <1>4, <2>3
    <3> QED
      BY <1>1, <1>4, <1>8, <1>10, <2>3, <3>1, <3>2 DEF OpenStage
  <2> QED
    BY <2>2, <2>3
<1>17. LastStep'
  <2>1. placed'[n + 1].stage = c /\ placed'[n + 1].cap = cap
    BY <1>2 DEF new
  <2>2. CASE full
    <3>1. Cardinality(InNext(c)) = cap
      BY <1>1, <1>8, <1>9, <2>2, Elements DEF full
    <3>2. InStage(placed[Len(placed)].stage)' = InNext(c)
      BY <1>2, <2>1 DEF InStage, InNext
    <3> QED
      BY <1>1, <1>2, <1>3, <2>1, <2>2, <3>1, <3>2 DEF LastStep
  <2>3. CASE ~full
    BY <1>2, <1>4, <2>1, <2>3 DEF LastStep
  <2> QED
    BY <2>2, <2>3
<1>18. StagesAscend'
  BY <1>1, <1>2, <1>11, Elements DEF StagesAscend, new
<1>19. StageWithinLimits'
  <2>1. ASSUME NEW i \in 1..(n + 1)
        PROVE  Cardinality(InNext(placed'[i].stage)) <= placed'[i].cap
    <3>1. CASE placed'[i].stage = c
      BY <1>7, <1>9, <1>10, <3>1
    <3>2. CASE placed'[i].stage # c
      <4>1. i \in 1..n /\ placed'[i] = placed[i]
        BY <1>1, <1>2, <3>2 DEF new
      <4>2. InNext(placed'[i].stage) = InStage(placed[i].stage)
        BY <1>5, <3>2, <4>1
      <4> QED
        BY <4>1, <4>2, Elements DEF StageWithinLimits
    <3> QED
      BY <3>1, <3>2
  <2>2. \A i \in DOMAIN placed' : InStage(placed[i].stage)' = InNext(placed'[i].stage)
    BY <1>2 DEF InStage, InNext
  <2> QED
    BY <1>2, <1>14, <2>1, <2>2 DEF StageWithinLimits
<1>20. ASSUME NEW i \in 1..n, placed'[i].group = placed'[i + 1].group
       PROVE  \/ placed'[i + 1].stage = placed'[i].stage
              \/ /\ placed'[i + 1].stage = placed'[i].stage + 1
                 /\ Cardinality(InNext(placed'[i].stage)) = placed'[i].cap
  <2>1. i + 1 \in 1..(n + 1) /\ placed'[i] = placed[i] /\ placed[i].stage \in Nat
    BY <1>1, <1>2, <1>11
  <2>2. CASE i = n
    <3>1. placed[n].group = group /\ n > 0 /\ placed'[n + 1].stage = c
      BY <1>1, <1>2, <1>20, <2>1, <2>2 DEF new
    <3>2. CASE placed[n].stage = c
      BY <2>1, <2>2, <3>1, <3>2
    <3>3. CASE c = placed[n].stage + 1 /\ Cardinality(InStage(placed[n].stage)) = placed[n].cap
      <4>1. InNext(placed[n].stage) = InStage(placed[n].stage)
        BY <1>1, <1>5, <2>1, <2>2, <3>3
      <4> QED
        BY <2>1, <2>2, <3>1, <3>3, <4>1
    <3> QED
      BY <3>1, <3>2, <3>3 DEF LastStep
  <2>3. CASE i # n
    <3>1. i \in 1..(n - 1) /\ i + 1 \in 1..n /\ placed'[i + 1] = placed[i + 1]
      BY <1>1, <1>2, <2>3
    <3>2. CASE placed[i + 1].stage = placed[i].stage
      BY <2>1, <3>1, <3>2
    <3>3. CASE /\ placed[i + 1].stage = placed[i].stage + 1
               /\ Cardinality(InStage(placed[i].stage)) = placed[i].cap
      <4>1. placed[i].stage # c
        BY <1>1, <1>11, <2>1, <3>1, <3>3
      <4>2. InNext(placed[i].stage) = InStage(placed[i].stage)
        BY <1>5, <4>1
      <4> QED
        BY <2>1, <3>1, <3>3, <4>2
    <3>4. placed[i].group = placed[i + 1].group
      BY <1>20, <2>1, <3>1
    <3> QED
      BY <3>1, <3>2, <3>3, <3>4 DEF StagesPacked
  <2> QED
    BY <2>2, <2>3
<1>21. StagesPacked'
  <2>1. \A i \in 1..n : InStage(placed[i].stage)' = InNext(placed'[i].stage)
    BY <1>2 DEF InStage, InNext
  <2>2. 1..(Len(placed') - 1) = 1..n
    BY <1>1, <1>2
  <2> QED
    BY <1>20, <2>1, <2>2 DEF StagesPacked
<1> QED
  BY <1>2, <1>12, <1>13, <1>15, <1>16, <1>17, <1>18, <1>19, <1>21

(* However many groups there are and whatever their apply types, limits    *)
(* and targeted subclouds, the loop never puts more steps into a stage     *)
(* than the group allows nor mixes two groups, numbers the stages in the   *)
(* order of the steps, and leaves no stage of a group short but its last.  *)
LEMMA Inductive == Spec => []IInv
<1>1. IInv /\ [Next]_vars => IInv'
  <2> SUFFICES ASSUME IInv, [Next]_vars
               PROVE  IInv'
    OBVIOUS
  <2>1. CASE UNCHANGED vars
    BY <2>1 DEF vars, IInv, TypeOK, StagesUpToCounter, OpenStage, LastStep, InStage,
                StageWithinLimits, StagesAscend, StagesPacked
  <2> QED
    BY <2>1, NextGroupInv, PassOverInv, PlaceStepInv DEF Next
<1> QED
  BY <1>1, InitInv, PTL DEF Spec

(* A stage holds no more steps than its group allows, all of one group.    *)
THEOREM LimitsKept == Spec => []StageWithinLimits
<1>1. IInv => StageWithinLimits
  BY DEF IInv
<1> QED
  BY <1>1, Inductive, PTL

(* Stages never decrease along the order in which steps are created.       *)
THEOREM AscentKept == Spec => []StagesAscend
<1>1. IInv => StagesAscend
  BY DEF IInv
<1> QED
  BY <1>1, Inductive, PTL

(* Every stage of a group but the last is full.                            *)
THEOREM PackingKept == Spec => []StagesPacked
<1>1. IInv => StagesPacked
  BY DEF IInv
<1> QED
  BY <1>1, Inductive, PTL

--------------------------------------------------------------------------------
(* Their creation (StrategyCreation.tla).                                  *)

\* Before the strategy is inserted there is none, and the certificate stored
\* for it is safe: in the vault and not about to be removed, or late.
Safe(cert) == cert \subseteq vault \cup late /\ cert \cap removing \subseteq late

BeforeInsert ==
  /\ pc \in {"statuses", "upload", "insert"} => strategy = {}
  /\ pc = "upload" => request.cert # {}
  /\ pc = "insert" => Safe(request.cert)

CertificatesSafe ==
  \A s \in strategy : s.state \in {"initial", "applying"} => Safe(s.cert)

CInv == /\ CreationTypeOK
        /\ BeforeInsert
        /\ CertificatesSafe
        /\ IInv

LEMMA NoRequestType == NoRequest \in Payloads
  BY CreationAssumption DEF NoRequest, CreationAssumption

\* A value that is left out, or one.
LEMMA OptionalValue ==
  ASSUME NEW S, NEW o \in Optional(S)
  PROVE  /\ o \subseteq S
         /\ \A x, y \in o : x = y
BY DEF Optional

LEMMA CertsOfRequests ==
  ASSUME NEW r \in Payloads
  PROVE  r.cert \subseteq Files
<1>1. r \in PayloadType
  BY CreationAssumption DEF CreationAssumption
<1>2. r.cert \in Optional(Files)
  BY <1>1 DEF PayloadType
<1> QED
  BY <1>2, OptionalValue

LEMMA CreationInitInv == CreationInit => CInv
<1> SUFFICES ASSUME CreationInit
             PROVE  CInv
  OBVIOUS
<1>1. IInv
  BY InitInv DEF CreationInit
<1>2. CreationTypeOK
  <2>1. TypeOK
    BY <1>1 DEF IInv
  <2>2. sub \in [Subclouds -> [group : Groups, managed : BOOLEAN, online : BOOLEAN,
                               status : Statuses]]
    BY DEF CreationInit, Statuses
  <2>3. MaxMaxParallel \in 1..MaxMaxParallel
    BY BoundsAssumption DEF BoundsAssumption
  <2>4. groupRow \in [Groups -> [exists : BOOLEAN, serial : BOOLEAN, max : 1..MaxMaxParallel]]
    BY <2>3 DEF CreationInit
  <2>5. creations \in 0..MaxCreations /\ changes \in 0..MaxChanges
    BY CreationAssumption DEF CreationInit, CreationAssumption
  <2> QED
    BY <2>1, <2>2, <2>4, <2>5, NoRequestType DEF CreationInit, CreationTypeOK
<1>3. BeforeInsert /\ CertificatesSafe
  BY NoRequestType DEF CreationInit, BeforeInsert, CertificatesSafe
<1> QED
  BY <1>1, <1>2, <1>3 DEF CInv

-------------------------------------------------------------------------------
(* The stages: a step of the creation is a step of the loop, starts the    *)
(* loop anew, or leaves it alone.                                          *)

LEMMA LoopStutters ==
  ASSUME IInv, UNCHANGED stageVars
  PROVE  IInv'
  BY DEF stageVars, IInv, TypeOK, StagesUpToCounter, OpenStage, LastStep, InStage,
     StageWithinLimits, StagesAscend, StagesPacked

LEMMA LoopStep == IInv /\ CreationNext => IInv'
<1> SUFFICES ASSUME IInv, CreationNext
             PROVE  IInv'
  OBVIOUS
<1>1. CASE CreateStrategy
  <2>1. Init'
    BY <1>1 DEF CreateStrategy, StagesReset, Init
  <2>2. Init' => IInv'
    BY InitInv, PTL
  <2> QED
    BY <2>1, <2>2
<1>2. CASE EnterGroup
  BY <1>2, NextGroupInv DEF EnterGroup
<1>3. CASE ConsiderSubcloud
  <2>1. PassOver \/ PlaceStep \/ UNCHANGED stageVars
    BY <1>3 DEF ConsiderSubcloud
  <2> QED
    BY <2>1, PassOverInv, PlaceStepInv, LoopStutters
<1>4. ASSUME ~CreateStrategy, ~EnterGroup, ~ConsiderSubcloud
      PROVE  UNCHANGED stageVars
  BY <1>4 DEF CreationNext, CheckStatuses, UploadCertificate, InsertStrategy,
     ReturnStrategy, NoSteps, ApplyStrategy, EndStrategy, DeleteStrategy,
     RemoveCertificate, DestroyStrategy, Manage, AvailabilityChanges,
     StatusChanges, MoveSubcloud, PostGroup, PatchGroup, DeleteGroup
<1> QED
  BY <1>1, <1>2, <1>3, <1>4, LoopStutters

-------------------------------------------------------------------------------
(* Types.                                                                  *)

SubTypes == sub \in [Subclouds -> [group : Groups, managed : BOOLEAN, online : BOOLEAN,
                                   status : Statuses]]
GroupTypes == groupRow \in [Groups -> [exists : BOOLEAN, serial : BOOLEAN,
                                       max : 1..MaxMaxParallel]]
StrategyTypes ==
  /\ strategy \subseteq [state : {"initial", "applying", "ended", "deleting"},
                         cert : SUBSET Files]
  /\ \A s, t \in strategy : s = t
  /\ vault \cup removing \cup late \subseteq Files
CreatorTypes == /\ pc \in {"idle", "statuses", "upload", "insert", "groups"}
                /\ request \in Payloads
Counts == creations \in 0..MaxCreations /\ changes \in 0..MaxChanges

LEMMA WorldStep == CreationTypeOK /\ CreationNext => SubTypes' /\ GroupTypes'
<1> SUFFICES ASSUME CreationTypeOK, CreationNext
             PROVE  SubTypes' /\ GroupTypes'
  OBVIOUS
<1>1. SubTypes /\ GroupTypes
  BY DEF CreationTypeOK, SubTypes, GroupTypes
<1>2. CASE Manage
  BY <1>1, <1>2 DEF Manage, SubTypes, GroupTypes
<1>3. CASE AvailabilityChanges
  BY <1>1, <1>3 DEF AvailabilityChanges, SubTypes, GroupTypes
<1>4. CASE StatusChanges
  BY <1>1, <1>4 DEF StatusChanges, SubTypes, GroupTypes
<1>5. CASE MoveSubcloud
  BY <1>1, <1>5 DEF MoveSubcloud, SubTypes, GroupTypes
<1>6. CASE PostGroup
  BY <1>1, <1>6 DEF PostGroup, SubTypes, GroupTypes
<1>7. CASE PatchGroup
  <2>1. PICK g \in Groups, s \in BOOLEAN, n \in 1..MaxMaxParallel :
          groupRow' = [groupRow EXCEPT ![g].serial = s, ![g].max = n]
    BY <1>7 DEF PatchGroup
  <2>2. groupRow[g] \in [exists : BOOLEAN, serial : BOOLEAN, max : 1..MaxMaxParallel]
    BY <1>1 DEF GroupTypes
  <2>3. [groupRow[g] EXCEPT !.serial = s, !.max = n]
          \in [exists : BOOLEAN, serial : BOOLEAN, max : 1..MaxMaxParallel]
    BY <2>2
  <2>4. groupRow' = [groupRow EXCEPT ![g] = [groupRow[g] EXCEPT !.serial = s, !.max = n]]
    BY <1>1, <2>1 DEF GroupTypes
  <2>5. GroupTypes'
    BY <1>1, <2>3, <2>4 DEF GroupTypes
  <2> QED
    BY <1>1, <1>7, <2>5 DEF PatchGroup, SubTypes
<1>8. CASE DeleteGroup
  <2>1. PICK g \in Groups : groupRow' = [groupRow EXCEPT ![g].exists = FALSE]
    BY <1>8 DEF DeleteGroup
  <2>2. GroupTypes'
    BY <1>1, <2>1 DEF GroupTypes
  <2> QED
    BY <1>1, <1>8, <2>2 DEF DeleteGroup, SubTypes
<1>9. CASE UNCHANGED world
  BY <1>1, <1>9 DEF world, SubTypes, GroupTypes
<1>10. \/ Manage \/ AvailabilityChanges \/ StatusChanges \/ MoveSubcloud
       \/ PostGroup \/ PatchGroup \/ DeleteGroup \/ UNCHANGED world
  BY DEF CreationNext, CreateStrategy, CheckStatuses, UploadCertificate,
     InsertStrategy, EnterGroup, ConsiderSubcloud, ReturnStrategy, NoSteps,
     ApplyStrategy, EndStrategy, DeleteStrategy, RemoveCertificate, DestroyStrategy
<1> QED
  BY <1>2, <1>3, <1>4, <1>5, <1>6, <1>7, <1>8, <1>9, <1>10

LEMMA CountStep == CreationTypeOK /\ CreationNext => Counts'
<1> SUFFICES ASSUME CreationTypeOK, CreationNext
             PROVE  Counts'
  OBVIOUS
<1>1. Counts /\ MaxCreations \in Nat /\ MaxChanges \in Nat
  BY CreationAssumption DEF CreationTypeOK, Counts, CreationAssumption
<1>2. CASE CreateStrategy
  BY <1>1, <1>2 DEF CreateStrategy, Counts
<1>3. CASE Changing /\ UNCHANGED creations
  BY <1>1, <1>3 DEF Changing, Counts
<1>4. CASE UNCHANGED <<creations, changes>>
  BY <1>1, <1>4 DEF Counts
<1>5. \/ CreateStrategy \/ (Changing /\ UNCHANGED creations)
      \/ UNCHANGED <<creations, changes>>
  BY DEF CreationNext, CheckStatuses, UploadCertificate, InsertStrategy,
     EnterGroup, ConsiderSubcloud, ReturnStrategy, NoSteps, ApplyStrategy,
     EndStrategy, DeleteStrategy, RemoveCertificate, DestroyStrategy, Manage,
     AvailabilityChanges, StatusChanges, MoveSubcloud, PostGroup, PatchGroup,
     DeleteGroup
<1> QED
  BY <1>2, <1>3, <1>4, <1>5

LEMMA CreatorStep == CreationTypeOK /\ CreationNext => CreatorTypes'
<1> SUFFICES ASSUME CreationTypeOK, CreationNext
             PROVE  CreatorTypes'
  OBVIOUS
<1>1. CreatorTypes
  BY DEF CreationTypeOK, CreatorTypes
<1>2. CASE Finish
  BY <1>2, NoRequestType DEF Finish, CreatorTypes
<1>3. CASE UNCHANGED creator
  BY <1>1, <1>3 DEF creator, CreatorTypes
<1>4. CASE CreateStrategy
  BY <1>4 DEF CreateStrategy, CreatorTypes
<1>5. CASE CheckStatuses
  BY <1>1, <1>2, <1>5 DEF CheckStatuses, Proceed, CreatorTypes
<1>6. CASE UploadCertificate
  BY <1>1, <1>2, <1>6 DEF UploadCertificate, Proceed, CreatorTypes
<1>7. CASE InsertStrategy
  BY <1>1, <1>7 DEF InsertStrategy, CreatorTypes
<1>8. CASE EnterGroup
  BY <1>1, <1>8 DEF EnterGroup, CreatorTypes
<1>9. CASE ConsiderSubcloud
  BY <1>1, <1>2, <1>9 DEF ConsiderSubcloud, CreatorTypes
<1>10. CASE ReturnStrategy \/ NoSteps
  BY <1>2, <1>10 DEF ReturnStrategy, NoSteps
<1>11. ASSUME ~CreateStrategy, ~CheckStatuses, ~UploadCertificate, ~InsertStrategy,
              ~EnterGroup, ~ConsiderSubcloud, ~ReturnStrategy, ~NoSteps
       PROVE  UNCHANGED creator
  BY <1>11 DEF CreationNext, ApplyStrategy, EndStrategy, DeleteStrategy,
     RemoveCertificate, DestroyStrategy, Manage, AvailabilityChanges,
     StatusChanges, MoveSubcloud, PostGroup, PatchGroup, DeleteGroup
<1> QED
  BY <1>3, <1>4, <1>5, <1>6, <1>7, <1>8, <1>9, <1>10, <1>11

LEMMA StepsStep == CreationTypeOK /\ CreationNext => (steps \in [Subclouds -> Nat])'
<1> SUFFICES ASSUME CreationTypeOK, CreationNext
             PROVE  steps' \in [Subclouds -> Nat]
  OBVIOUS
<1>1. steps \in [Subclouds -> Nat] /\ acc.counter \in Nat
  BY DEF CreationTypeOK, TypeOK, StageCounters
<1>2. CASE ConsiderSubcloud
  BY <1>1, <1>2 DEF ConsiderSubcloud
<1>3. CASE DestroyStrategy
  BY <1>3 DEF DestroyStrategy
<1>4. CASE UNCHANGED steps
  BY <1>1, <1>4
<1>5. ConsiderSubcloud \/ DestroyStrategy \/ UNCHANGED steps
  BY DEF CreationNext, CreateStrategy, CheckStatuses, UploadCertificate,
     InsertStrategy, EnterGroup, ReturnStrategy, NoSteps, ApplyStrategy,
     EndStrategy, DeleteStrategy, RemoveCertificate, Manage, AvailabilityChanges,
     StatusChanges, MoveSubcloud, PostGroup, PatchGroup, DeleteGroup
<1> QED
  BY <1>2, <1>3, <1>4, <1>5

-------------------------------------------------------------------------------
(* The strategy and its certificate.                                       *)

Live == {"initial", "applying"}

\* The only strategy is replaced by one in another state.
LEMMA StateStep ==
  ASSUME StrategyTypes, NEW from, NEW to \in {"initial", "applying", "ended", "deleting"},
         SetState(from, to)
  PROVE  \E s \in strategy : /\ s.state \in from
                             /\ strategy' = {[state |-> to, cert |-> s.cert]}
                             /\ s.cert \subseteq Files
<1>1. PICK s \in strategy : s.state \in from /\ strategy' = {[s EXCEPT !.state = to]}
  BY DEF SetState
<1>2. s \in [state : {"initial", "applying", "ended", "deleting"}, cert : SUBSET Files]
  BY DEF StrategyTypes
<1>3. [s EXCEPT !.state = to] = [state |-> to, cert |-> s.cert]
  BY <1>2
<1> QED
  BY <1>1, <1>2, <1>3

CertInv == StrategyTypes /\ BeforeInsert /\ CertificatesSafe

LEMMA CertificateStep == CreationTypeOK /\ BeforeInsert /\ CertificatesSafe /\ CreationNext
                           => CertInv'
<1> SUFFICES ASSUME CreationTypeOK, BeforeInsert, CertificatesSafe, CreationNext
             PROVE  CertInv'
  OBVIOUS
<1>0. StrategyTypes /\ CreatorTypes
  BY DEF CreationTypeOK, StrategyTypes, CreatorTypes
<1>1. request.cert \subseteq Files
  BY <1>0, CertsOfRequests DEF CreatorTypes
<1> USE DEF CertInv
<1>2. CASE CreateStrategy
  BY <1>0, <1>2 DEF CreateStrategy, files, StrategyTypes, BeforeInsert, CertificatesSafe, Safe
<1>3. CASE CheckStatuses
  <2>1. UNCHANGED <<strategy, files>>
    BY <1>3 DEF CheckStatuses
  <2>2. StrategyTypes' /\ CertificatesSafe'
    BY <1>0, <2>1 DEF files, StrategyTypes, CertificatesSafe, Safe
  <2>3. ASSUME Finish
        PROVE  BeforeInsert'
    BY <2>3 DEF Finish, BeforeInsert
  <2>4. strategy' = {}
    BY <1>3, <2>1 DEF CheckStatuses, BeforeInsert
  <2>5. ASSUME Proceed("insert") /\ request.cert = {}
        PROVE  BeforeInsert'
    <3>1. pc' = "insert" /\ request' = request
      BY <2>5 DEF Proceed
    <3> QED
      BY <2>4, <2>5, <3>1 DEF BeforeInsert, Safe
  <2>6. ASSUME Proceed("upload") /\ request.cert # {}
        PROVE  BeforeInsert'
    <3>1. pc' = "upload" /\ request' = request
      BY <2>6 DEF Proceed
    <3> QED
      BY <2>4, <2>6, <3>1 DEF BeforeInsert
  <2>7. \/ Finish
        \/ Proceed("insert") /\ request.cert = {}
        \/ Proceed("upload") /\ request.cert # {}
    <3>1. CASE InDoubt(request, sub) # {}
      BY <1>3, <3>1 DEF CheckStatuses
    <3>2. CASE InDoubt(request, sub) = {} /\ request.cert = {}
      BY <1>3, <3>2 DEF CheckStatuses
    <3>3. CASE InDoubt(request, sub) = {} /\ request.cert # {}
      BY <1>3, <3>3 DEF CheckStatuses
    <3> QED
      BY <3>1, <3>2, <3>3
  <2>8. BeforeInsert'
    BY <2>3, <2>5, <2>6, <2>7
  <2> QED
    BY <2>2, <2>8
<1>4. CASE UploadCertificate
  <2>1. strategy = {} /\ strategy' = {} /\ removing' = removing
    BY <1>4 DEF UploadCertificate, BeforeInsert
  <2>2. CASE Finish /\ UNCHANGED <<vault, late>>
    BY <1>0, <2>1, <2>2 DEF Finish, StrategyTypes, BeforeInsert, CertificatesSafe
  <2>3. CASE /\ vault' = vault \cup request.cert
             /\ late' = (late \ request.cert) \cup (removing \cap request.cert)
             /\ Proceed("insert")
    <3>1. StrategyTypes'
      BY <1>0, <1>1, <2>1, <2>3 DEF StrategyTypes
    <3>2. Safe(request.cert)'
      BY <2>1, <2>3 DEF Proceed, Safe
    <3> QED
      BY <2>1, <2>3, <3>1, <3>2 DEF Proceed, BeforeInsert, CertificatesSafe
  <2> QED
    BY <1>4, <2>2, <2>3 DEF UploadCertificate
<1>5. CASE InsertStrategy
  <2>1. /\ strategy = {} /\ strategy' = {[state |-> "initial", cert |-> request.cert]}
        /\ Safe(request.cert) /\ UNCHANGED files /\ pc' = "groups"
    BY <1>5 DEF InsertStrategy, BeforeInsert
  <2>2. StrategyTypes'
    BY <1>0, <1>1, <2>1 DEF StrategyTypes, files
  <2>3. CertificatesSafe'
    BY <2>1 DEF CertificatesSafe, Safe, files
  <2> QED
    BY <2>1, <2>2, <2>3 DEF BeforeInsert
<1>6. CASE UNCHANGED <<strategy, files, pc, request>>
  BY <1>0, <1>6 DEF files, StrategyTypes, BeforeInsert, CertificatesSafe, Safe
<1>7. CASE Finish /\ UNCHANGED <<strategy, files>>
  BY <1>0, <1>7 DEF Finish, files, StrategyTypes, BeforeInsert, CertificatesSafe, Safe
<1>8. CASE NoSteps
  <2>1. \A x \in strategy' : \E s \in strategy : x = [state |-> "deleting", cert |-> s.cert]
    <3> TAKE x \in strategy'
    <3>1. PICK s \in strategy : x = [s EXCEPT !.state = "deleting"]
      BY <1>8, Zenon DEF NoSteps
    <3>2. s \in [state : {"initial", "applying", "ended", "deleting"}, cert : SUBSET Files]
      BY <1>0 DEF StrategyTypes
    <3>3. x = [state |-> "deleting", cert |-> s.cert]
      BY <3>1, <3>2
    <3> QED BY <3>3
  <2>2. \A s \in strategy' : s.state = "deleting"
    BY <2>1
  <2>3. UNION {s.cert : s \in strategy} \subseteq Files
    BY <1>0 DEF StrategyTypes
  <2>4. StrategyTypes'
    BY <1>0, <1>8, <2>1, <2>3 DEF NoSteps, StrategyTypes
  <2> QED
    BY <1>8, <2>2, <2>4 DEF NoSteps, Finish, BeforeInsert, CertificatesSafe
<1>9. CASE ApplyStrategy
  <2>1. PICK s \in strategy : /\ s.state \in {"initial"} /\ s.cert \subseteq Files
                             /\ strategy' = {[state |-> "applying", cert |-> s.cert]}
    BY <1>0, <1>9, StateStep DEF ApplyStrategy
  <2>2. Safe(s.cert)
    BY <2>1 DEF CertificatesSafe
  <2>3. UNCHANGED <<files, pc>> /\ pc \notin {"statuses", "upload", "insert"}
    BY <1>9, <2>1 DEF ApplyStrategy, creator, BeforeInsert
  <2> QED
    BY <1>0, <2>1, <2>2, <2>3 DEF files, StrategyTypes, BeforeInsert, CertificatesSafe, Safe
<1>10. CASE EndStrategy
  <2>1. PICK s \in strategy : /\ s.state \in {"applying"} /\ s.cert \subseteq Files
                             /\ strategy' = {[state |-> "ended", cert |-> s.cert]}
    BY <1>0, <1>10, StateStep DEF EndStrategy
  <2>2. UNCHANGED <<files, pc>> /\ pc \notin {"statuses", "upload", "insert"}
    BY <1>10, <2>1 DEF EndStrategy, creator, BeforeInsert
  <2> QED
    BY <1>0, <2>1, <2>2 DEF files, StrategyTypes, BeforeInsert, CertificatesSafe
<1>11. CASE DeleteStrategy
  <2>1. PICK s \in strategy : /\ s.state \in {"initial", "ended"} /\ s.cert \subseteq Files
                             /\ strategy' = {[state |-> "deleting", cert |-> s.cert]}
    BY <1>0, <1>11, StateStep DEF DeleteStrategy
  <2>2. UNION {t.cert : t \in strategy} \subseteq Files
    BY <1>0 DEF StrategyTypes
  <2>3. UNCHANGED <<vault, late, pc>> /\ pc \notin {"statuses", "upload", "insert"}
    BY <1>11, <2>1 DEF DeleteStrategy, creator, BeforeInsert
  <2>4. removing' = removing \cup UNION {t.cert : t \in strategy}
    BY <1>11 DEF DeleteStrategy
  <2> QED
    BY <1>0, <2>1, <2>2, <2>3, <2>4 DEF StrategyTypes, BeforeInsert, CertificatesSafe
<1>12. CASE RemoveCertificate
  <2>1. PICK f \in removing : /\ removing' = removing \ {f} /\ vault' = vault \ {f}
                             /\ UNCHANGED <<strategy, late, creator>>
    BY <1>12 DEF RemoveCertificate
  <2>2. \A cert : Safe(cert) => cert \subseteq vault' \cup late' /\ cert \cap removing' \subseteq late'
    BY <2>1 DEF Safe
  <2> QED
    BY <1>0, <2>1, <2>2 DEF creator, StrategyTypes, BeforeInsert, CertificatesSafe, Safe
<1>13. CASE DestroyStrategy
  BY <1>0, <1>13 DEF DestroyStrategy, files, creator, StrategyTypes, BeforeInsert,
     CertificatesSafe, Safe
<1>14. ASSUME ~CreateStrategy, ~CheckStatuses, ~UploadCertificate, ~InsertStrategy,
              ~NoSteps, ~ApplyStrategy, ~EndStrategy, ~DeleteStrategy,
              ~RemoveCertificate, ~DestroyStrategy
       PROVE  \/ UNCHANGED <<strategy, files, pc, request>>
              \/ Finish /\ UNCHANGED <<strategy, files>>
  BY <1>14 DEF CreationNext, EnterGroup, ConsiderSubcloud, ReturnStrategy, creator,
     Manage, AvailabilityChanges, StatusChanges, MoveSubcloud, PostGroup,
     PatchGroup, DeleteGroup
<1> QED
  BY <1>2, <1>3, <1>4, <1>5, <1>6, <1>7, <1>8, <1>9, <1>10, <1>11, <1>12, <1>13, <1>14

-------------------------------------------------------------------------------

LEMMA CreationInvariant == CreationSpec => []CInv
<1>1. CInv /\ CreationNext => CInv'
  <2> SUFFICES ASSUME CInv, CreationNext
               PROVE  CInv'
    OBVIOUS
  <2>1. IInv' /\ TypeOK'
    BY LoopStep DEF CInv, IInv
  <2>2. CertInv' /\ SubTypes' /\ GroupTypes' /\ CreatorTypes' /\ Counts'
    BY CertificateStep, WorldStep, CreatorStep, CountStep DEF CInv
  <2>3. steps' \in [Subclouds -> Nat]
    BY StepsStep DEF CInv
  <2>4. CreationTypeOK'
    BY <2>1, <2>2, <2>3 DEF CreationTypeOK, CertInv, SubTypes, GroupTypes, StrategyTypes,
       CreatorTypes, Counts
  <2> QED
    BY <2>1, <2>2, <2>4 DEF CInv, CertInv
<1>2. CInv /\ UNCHANGED creationVars => CInv'
  <2> SUFFICES ASSUME CInv, UNCHANGED creationVars
               PROVE  CInv'
    OBVIOUS
  <2>1. UNCHANGED stageVars /\ UNCHANGED <<world, strategy, steps, files, creator, creations,
                                          changes>>
    BY DEF creationVars
  <2>2. IInv' /\ TypeOK'
    BY <2>1, LoopStutters DEF CInv, IInv
  <2>3. CreationTypeOK'
    BY <2>1, <2>2 DEF CInv, CreationTypeOK, world, files, creator
  <2>4. BeforeInsert' /\ CertificatesSafe'
    BY <2>1 DEF CInv, BeforeInsert, CertificatesSafe, Safe, files, creator
  <2> QED
    BY <2>2, <2>3, <2>4 DEF CInv
<1> QED
  BY <1>1, <1>2, CreationInitInv, PTL DEF CreationSpec

(* Every state of a creation among changes and deletions is well typed.    *)
THEOREM CreationTyped == CreationSpec => []CreationTypeOK
<1>1. CInv => CreationTypeOK
  BY DEF CInv
<1> QED
  BY <1>1, CreationInvariant, PTL

(* Whatever changes while the steps are created, deletions and failures    *)
(* included, a stage keeps the limit of its group and holds one group.     *)
THEOREM CreationLimits == CreationSpec => []StageWithinLimits
<1>1. CInv => StageWithinLimits
  BY DEF CInv, IInv
<1> QED
  BY <1>1, CreationInvariant, PTL

(* And the stages ascend along the steps, none of a group short but its    *)
(* last.                                                                   *)
THEOREM CreationOrder == CreationSpec => []StagesInOrder
<1>1. CInv => StagesInOrder
  BY DEF CInv, IInv, StagesInOrder
<1> QED
  BY <1>1, CreationInvariant, PTL

(* The certificate of a strategy that waits or is applied is in the vault, *)
(* unless it was stored while the removal of an earlier copy was due.      *)
THEOREM CertificateStays == CreationSpec => []CertificateKept
<1>1. CInv => CertificateKept
  BY DEF CInv, CertificatesSafe, Safe, CertificateKept
<1> QED
  BY <1>1, CreationInvariant, PTL

--------------------------------------------------------------------------------
(* What is created is what was asked for.                                  *)

\* A nonempty set of ids, or of sizes, has a least element.
LEMMA LeastOf ==
  ASSUME NEW S \in SUBSET Nat, S # {}
  PROVE  \E x \in S : \A y \in S : x <= y
<1>1. PICK x \in S : \A y \in S : ~ (<<y, x>> \in OpToRel(<, Nat))
  BY NatLessThanWellFounded, WFMin
<1>2. ASSUME NEW y \in S
      PROVE  x <= y
  <2>1. <<y, x>> \in Nat \X Nat
    OBVIOUS
  <2>2. ~ (y < x)
    BY <2>1, <1>1, Zenon DEF OpToRel
  <2> QED
    BY <2>2
<1> QED
  BY <1>2

Ascends(f, n) == \A i, j \in 1..n : i < j => f[i] < f[j]

\* Ids can be put in their order: from a smallest set for which it could not be
\* done, take the least id away.
LEMMA OrderExists ==
  ASSUME NEW S \in SUBSET Nat, IsFiniteSet(S)
  PROVE  \E f \in [1..Cardinality(S) -> S] : Ascends(f, Cardinality(S))
<1> DEFINE Ordered(T) == \E f \in [1..Cardinality(T) -> T] : Ascends(f, Cardinality(T))
           Bad == {n \in Nat : \E T \in SUBSET Nat : /\ IsFiniteSet(T) /\ Cardinality(T) = n
                                                     /\ ~Ordered(T)}
<1>1. Bad = {}
  <2> SUFFICES ASSUME Bad # {} PROVE FALSE
    OBVIOUS
  <2>1. PICK n \in Bad : \A m \in Bad : n <= m
    BY LeastOf
  <2>2. PICK T \in SUBSET Nat : IsFiniteSet(T) /\ Cardinality(T) = n /\ ~Ordered(T)
    BY <2>1
  <2>3. n \in Nat
    BY <2>1
  <2>4. T # {}
    <3> SUFFICES ASSUME T = {} PROVE FALSE
      OBVIOUS
    <3>1. Cardinality(T) = 0
      BY FS_EmptySet
    <3>2. [i \in 1..0 |-> 0] \in [1..0 -> T] /\ Ascends([i \in 1..0 |-> 0], 0)
      BY DEF Ascends
    <3> QED
      BY <2>2, <3>1, <3>2
  <2>5. PICK x \in T : \A y \in T : x <= y
    BY <2>4, LeastOf
  <2> DEFINE R == T \ {x}
  <2>6. IsFiniteSet(R) /\ Cardinality(R) = n - 1 /\ R \in SUBSET Nat
    BY <2>2, <2>5, FS_RemoveElement
  <2>7. n - 1 \in Nat
    BY <2>6, FS_CardinalityType
  <2>8. Ordered(R)
    <3>1. n - 1 \notin Bad
      BY <2>1, <2>3, <2>7
    <3> HIDE DEF R, Ordered
    <3> QED
      BY <2>6, <2>7, <3>1
  <2>9. PICK f \in [1..(n - 1) -> R] : Ascends(f, n - 1)
    BY <2>6, <2>8
  <2> DEFINE g == [i \in 1..n |-> IF i = 1 THEN x ELSE f[i - 1]]
  <2>10. g \in [1..n -> T]
    <3> SUFFICES ASSUME NEW i \in 1..n PROVE g[i] \in T
      OBVIOUS
    <3>1. i # 1 => i - 1 \in 1..(n - 1)
      BY <2>3
    <3> QED
      BY <2>5, <2>9, <3>1
  <2>11. Ascends(g, n)
    <3> SUFFICES ASSUME NEW i \in 1..n, NEW j \in 1..n, i < j PROVE g[i] < g[j]
      BY DEF Ascends
    <3>1. j # 1 /\ j - 1 \in 1..(n - 1) /\ (i # 1 => i - 1 \in 1..(n - 1) /\ i - 1 < j - 1)
      BY <2>3
    <3>2. g[j] = f[j - 1] /\ f[j - 1] \in R
      BY <2>9, <3>1
    <3>3. CASE i = 1
      <4>1. x <= f[j - 1] /\ x # f[j - 1] /\ x \in Nat /\ f[j - 1] \in Nat
        BY <2>5, <3>2
      <4> QED
        BY <3>2, <3>3, <4>1
    <3>4. CASE i # 1
      <4>1. f[i - 1] < f[j - 1]
        BY <2>9, <3>1, <3>4 DEF Ascends
      <4> QED
        BY <3>2, <3>4, <4>1
    <3> QED
      BY <3>3, <3>4
  <2> HIDE DEF g
  <2> QED
    BY <2>2, <2>10, <2>11
<1>2. Cardinality(S) \in Nat
  BY FS_CardinalityType
<1> HIDE DEF Ordered
<1>3. Ordered(S)
  BY <1>1, <1>2
<1> QED
  BY <1>3 DEF Ordered

\* The order leaves no id out.
LEMMA IdsInOrder ==
  ASSUME NEW S \in SUBSET Nat, IsFiniteSet(S)
  PROVE  /\ IdsUp(S) \in [1..Cardinality(S) -> S]
         /\ Cardinality(S) \in Nat
         /\ \A s \in S : \E i \in 1..Cardinality(S) : IdsUp(S)[i] = s
<1> DEFINE n == Cardinality(S)
           f == IdsUp(S)
<1>1. n \in Nat
  BY FS_CardinalityType
<1>2. f \in [1..n -> S] /\ Ascends(f, n)
  BY OrderExists DEF IdsUp, Ascends
<1> HIDE DEF f
<1>3. \A i, j \in 1..n : f[i] = f[j] => i = j
  <2> SUFFICES ASSUME NEW i \in 1..n, NEW j \in 1..n, f[i] = f[j], i # j PROVE FALSE
    OBVIOUS
  <2>1. f[i] \in S /\ f[j] \in S
    BY <1>2
  <2>2. f[i] \in Nat /\ f[j] \in Nat
    BY <2>1
  <2>3. i \in Nat /\ j \in Nat
    BY <1>1
  <2>4. i < j \/ j < i
    BY <2>3
  <2>5. i < j => f[i] < f[j]
    BY <1>2 DEF Ascends
  <2>6. j < i => f[j] < f[i]
    BY <1>2 DEF Ascends
  <2> QED
    BY <2>2, <2>4, <2>5, <2>6
<1>4. f \in Injection(1..n, S)
  BY <1>2, <1>3 DEF Injection, IsInjective
<1>5. IsFiniteSet(1..n) /\ Cardinality(1..n) = n
  BY <1>1, FS_Interval
<1>6. f \in Surjection(1..n, S)
  BY <1>4, <1>5, FS_Injection
<1>7. \A s \in S : \E i \in 1..n : f[i] = s
  BY <1>6 DEF Surjection
<1> QED
  BY <1>1, <1>2, <1>7 DEF f

-------------------------------------------------------------------------------

Members(s) == {s[i] : i \in DOMAIN s}

\* A subcloud is in a group that is there.
GroupsHold == \A s \in Subclouds : groupRow[sub[s].group].exists

GroupRows == [id : Groups, serial : BOOLEAN, max : 1..MaxMaxParallel]
SubcloudRows == [id : Subclouds, managed : BOOLEAN, online : BOOLEAN]

History == [always : SUBSET Subclouds, reachable : SUBSET Subclouds,
            needing : SUBSET Subclouds, doubt : SUBSET Subclouds, calm : BOOLEAN]

\* What the creation has read, and what is recorded of it.
ReadTypes ==
  /\ groupRows \in Seq(GroupRows)
  /\ rows \in Seq(SubcloudRows)
  /\ since \in History

\* The history goes with what the subclouds are now.
WatchFits ==
  /\ since.always \subseteq Calling(request, sub)
  /\ OnceReachable(request, sub) \subseteq since.reachable
  /\ OnceNeeding(request, sub) \subseteq since.needing
  /\ since.doubt \subseteq InDoubt(request, sub)
  /\ pc # "statuses" => since.doubt = {}

\* A row read for a subcloud that has called for a step ever since is up to date.
UpToDate(row, s) == row.id = s /\ row.managed /\ row.online = sub[s].online

\* A subcloud that calls for a step has one, or its row is read, or its group,
\* or all groups will be.
AlwaysReached ==
  since.calm =>
    \A s \in since.always :
      \/ steps[s] # 0
      \/ \E row \in Members(rows) : UpToDate(row, s)
      \/ \E g \in Members(groupRows) : g.id = sub[s].group
      \/ pc # "groups" /\ request.group = {}

\* A step, or a row that may yet give one, is of a subcloud that was reachable.
StepsEarned ==
  /\ since.calm => \A s \in Subclouds : steps[s] # 0 =>
                     s \in since.reachable /\ s \in since.needing
  /\ \A row \in Members(rows) :
       Reachable(request, row) /\ (request.cloud # {} => row.id \in request.cloud)
         => row.id \in since.reachable
  /\ request.group # {} => \A g \in Members(groupRows) : g.id \in request.group
  /\ request.group # {} => request.cloud = {}

CreatingInv == pc # "idle" => WatchFits /\ AlwaysReached /\ StepsEarned

AskedInv ==
  /\ GroupsHold
  /\ ReadTypes
  /\ pc # "groups" => rows = <<>>
  /\ CreatingInv

\* The members of what is left of a sequence, and the one taken.
LEMMA TakeFirst ==
  ASSUME NEW S, NEW s \in Seq(S), s # <<>>
  PROVE  /\ Head(s) \in S /\ Tail(s) \in Seq(S)
         /\ Members(Tail(s)) \subseteq Members(s)
         /\ Head(s) \in Members(s)
         /\ \A x \in Members(s) : x = Head(s) \/ x \in Members(Tail(s))
<1>1. Head(s) \in S /\ Tail(s) \in Seq(S) /\ Len(Tail(s)) = Len(s) - 1
  BY HeadTailProperties
<1>2. Len(s) \in Nat \ {0} /\ DOMAIN s = 1..Len(s)
  BY EmptySeq, LenProperties
<1>3. DOMAIN Tail(s) = 1..(Len(s) - 1)
  BY <1>1, LenProperties
<1>4. \A i \in 1..(Len(s) - 1) : Tail(s)[i] = s[i + 1]
  BY <1>2
<1>5. Head(s) = s[1]
  BY <1>2
<1>6. ASSUME NEW x \in Members(Tail(s)) PROVE x \in Members(s)
  <2>1. PICK i \in 1..(Len(s) - 1) : x = Tail(s)[i]
    BY <1>3 DEF Members
  <2>2. i + 1 \in 1..Len(s) /\ x = s[i + 1]
    BY <1>2, <1>4, <2>1
  <2> QED
    BY <1>2, <2>2 DEF Members
<1>7. ASSUME NEW x \in Members(s), x # Head(s) PROVE x \in Members(Tail(s))
  <2>1. PICK i \in 1..Len(s) : x = s[i]
    BY <1>2 DEF Members
  <2>2. i # 1
    BY <1>5, <1>7, <2>1
  <2>3. i - 1 \in 1..(Len(s) - 1) /\ (i - 1) + 1 = i
    BY <1>2, <2>1, <2>2
  <2>4. x = Tail(s)[i - 1]
    BY <1>4, <2>1, <2>3
  <2> QED
    BY <1>3, <2>3, <2>4 DEF Members
<1>8. Head(s) \in Members(s)
  BY <1>2, <1>5 DEF Members
<1> QED
  BY <1>1, <1>6, <1>7, <1>8

\* The members of a sequence are of its set; the empty sequence has none.
LEMMA MembersOf ==
  ASSUME NEW S, NEW s \in Seq(S)
  PROVE  \A x \in Members(s) : x \in S
<1>1. DOMAIN s = 1..Len(s)
  BY LenProperties
<1> QED
  BY <1>1, ElementOfSeq DEF Members

LEMMA NoMembers == Members(<<>>) = {}
  BY DEF Members

LEMMA OneMember ==
  ASSUME NEW x
  PROVE  Members(<<x>>) = {x}
<1>1. DOMAIN <<x>> = {1} /\ <<x>>[1] = x
  OBVIOUS
<1> QED
  BY <1>1 DEF Members

\* A listing of ids, whatever is listed of each.
LEMMA Listing ==
  ASSUME NEW S \in SUBSET Nat, IsFiniteSet(S), NEW T, NEW list,
         DOMAIN list = 1..Cardinality(S),
         \A i \in 1..Cardinality(S) : list[i] \in T,
         list = [i \in 1..Cardinality(S) |-> list[i]]
  PROVE  list \in Seq(T)
<1>1. Cardinality(S) \in Nat
  BY FS_CardinalityType
<1>2. list \in [1..Cardinality(S) -> T]
  OBVIOUS
<1> QED
  BY <1>1, <1>2, SeqDef

LEMMA AskedAtFirst == CreationInit => AskedInv
<1> SUFFICES ASSUME CreationInit PROVE AskedInv
  OBVIOUS
<1>1. GroupsHold
  <2> SUFFICES ASSUME NEW s \in Subclouds PROVE groupRow[sub[s].group].exists
    BY DEF GroupsHold
  <2>1. sub[s].group \in Groups /\ s \in InGroup(sub[s].group)
    BY DEF CreationInit, InGroup
  <2> QED
    BY <2>1 DEF CreationInit
<1>2. ReadTypes
  BY DEF CreationInit, ReadTypes, History, Unwatched
<1> QED
  BY <1>1, <1>2 DEF CreationInit, AskedInv, CreatingInv

\* What a subcloud or a group becomes leaves no subcloud without a group.
LEMMA GroupsHoldStep ==
  ASSUME CreationTypeOK, GroupsHold, CreationNext
  PROVE  GroupsHold'
<1>1. CASE Manage
  BY <1>1 DEF Manage, GroupsHold, CreationTypeOK
<1>2. CASE AvailabilityChanges
  BY <1>2 DEF AvailabilityChanges, GroupsHold, CreationTypeOK
<1>3. CASE StatusChanges
  BY <1>3 DEF StatusChanges, GroupsHold, CreationTypeOK
<1>4. CASE MoveSubcloud
  BY <1>4 DEF MoveSubcloud, GroupsHold, CreationTypeOK
<1>5. CASE PostGroup
  BY <1>5 DEF PostGroup, GroupsHold, CreationTypeOK
<1>6. CASE PatchGroup
  <2>1. PICK g \in Groups, b \in BOOLEAN, n \in 1..MaxMaxParallel :
          groupRow' = [groupRow EXCEPT ![g].serial = b, ![g].max = n]
    BY <1>6 DEF PatchGroup
  <2>2. \A h \in Groups : groupRow'[h].exists = groupRow[h].exists
    BY <2>1 DEF CreationTypeOK
  <2> QED
    BY <1>6, <2>2 DEF PatchGroup, GroupsHold, CreationTypeOK
<1>7. CASE DeleteGroup
  <2>1. PICK g \in Groups : /\ InGroup(g) = {}
                            /\ groupRow' = [groupRow EXCEPT ![g].exists = FALSE]
    BY <1>7 DEF DeleteGroup
  <2>2. \A s \in Subclouds : sub[s].group # g
    BY <2>1 DEF InGroup
  <2> QED
    BY <1>7, <2>1, <2>2 DEF DeleteGroup, GroupsHold, CreationTypeOK
<1>8. CASE UNCHANGED world
  BY <1>8 DEF world, GroupsHold
<1> QED
  BY <1>1, <1>2, <1>3, <1>4, <1>5, <1>6, <1>7, <1>8
  DEF CreationNext, CreateStrategy, CheckStatuses, UploadCertificate,
     InsertStrategy, EnterGroup, ConsiderSubcloud, ReturnStrategy, NoSteps,
     ApplyStrategy, EndStrategy, DeleteStrategy, RemoveCertificate, DestroyStrategy

LEMMA RequestFields ==
  ASSUME NEW r \in Payloads
  PROVE  /\ r.cloud \in Optional(Subclouds) /\ r.group \in Optional(Groups)
         /\ r.cloud \subseteq Subclouds /\ r.group \subseteq Groups
<1>1. r \in PayloadType
  BY CreationAssumption DEF CreationAssumption
<1>2. r.cloud \in Optional(Subclouds) /\ r.group \in Optional(Groups)
  BY <1>1 DEF PayloadType
<1> QED
  BY <1>2, OptionalValue

LEMMA NamedSubclouds ==
  ASSUME NEW r \in Payloads, NEW table
  PROVE  Named(r, table) \subseteq Subclouds
BY RequestFields DEF Named

\* What the history says of a creation in progress after a change of a subcloud.
LEMMA WatchRecords ==
  ASSUME CreationTypeOK, ReadTypes, Watch, pc # "idle"
  PROVE  /\ since'.always = {s \in since.always \cap Calling(request, sub') :
                               /\ sub'[s].group = sub[s].group
                               /\ sub'[s].online = sub[s].online}
         /\ since'.reachable = since.reachable \cup OnceReachable(request, sub')
         /\ since'.needing = since.needing \cup OnceNeeding(request, sub')
         /\ since'.doubt = since.doubt \cap InDoubt(request, sub')
         /\ since'.calm = since.calm
         /\ since' \in History
<1> DEFINE always == {s \in since.always \cap Calling(request, sub') :
                        /\ sub'[s].group = sub[s].group
                        /\ sub'[s].online = sub[s].online}
           reachable == since.reachable \cup OnceReachable(request, sub')
           needing == since.needing \cup OnceNeeding(request, sub')
           doubt == since.doubt \cap InDoubt(request, sub')
<1>1. since \in History
  BY DEF ReadTypes
<1>2. always \subseteq Subclouds /\ doubt \subseteq Subclouds
  BY <1>1 DEF History
<1>3. Named(request, sub') \subseteq Subclouds
  BY NamedSubclouds DEF CreationTypeOK
<1>4. reachable \subseteq Subclouds /\ needing \subseteq Subclouds
  BY <1>1, <1>3 DEF OnceReachable, OnceNeeding, History
<1>5. since' = [since EXCEPT !.always = always, !.reachable = reachable,
                             !.needing = needing, !.doubt = doubt]
  BY DEF Watch
<1> HIDE DEF always, reachable, needing, doubt
<1>6. /\ since'.always = always /\ since'.reachable = reachable /\ since'.needing = needing
      /\ since'.doubt = doubt /\ since'.calm = since.calm
      /\ since' \in History
  BY <1>1, <1>2, <1>4, <1>5 DEF History
<1> QED
  BY <1>6 DEF always, reachable, needing, doubt

\* Subclouds change: those that called for a step and no longer do, or are no
\* longer what was read of them, are not counted among them any more.
LEMMA WatchStep ==
  ASSUME CreationTypeOK, AskedInv, Watch, GroupsHold', UNCHANGED <<steps, creator>>
  PROVE  AskedInv'
<1> USE DEF creator
<1>1. CASE pc = "idle"
  <2>1. since' = since
    BY <1>1 DEF Watch
  <2> QED
    BY <1>1, <2>1 DEF AskedInv, ReadTypes, CreatingInv
<1>2. CASE pc # "idle"
  <2>1. /\ since'.always = {s \in since.always \cap Calling(request, sub') :
                              /\ sub'[s].group = sub[s].group
                              /\ sub'[s].online = sub[s].online}
        /\ since'.reachable = since.reachable \cup OnceReachable(request, sub')
        /\ since'.needing = since.needing \cup OnceNeeding(request, sub')
        /\ since'.doubt = since.doubt \cap InDoubt(request, sub')
        /\ since'.calm = since.calm
        /\ since' \in History
    BY <1>2, WatchRecords DEF AskedInv
  <2>2. ReadTypes'
    BY <2>1 DEF AskedInv, ReadTypes
  <2>3. WatchFits /\ AlwaysReached /\ StepsEarned
    BY <1>2 DEF AskedInv, CreatingInv
  <2>4. WatchFits'
    BY <2>1, <2>3 DEF WatchFits
  <2>5. AlwaysReached'
    <3> SUFFICES ASSUME since.calm, NEW s \in since'.always
                 PROVE  \/ steps[s] # 0
                        \/ \E row \in Members(rows) :
                             row.id = s /\ row.managed /\ row.online = sub'[s].online
                        \/ \E g \in Members(groupRows) : g.id = sub'[s].group
                        \/ pc # "groups" /\ request.group = {}
      BY <2>1 DEF AlwaysReached, UpToDate
    <3> QED
      BY <2>1, <2>3 DEF AlwaysReached, UpToDate
  <2>6. StepsEarned'
    BY <2>1, <2>3 DEF StepsEarned
  <2> QED
    BY <2>2, <2>4, <2>5, <2>6 DEF AskedInv, CreatingInv
<1> QED
  BY <1>1, <1>2

\* A creation begins with the subclouds that call for a step now.
LEMMA CreateAsked ==
  ASSUME CreationTypeOK, AskedInv, CreateStrategy
  PROVE  AskedInv'
<1>1. PICK r \in Payloads :
        /\ Accepted(r)
        /\ request' = r
        /\ groupRows' = IF r.group = {} THEN <<>> ELSE <<Row(CHOOSE g \in r.group : TRUE)>>
        /\ since' = [always |-> Calling(r, sub), reachable |-> OnceReachable(r, sub),
                     needing |-> OnceNeeding(r, sub), doubt |-> InDoubt(r, sub),
                     calm |-> \A s \in Subclouds : steps[s] = 0]
  BY DEF CreateStrategy
<1>2. /\ pc = "idle" /\ pc' = "statuses"
      /\ UNCHANGED <<world, steps, rows>>
  BY DEF CreateStrategy
<1>3. /\ r.group \subseteq Groups
      /\ \A x, y \in r.group : x = y
  BY RequestFields, OptionalValue
<1> DEFINE g == CHOOSE x \in r.group : TRUE
<1>4. r.group # {} => g \in r.group /\ r.group = {g}
  BY <1>3
<1>5. r.group # {} => Row(g) \in GroupRows
  BY <1>3, <1>4 DEF Row, GroupRows, CreationTypeOK
<1>6. rows = <<>>
  BY <1>2 DEF AskedInv
<1>7. Named(r, sub) \subseteq Subclouds
  BY NamedSubclouds
<1> HIDE DEF g
<1>8. ReadTypes'
  <2>1. groupRows' \in Seq(GroupRows)
    BY <1>1, <1>5 DEF g
  <2>2. since' \in History
    <3>1. /\ Calling(r, sub) \subseteq Subclouds /\ OnceReachable(r, sub) \subseteq Subclouds
          /\ OnceNeeding(r, sub) \subseteq Subclouds /\ InDoubt(r, sub) \subseteq Subclouds
      BY <1>7 DEF Calling, OnceReachable, OnceNeeding, InDoubt
    <3> QED
      BY <1>1, <3>1 DEF History
  <2> QED
    BY <1>2, <2>1, <2>2 DEF AskedInv, ReadTypes
<1>9. /\ since'.always = Calling(r, sub) /\ since'.reachable = OnceReachable(r, sub)
      /\ since'.needing = OnceNeeding(r, sub) /\ since'.doubt = InDoubt(r, sub)
      /\ since'.calm <=> \A s \in Subclouds : steps[s] = 0
  BY <1>1
<1>10. WatchFits'
  BY <1>1, <1>2, <1>9 DEF WatchFits, world
<1>11. Members(groupRows') = IF r.group = {} THEN {} ELSE {Row(g)}
  <2>1. groupRows' = IF r.group = {} THEN <<>> ELSE <<Row(g)>>
    BY <1>1 DEF g
  <2> QED
    BY <2>1, NoMembers, OneMember
<1>12. r.group # {} => Row(g).id = g
  BY DEF Row
<1>13. AlwaysReached'
  <2> SUFFICES ASSUME NEW s \in Calling(r, sub)
               PROVE  \/ \E h \in Members(groupRows') : h.id = sub[s].group
                      \/ r.group = {}
    BY <1>1, <1>2, <1>9 DEF AlwaysReached, world
  <2>1. r.group # {} => r.cloud = {}
    BY <1>1 DEF Accepted
  <2>2. r.group # {} => sub[s].group \in r.group
    BY <2>1 DEF Calling, Named
  <2> QED
    BY <1>4, <1>11, <1>12, <2>2
<1>14. StepsEarned'
  <2>1. r.group # {} => r.cloud = {}
    BY <1>1 DEF Accepted
  <2>2. Members(rows') = {}
    BY <1>2, <1>6, NoMembers
  <2>3. since'.calm => \A s \in Subclouds : steps'[s] = 0
    BY <1>2, <1>9
  <2>4. r.group # {} => \A h \in Members(groupRows') : h.id \in r.group
    BY <1>4, <1>11, <1>12
  <2> QED
    BY <1>1, <2>1, <2>2, <2>3, <2>4 DEF StepsEarned
<1>15. GroupsHold'
  BY <1>2 DEF AskedInv, GroupsHold, world
<1> QED
  BY <1>2, <1>6, <1>8, <1>10, <1>13, <1>14, <1>15 DEF AskedInv, CreatingInv

\* It ends.
LEMMA FinishAsked ==
  ASSUME AskedInv, Finish, UNCHANGED world
  PROVE  AskedInv'
<1>1. ReadTypes'
  BY DEF Finish, ReadTypes, History, Unwatched
<1>2. GroupsHold'
  BY DEF AskedInv, GroupsHold, world
<1> QED
  BY <1>1, <1>2 DEF Finish, AskedInv, CreatingInv

\* It goes on; the checks of the statuses find nobody in doubt.
LEMMA ProceedAsked ==
  ASSUME AskedInv, UNCHANGED <<world, steps, request, groupRows, rows, since>>,
         pc \in {"statuses", "upload"}, pc' \in {"upload", "insert"},
         pc = "statuses" => InDoubt(request, sub) = {}
  PROVE  AskedInv'
<1>1. WatchFits /\ AlwaysReached /\ StepsEarned /\ rows = <<>>
  BY DEF AskedInv, CreatingInv
<1>2. WatchFits'
  BY <1>1 DEF WatchFits, world
<1>3. AlwaysReached'
  BY <1>1 DEF AlwaysReached, UpToDate, world
<1>4. StepsEarned'
  BY <1>1 DEF StepsEarned
<1>5. ReadTypes' /\ GroupsHold'
  BY DEF AskedInv, ReadTypes, GroupsHold, world
<1> QED
  BY <1>1, <1>2, <1>3, <1>4, <1>5 DEF AskedInv, CreatingInv

\* The groups to go through are all there are, and so those of all subclouds.
LEMMA InsertAsked ==
  ASSUME CreationTypeOK, AskedInv, InsertStrategy
  PROVE  AskedInv'
<1> DEFINE here == {g \in Groups : groupRow[g].exists}
           ids == IdsUp(here)
           n == Cardinality(here)
<1>1. /\ pc = "insert" /\ pc' = "groups"
      /\ groupRows' = IF request.group = {} THEN [i \in 1..n |-> Row(ids[i])] ELSE groupRows
      /\ UNCHANGED <<world, steps, request, rows, since>>
  BY DEF InsertStrategy
<1>2. here \in SUBSET Nat /\ IsFiniteSet(here) /\ here \subseteq Groups
  BY CreationAssumption, FS_Subset DEF CreationAssumption
<1> HIDE DEF here
<1>3. /\ ids \in [1..n -> here] /\ n \in Nat
      /\ \A g \in here : \E i \in 1..n : ids[i] = g
  BY <1>2, IdsInOrder
<1> HIDE DEF ids, n
<1>4. WatchFits /\ AlwaysReached /\ StepsEarned /\ rows = <<>> /\ ReadTypes /\ GroupsHold
  BY <1>1 DEF AskedInv, CreatingInv
<1>5. \A g \in Groups : Row(g) \in GroupRows /\ Row(g).id = g
  BY DEF Row, GroupRows, CreationTypeOK
<1>6. request.group = {} => groupRows' \in Seq(GroupRows)
  <2> SUFFICES ASSUME request.group = {} PROVE groupRows' \in Seq(GroupRows)
    OBVIOUS
  <2>1. \A i \in 1..n : Row(ids[i]) \in GroupRows
    BY <1>2, <1>3, <1>5
  <2>2. groupRows' \in [1..n -> GroupRows]
    BY <1>1, <2>1
  <2> QED
    BY <1>3, <2>2, SeqDef
<1>7. ReadTypes'
  BY <1>1, <1>4, <1>6 DEF ReadTypes
<1>8. request.group = {} => \A g \in here : \E h \in Members(groupRows') : h.id = g
  <2> SUFFICES ASSUME request.group = {}, NEW g \in here
               PROVE  \E h \in Members(groupRows') : h.id = g
    OBVIOUS
  <2>1. PICK i \in 1..n : ids[i] = g
    BY <1>3
  <2>2. groupRows'[i] = Row(g) /\ i \in DOMAIN groupRows' /\ Row(g).id = g
    BY <1>1, <1>2, <1>5, <2>1
  <2> QED
    BY <2>2 DEF Members
<1>9. WatchFits'
  BY <1>1, <1>4 DEF WatchFits, world
<1>10. AlwaysReached'
  <2> SUFFICES ASSUME since.calm, NEW s \in since.always
               PROVE  \/ steps[s] # 0
                      \/ \E g \in Members(groupRows') : g.id = sub[s].group
    BY <1>1 DEF AlwaysReached, world
  <2>1. s \in Subclouds
    BY <1>4 DEF ReadTypes, History
  <2>2. sub[s].group \in here
    BY <1>4, <2>1 DEF GroupsHold, here, CreationTypeOK
  <2>3. CASE request.group = {}
    BY <1>8, <2>2, <2>3
  <2>4. CASE request.group # {}
    BY <1>1, <1>4, <2>4, NoMembers DEF AlwaysReached
  <2> QED
    BY <2>3, <2>4
<1>11. StepsEarned'
  <2>1. since.calm => \A s \in Subclouds :
        steps[s] = 0 \/ (s \in since.reachable /\ s \in since.needing)
    BY <1>4 DEF StepsEarned
  <2>2. Members(rows) = {}
    BY <1>4, NoMembers
  <2> QED
    BY <1>1, <1>4, <2>1, <2>2 DEF StepsEarned
<1>12. GroupsHold'
  BY <1>1, <1>4 DEF GroupsHold, world
<1> QED
  BY <1>1, <1>7, <1>9, <1>10, <1>11, <1>12 DEF AskedInv, CreatingInv

\* The rows of a group's subclouds are those of all its subclouds.
LEMMA EnterAsked ==
  ASSUME CreationTypeOK, AskedInv, EnterGroup
  PROVE  AskedInv'
<1> DEFINE g == Head(groupRows)
           here == InGroup(g.id)
           ids == IdsUp(here)
           n == Cardinality(here)
           row(s) == [id |-> s, managed |-> sub[s].managed, online |-> sub[s].online]
<1>1. /\ pc = "groups" /\ rows = <<>> /\ groupRows # <<>>
      /\ groupRows' = Tail(groupRows)
      /\ rows' = [i \in DOMAIN ids |-> row(ids[i])]
      /\ UNCHANGED <<world, steps, pc, request, since>>
  BY DEF EnterGroup
<1>2. WatchFits /\ AlwaysReached /\ StepsEarned /\ ReadTypes /\ GroupsHold
  BY <1>1 DEF AskedInv, CreatingInv
<1>3. /\ g \in GroupRows /\ Tail(groupRows) \in Seq(GroupRows)
      /\ Members(Tail(groupRows)) \subseteq Members(groupRows)
      /\ g \in Members(groupRows)
      /\ \A h \in Members(groupRows) : h = g \/ h \in Members(Tail(groupRows))
  BY <1>1, <1>2, TakeFirst DEF ReadTypes
<1> HIDE DEF g
<1>4. here \in SUBSET Nat /\ IsFiniteSet(here) /\ here \subseteq Subclouds
  BY CreationAssumption, FS_Subset DEF CreationAssumption, InGroup
<1>5. \A s \in here : sub[s].group = g.id
  BY DEF InGroup
<1>6. \A s \in Subclouds : sub[s].group = g.id => s \in here
  BY DEF InGroup
<1> HIDE DEF here
<1>7. /\ ids \in [1..n -> here] /\ n \in Nat
      /\ \A s \in here : \E i \in 1..n : ids[i] = s
  BY <1>4, IdsInOrder
<1> HIDE DEF ids, n
<1>8. \A s \in Subclouds : row(s) \in SubcloudRows
  BY DEF SubcloudRows, CreationTypeOK
<1> HIDE DEF row
<1>9. rows' \in [1..n -> SubcloudRows]
  BY <1>1, <1>4, <1>7, <1>8
<1>10. ReadTypes'
  <2>1. rows' \in Seq(SubcloudRows)
    BY <1>7, <1>9, SeqDef
  <2> QED
    BY <1>1, <1>2, <1>3, <2>1 DEF ReadTypes
<1>11. \A s \in here : row(s) \in Members(rows')
  <2> SUFFICES ASSUME NEW s \in here PROVE row(s) \in Members(rows')
    OBVIOUS
  <2>1. PICK i \in 1..n : ids[i] = s
    BY <1>7
  <2>2. i \in DOMAIN rows' /\ rows'[i] = row(s)
    BY <1>1, <1>7, <2>1
  <2> QED
    BY <2>2 DEF Members
<1>12. \A r \in Members(rows') : \E s \in here : r = row(s)
  <2> SUFFICES ASSUME NEW r \in Members(rows') PROVE \E s \in here : r = row(s)
    OBVIOUS
  <2>1. PICK i \in DOMAIN rows' : r = rows'[i]
    BY DEF Members
  <2>2. i \in 1..n /\ r = row(ids[i])
    BY <1>1, <1>7, <2>1
  <2> QED
    BY <1>7, <2>2
<1>13. WatchFits'
  BY <1>1, <1>2 DEF WatchFits, world
<1>14. AlwaysReached'
  <2> SUFFICES ASSUME since.calm, NEW s \in since.always
               PROVE  \/ steps[s] # 0
                      \/ \E r \in Members(rows') : UpToDate(r, s)
                      \/ \E h \in Members(groupRows') : h.id = sub[s].group
    <3>1. \A r, x : UpToDate(r, x)' <=> UpToDate(r, x)
      BY <1>1 DEF UpToDate, world
    <3> QED
      BY <1>1, <3>1 DEF AlwaysReached, UpToDate, world
  <2>1. s \in Subclouds /\ s \in Calling(request, sub)
    BY <1>2 DEF ReadTypes, History, WatchFits
  <2>2. \/ steps[s] # 0
        \/ \E h \in Members(groupRows) : h.id = sub[s].group
    BY <1>1, <1>2, NoMembers DEF AlwaysReached
  <2>3. CASE sub[s].group = g.id
    <3>1. row(s) \in Members(rows')
      BY <1>6, <1>11, <2>1, <2>3
    <3>2. UpToDate(row(s), s)
      BY <2>1 DEF UpToDate, Calling, Reachable, row
    <3> QED
      BY <3>1, <3>2
  <2>4. CASE sub[s].group # g.id
    BY <1>1, <1>3, <2>2, <2>4
  <2> QED
    BY <2>3, <2>4
<1>15. StepsEarned'
  <2>1. ASSUME NEW r \in Members(rows'), Reachable(request, r),
               request.cloud # {} => r.id \in request.cloud
        PROVE  r.id \in since.reachable
    <3>1. PICK s \in here : r = row(s)
      BY <1>12
    <3>2. r.id = s /\ s \in Subclouds
      BY <1>4, <3>1 DEF row
    <3>3. request.group # {} => sub[s].group \in request.group
      BY <1>2, <1>3, <1>5 DEF StepsEarned
    <3>4. s \in Named(request, sub)
      BY <2>1, <3>2, <3>3 DEF Named
    <3>5. Reachable(request, sub[s])
      BY <2>1, <3>1 DEF Reachable, row
    <3>6. s \in OnceReachable(request, sub)
      BY <3>4, <3>5 DEF OnceReachable
    <3> QED
      BY <1>2, <3>2, <3>6 DEF WatchFits
  <2>2. since.calm => \A s \in Subclouds :
        steps[s] = 0 \/ (s \in since.reachable /\ s \in since.needing)
    BY <1>2 DEF StepsEarned
  <2>3. request.group # {} => \A h \in Members(groupRows') : h.id \in request.group
    BY <1>1, <1>2, <1>3 DEF StepsEarned
  <2> QED
    BY <1>1, <1>2, <2>1, <2>2, <2>3 DEF StepsEarned
<1>16. GroupsHold'
  BY <1>1, <1>2 DEF GroupsHold, world
<1> QED
  BY <1>1, <1>10, <1>13, <1>14, <1>15, <1>16 DEF AskedInv, CreatingInv

\* A subcloud that has called for a step all along gets it; one that gets it was
\* reachable when its row was read, and is in need now.
LEMMA ConsiderAsked ==
  ASSUME CreationTypeOK, AskedInv, ConsiderSubcloud
  PROVE  AskedInv'
<1> DEFINE row == Head(rows)
           needed == StepNeeded(request, row)
           next == rows' = Tail(rows) /\ UNCHANGED <<pc, request, groupRows, since>>
<1>1. /\ pc = "groups" /\ rows # <<>>
      /\ UNCHANGED world
      /\ \/ ~needed /\ next /\ UNCHANGED steps
         \/ needed /\ next /\ steps' = [steps EXCEPT ![row.id] = acc.counter]
         \/ Finish
  BY DEF ConsiderSubcloud
<1>2. WatchFits /\ AlwaysReached /\ StepsEarned /\ ReadTypes /\ GroupsHold
  BY <1>1 DEF AskedInv, CreatingInv
<1>3. /\ row \in SubcloudRows /\ Tail(rows) \in Seq(SubcloudRows)
      /\ Members(Tail(rows)) \subseteq Members(rows)
      /\ row \in Members(rows)
      /\ \A r \in Members(rows) : r = row \/ r \in Members(Tail(rows))
  BY <1>1, <1>2, TakeFirst DEF ReadTypes
<1>4. row.id \in Subclouds /\ row.online \in BOOLEAN
  BY <1>3 DEF SubcloudRows
<1> HIDE DEF row
<1>5. ASSUME NEW s \in since.always, UpToDate(row, s)
      PROVE  needed
  <2>1. s \in Calling(request, sub)
    BY <1>2 DEF WatchFits
  <2>2. /\ s \in Named(request, sub) /\ Reachable(request, sub[s])
        /\ Needs(request, sub[s].online, sub[s].status)
    BY <2>1 DEF Calling
  <2>3. row.id = s /\ row.managed /\ row.online = sub[s].online
    BY <1>5 DEF UpToDate
  <2>4. Reachable(request, row)
    BY <2>2, <2>3 DEF Reachable
  <2>5. request.cloud # {} => row.id \in request.cloud
    BY <2>2, <2>3 DEF Named
  <2> QED
    BY <2>2, <2>3, <2>4, <2>5 DEF StepNeeded
<1>6. ASSUME needed
      PROVE  row.id \in since.reachable /\ row.id \in since.needing
  <2>1. /\ request.cloud # {} => row.id \in request.cloud
        /\ Reachable(request, row)
        /\ Needs(request, row.online, sub[row.id].status)
    BY <1>6 DEF StepNeeded
  <2>2. row.id \in since.reachable
    BY <1>2, <1>3, <2>1 DEF StepsEarned
  <2>3. row.id \in OnceNeeding(request, sub)
    BY <1>4, <2>1 DEF OnceNeeding
  <2> QED
    BY <1>2, <2>2, <2>3 DEF WatchFits
<1>7. acc.counter # 0
  BY DEF CreationTypeOK, TypeOK, StageCounters
<1>8. CASE Finish
  BY <1>1, <1>8, FinishAsked
<1>9. ASSUME next,
             \/ ~needed /\ UNCHANGED steps
             \/ needed /\ steps' = [steps EXCEPT ![row.id] = acc.counter]
      PROVE  AskedInv'
  <2>1. \A s \in Subclouds : steps'[s] = IF needed /\ s = row.id THEN acc.counter ELSE steps[s]
    BY <1>9 DEF CreationTypeOK
  <2>2. WatchFits'
    BY <1>1, <1>2, <1>9 DEF WatchFits, world
  <2>3. AlwaysReached'
    <3>1. \A r, x : UpToDate(r, x)' <=> UpToDate(r, x)
      BY <1>1 DEF UpToDate, world
    <3> SUFFICES ASSUME since.calm, NEW s \in since.always
                 PROVE  \/ steps'[s] # 0
                        \/ \E r \in Members(Tail(rows)) : UpToDate(r, s)
                        \/ \E h \in Members(groupRows) : h.id = sub[s].group
      BY <1>1, <1>9, <3>1 DEF AlwaysReached, UpToDate, world
    <3>2. s \in Subclouds
      BY <1>2 DEF ReadTypes, History
    <3>3. CASE \E r \in Members(rows) : UpToDate(r, s)
      <4>1. PICK r \in Members(rows) : UpToDate(r, s)
        BY <3>3
      <4>2. r = row => needed /\ row.id = s
        BY <1>5, <4>1 DEF UpToDate
      <4> QED
        BY <1>3, <1>7, <2>1, <3>2, <4>1, <4>2
    <3>4. steps[s] # 0 => steps'[s] # 0
      BY <1>7, <2>1, <3>2
    <3> QED
      BY <1>1, <1>2, <3>3, <3>4 DEF AlwaysReached
  <2>4. StepsEarned'
    <3>1. since.calm => \A s \in Subclouds :
          steps'[s] # 0 => s \in since.reachable /\ s \in since.needing
      BY <1>2, <1>6, <2>1 DEF StepsEarned
    <3> QED
      BY <1>2, <1>3, <1>9, <3>1 DEF StepsEarned
  <2>5. ReadTypes' /\ GroupsHold'
    BY <1>1, <1>2, <1>3, <1>9 DEF ReadTypes, GroupsHold, world
  <2> QED
    BY <1>1, <1>9, <2>2, <2>3, <2>4, <2>5 DEF AskedInv, CreatingInv
<1> QED
  BY <1>1, <1>8, <1>9

\* The steps are destroyed, and the creation, if there is one, was cut into.
LEMMA DestroyAsked ==
  ASSUME AskedInv, DestroyStrategy
  PROVE  AskedInv'
<1>1. /\ UNCHANGED <<world, creator>>
      /\ since' = [since EXCEPT !.calm = since.calm /\ pc = "idle"]
      /\ since \in History
  BY DEF DestroyStrategy, AskedInv, ReadTypes
<1>2. since' \in History
  BY <1>1 DEF History
<1>3. ReadTypes' /\ GroupsHold'
  BY <1>1, <1>2 DEF AskedInv, ReadTypes, GroupsHold, world, creator
<1>4. ASSUME pc # "idle"
      PROVE  WatchFits' /\ AlwaysReached' /\ StepsEarned'
  <2>1. /\ since'.always = since.always /\ since'.reachable = since.reachable
        /\ since'.needing = since.needing /\ since'.doubt = since.doubt
        /\ ~since'.calm
    BY <1>1, <1>4 DEF History
  <2>2. WatchFits /\ StepsEarned
    BY <1>4 DEF AskedInv, CreatingInv
  <2> QED
    BY <1>1, <2>1, <2>2 DEF WatchFits, AlwaysReached, StepsEarned, world, creator
<1> QED
  BY <1>1, <1>3, <1>4 DEF AskedInv, CreatingInv, creator

\* Nothing that the creation has read or goes by changes.
LEMMA ElsewhereAsked ==
  ASSUME AskedInv, GroupsHold', UNCHANGED <<sub, steps, creator, since>>
  PROVE  AskedInv'
<1>1. ReadTypes'
  BY DEF AskedInv, ReadTypes, creator
<1>2. WatchFits => WatchFits'
  BY DEF WatchFits, creator
<1>3. AlwaysReached => AlwaysReached'
  BY DEF AlwaysReached, UpToDate, creator
<1>4. StepsEarned => StepsEarned'
  BY DEF StepsEarned, creator
<1> QED
  BY <1>1, <1>2, <1>3, <1>4 DEF AskedInv, CreatingInv, creator

LEMMA AskedStep ==
  ASSUME CreationTypeOK, AskedInv, CreationNext
  PROVE  AskedInv'
<1>1. GroupsHold'
  BY GroupsHoldStep DEF AskedInv
<1>2. CASE CreateStrategy
  BY <1>2, CreateAsked
<1>3. CASE CheckStatuses
  <2>1. CASE InDoubt(request, sub) # {}
    BY <1>3, <2>1, FinishAsked DEF CheckStatuses
  <2>2. CASE InDoubt(request, sub) = {}
    BY <1>3, <2>2, ProceedAsked DEF CheckStatuses, Proceed
  <2> QED
    BY <2>1, <2>2
<1>4. CASE UploadCertificate
  BY <1>4, FinishAsked, ProceedAsked DEF UploadCertificate, Proceed
<1>5. CASE InsertStrategy
  BY <1>5, InsertAsked
<1>6. CASE EnterGroup
  BY <1>6, EnterAsked
<1>7. CASE ConsiderSubcloud
  BY <1>7, ConsiderAsked
<1>8. CASE ReturnStrategy \/ NoSteps
  BY <1>8, FinishAsked DEF ReturnStrategy, NoSteps
<1>9. CASE DestroyStrategy
  BY <1>9, DestroyAsked
<1>10. CASE Manage \/ AvailabilityChanges \/ StatusChanges \/ MoveSubcloud
  BY <1>1, <1>10, WatchStep DEF Manage, AvailabilityChanges, StatusChanges, MoveSubcloud
<1>11. CASE \/ ApplyStrategy \/ EndStrategy \/ DeleteStrategy \/ RemoveCertificate
            \/ PostGroup \/ PatchGroup \/ DeleteGroup
  BY <1>1, <1>11, ElsewhereAsked
  DEF ApplyStrategy, EndStrategy, DeleteStrategy, RemoveCertificate, PostGroup, PatchGroup,
      DeleteGroup, world
<1> QED
  BY <1>2, <1>3, <1>4, <1>5, <1>6, <1>7, <1>8, <1>9, <1>10, <1>11 DEF CreationNext

(* Of a creation that no deletion cut into, however many subclouds and     *)
(* groups there are and whatever becomes of them meanwhile, the subclouds  *)
(* that called for the update all along have a step, those that have one   *)
(* were reachable and in need, and none was in doubt all along.            *)
THEOREM CreationAsAsked == CreationSpec => []CreatedAsAsked
<1>1. AskedInv /\ UNCHANGED creationVars => AskedInv'
  <2> SUFFICES ASSUME AskedInv, UNCHANGED creationVars PROVE AskedInv'
    OBVIOUS
  <2>1. GroupsHold'
    BY DEF AskedInv, GroupsHold, creationVars, world
  <2> QED
    BY <2>1, ElsewhereAsked DEF creationVars, world
<1>2. CreationTypeOK /\ AskedInv /\ [CreationNext]_creationVars => AskedInv'
  BY <1>1, AskedStep
<1>3. CreationTypeOK /\ AskedInv => CreatedAsAsked
  <2> SUFFICES ASSUME CreationTypeOK, AskedInv, Created, since.calm
               PROVE  LET stepped == {s \in Subclouds : steps[s] # 0}
                      IN /\ since.always \subseteq stepped
                         /\ stepped \subseteq since.reachable \cap since.needing
                         /\ since.doubt = {}
    BY DEF CreatedAsAsked
  <2>1. pc = "groups" /\ Members(rows) = {} /\ Members(groupRows) = {}
    BY NoMembers DEF Created
  <2>2. WatchFits /\ AlwaysReached /\ StepsEarned
    BY <2>1 DEF AskedInv, CreatingInv
  <2>3. since.always \subseteq Subclouds
    BY DEF AskedInv, ReadTypes, History
  <2>4. \A s \in since.always : steps[s] # 0
    BY <2>1, <2>2 DEF AlwaysReached
  <2> QED
    BY <2>1, <2>2, <2>3, <2>4 DEF WatchFits, StepsEarned
<1> QED
  BY <1>2, <1>3, AskedAtFirst, CreationTyped, PTL DEF CreationSpec
===============================================================================
