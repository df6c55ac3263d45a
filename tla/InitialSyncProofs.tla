--------------------------- MODULE InitialSyncProofs ----------------------------
(***************************************************************************)
(* For any engines, callers, reports and faults: the variables keep their  *)
(* types, the lock keeps the initial syncs of a subcloud apart, and a sync *)
(* that is taken for not cancelled was not.                                *)
(* And for any certificates, loads, images, patches and requests: the      *)
(* proxies keep their types, and what the vault is to keep is there.       *)
(***************************************************************************)
EXTENDS InitialSync, ApiProxies, FiniteSetTheorems, TLAPS

\* An engine in the locked section is the one that has the lock.
LockHeld == \A g \in Engines : sync[g] \in Locked => lock = g

\* Once a running sync's state was written by others it is not in progress.
TouchedIsNotRunning ==
  \A g \in Engines :
    sync[g] \in {"work", "verify"} /\ touched[g] => sub.init # "in-progress"

IInv == TypeOK /\ LockHeld /\ TouchedIsNotRunning

\* One action at a time, as the proofs below split the next-state relation.
Actions ==
  \/ AddSubcloud
  \/ \E c \in Callers :
       \/ \E m \in {"managed", "unmanaged"}, a \in {"online", "offline"} :
            ReportStates(c, m, a)
       \/ WriteStates(c)
       \/ DeleteSubcloud(c)
       \/ DeleteRow(c)
  \/ \E g \in Engines :
       \/ FindRequest(g) \/ AcquireLock(g) \/ LockTaken(g) \/ CheckRequested(g)
       \/ BeginSync(g) \/ VerifySync(g) \/ WriteResult(g) \/ EnableSubcloud(g)
       \/ ReleaseLock(g) \/ TimerFires(g) \/ Reattempt(g) \/ Start(g)
       \/ FindUnfinished(g) \/ RequestAgain(g) \/ Die(g)
       \/ \E ok \in BOOLEAN : Work(g, ok)
  \/ PurgeLock

LEMMA NextIsActions == Next => Actions
BY DEF Next, Calls, SyncStep, Timers, Starting, Actions

\* Setting the state of the initial sync keeps the type of the row.
LEMMA SetInitTyped ==
  ASSUME TypeOK, NEW state \in States, SetInit(state)
  PROVE  sub' \in [mgmt : {"managed", "unmanaged", "not set"},
                   avail : {"online", "offline"}, init : States \cup {"no row"}]
BY DEF TypeOK, SetInit

\* What it leaves: that state, or still no row.
LEMMA SetInitSets ==
  ASSUME TypeOK, NEW state, SetInit(state)
  PROVE  sub'.init = state \/ sub'.init = "no row"
BY DEF TypeOK, SetInit, Exists

\* The counters, as the arithmetic below needs them.
LEMMA Counters ==
  ASSUME TypeOK
  PROVE  /\ calls \in Nat /\ faults \in Nat
         /\ \A g \in Engines : waiting[g] \in Nat /\ writing[g] \in Nat
BY DEF TypeOK

\* The types of every variable are kept by every action.
LEMMA TypesKept == TypeOK /\ [Next]_vars => TypeOK'
<1> SUFFICES ASSUME TypeOK, [Next]_vars PROVE TypeOK'
  OBVIOUS
<1>1. CASE AddSubcloud
  <2>1. sub' \in [mgmt : {"managed", "unmanaged", "not set"},
                  avail : {"online", "offline"}, init : States \cup {"no row"}]
    BY <1>1 DEF AddSubcloud, NewRow, States
  <2>2. touched' \in [Engines -> BOOLEAN]
    BY <1>1 DEF AddSubcloud, TouchAll
  <2>3. calls' \in Nat
    BY <1>1, Counters DEF AddSubcloud
  <2> QED BY <1>1, <2>1, <2>2, <2>3 DEF AddSubcloud, TypeOK, syncVars, timerVars
<1>2. ASSUME NEW c \in Callers, NEW m \in {"managed", "unmanaged"},
             NEW a \in {"online", "offline"}, ReportStates(c, m, a)
      PROVE  TypeOK'
  <2>1. caller' \in [Callers -> [pc : {"idle", "write", "delete"},
                                 mgmt : {"managed", "unmanaged"},
                                 avail : {"online", "offline"}]]
    BY <1>2 DEF ReportStates, TypeOK
  <2>2. calls' \in Nat
    BY <1>2, Counters DEF ReportStates
  <2> QED BY <1>2, <2>1, <2>2 DEF ReportStates, TypeOK, syncVars, timerVars
<1>3. ASSUME NEW c \in Callers, WriteStates(c) PROVE TypeOK'
  <2>1. sub' \in [mgmt : {"managed", "unmanaged", "not set"},
                  avail : {"online", "offline"}, init : States \cup {"no row"}]
    <3>1. /\ caller[c].mgmt \in {"managed", "unmanaged"}
          /\ caller[c].avail \in {"online", "offline"}
      BY DEF TypeOK
    <3>2. InitFor(caller[c].mgmt, caller[c].avail) \in States
      BY DEF InitFor, States
    <3>3. CASE Exists
      <4>1. sub' = [mgmt |-> caller[c].mgmt, avail |-> caller[c].avail,
                    init |-> InitFor(caller[c].mgmt, caller[c].avail)]
        BY <1>3, <3>3 DEF WriteStates
      <4> QED BY <3>1, <3>2, <4>1
    <3>4. CASE ~Exists
      BY <1>3, <3>4 DEF WriteStates, TypeOK
    <3> QED BY <3>3, <3>4
  <2>2. touched' \in [Engines -> BOOLEAN]
    BY <1>3 DEF WriteStates, TypeOK, syncVars, timerVars, TouchAll
  <2> QED BY <1>3, <2>1, <2>2 DEF WriteStates, TypeOK, syncVars, timerVars, NoCall
<1>4. ASSUME NEW c \in Callers, DeleteSubcloud(c) PROVE TypeOK'
  <2>1. sub' \in [mgmt : {"managed", "unmanaged", "not set"},
                  avail : {"online", "offline"}, init : States \cup {"no row"}]
    BY <1>4 DEF DeleteSubcloud, TypeOK, MarkedDeleted
  <2>2. caller' \in [Callers -> [pc : {"idle", "write", "delete"},
                                 mgmt : {"managed", "unmanaged"},
                                 avail : {"online", "offline"}]]
    BY <1>4 DEF DeleteSubcloud, TypeOK
  <2>3. calls' \in Nat
    BY <1>4, Counters DEF DeleteSubcloud
  <2> QED BY <1>4, <2>1, <2>2, <2>3 DEF DeleteSubcloud, TypeOK, syncVars, timerVars
<1>5. ASSUME NEW c \in Callers, DeleteRow(c) PROVE TypeOK'
  BY <1>5 DEF DeleteRow, TypeOK, syncVars, timerVars, NoRow, NoCall, TouchAll
<1>6. ASSUME NEW g \in Engines, FindRequest(g) PROVE TypeOK'
  BY <1>6 DEF FindRequest, TypeOK, syncVars, timerVars, Goes, Ends, Locked
<1>7. ASSUME NEW g \in Engines, AcquireLock(g) PROVE TypeOK'
  BY <1>7 DEF AcquireLock, TypeOK, syncVars, timerVars, Goes, TryLock, Locked
<1>8. ASSUME NEW g \in Engines, LockTaken(g) PROVE TypeOK'
  BY <1>8 DEF LockTaken, TypeOK, syncVars, timerVars, Goes, Ends, Locked
<1>9. ASSUME NEW g \in Engines, CheckRequested(g) PROVE TypeOK'
  BY <1>9 DEF CheckRequested, TypeOK, syncVars, timerVars, Goes, Locked
<1>10. ASSUME NEW g \in Engines, BeginSync(g) PROVE TypeOK'
  <2>1. sub' \in [mgmt : {"managed", "unmanaged", "not set"},
                  avail : {"online", "offline"}, init : States \cup {"no row"}]
    BY <1>10, SetInitTyped DEF BeginSync, States
  <2> QED BY <1>10, <2>1 DEF BeginSync, TypeOK, syncVars, timerVars, Goes, Locked
<1>11. ASSUME NEW g \in Engines, NEW ok \in BOOLEAN, Work(g, ok) PROVE TypeOK'
  <2>1. sync' \in [Engines -> {"idle", "lock"} \cup Locked]
    BY <1>11 DEF Work, TypeOK, Goes, Locked
  <2>2. result' \in [Engines -> {"completed", "failed"}]
    BY <1>11 DEF Work, TypeOK
  <2>3. faults' \in Nat
    BY <1>11, Counters DEF Work, Fault
  <2> QED BY <1>11, <2>1, <2>2, <2>3 DEF Work, TypeOK, syncVars, timerVars
<1>12. ASSUME NEW g \in Engines, VerifySync(g) PROVE TypeOK'
  BY <1>12 DEF VerifySync, TypeOK, syncVars, timerVars, Goes, Locked
<1>13. ASSUME NEW g \in Engines, WriteResult(g) PROVE TypeOK'
  <2>1. sub' \in [mgmt : {"managed", "unmanaged", "not set"},
                  avail : {"online", "offline"}, init : States \cup {"no row"}]
    BY <1>13, SetInitTyped DEF WriteResult, States, TypeOK
  <2>2. waiting' \in [Engines -> Nat]
    <3>1. \A n \in Nat, state \in States : TimersAfter(n, state) \in Nat
      BY DEF TimersAfter
    <3>2. waiting[g] \in Nat /\ result[g] \in States
      BY DEF TypeOK, States
    <3> QED BY <1>13, <3>1, <3>2 DEF WriteResult, TypeOK
  <2> QED BY <1>13, <2>1, <2>2 DEF WriteResult, TypeOK, syncVars, timerVars, Goes, Locked
<1>14. ASSUME NEW g \in Engines, EnableSubcloud(g) PROVE TypeOK'
  BY <1>14 DEF EnableSubcloud, TypeOK, syncVars, timerVars, Goes, Locked
<1>15. ASSUME NEW g \in Engines, ReleaseLock(g) PROVE TypeOK'
  BY <1>15 DEF ReleaseLock, TypeOK, syncVars, timerVars, Goes, Ends, Locked
<1>16. ASSUME NEW g \in Engines, TimerFires(g) PROVE TypeOK'
  <2>1. /\ waiting[g] - 1 \in Nat /\ writing[g] + 1 \in Nat
    BY <1>16, Counters DEF TimerFires
  <2>2. waiting' \in [Engines -> Nat] /\ writing' \in [Engines -> Nat]
    BY <1>16, <2>1 DEF TimerFires, TypeOK
  <2> QED BY <1>16, <2>2 DEF TimerFires, TypeOK, syncVars
<1>17. ASSUME NEW g \in Engines, Reattempt(g) PROVE TypeOK'
  <2>1. sub' \in [mgmt : {"managed", "unmanaged", "not set"},
                  avail : {"online", "offline"}, init : States \cup {"no row"}]
    BY <1>17, SetInitTyped DEF Reattempt, States
  <2>2. writing[g] - 1 \in Nat
    BY <1>17, Counters DEF Reattempt
  <2>3. writing' \in [Engines -> Nat]
    BY <1>17, <2>2 DEF Reattempt, TypeOK
  <2> QED BY <1>17, <2>1, <2>3 DEF Reattempt, TypeOK, syncVars, TouchAll
<1>18. ASSUME NEW g \in Engines, Start(g) PROVE TypeOK'
  BY <1>18 DEF Start, TypeOK, syncVars, timerVars
<1>19. ASSUME NEW g \in Engines, FindUnfinished(g) PROVE TypeOK'
  BY <1>19 DEF FindUnfinished, TypeOK, syncVars, timerVars, After
<1>20. ASSUME NEW g \in Engines, RequestAgain(g) PROVE TypeOK'
  <2>1. sub' \in [mgmt : {"managed", "unmanaged", "not set"},
                  avail : {"online", "offline"}, init : States \cup {"no row"}]
    BY <1>20, SetInitTyped DEF RequestAgain, States
  <2> QED BY <1>20, <2>1 DEF RequestAgain, TypeOK, syncVars, timerVars, TouchAll, After
<1>21. ASSUME NEW g \in Engines, Die(g) PROVE TypeOK'
  <2>1. faults' \in Nat
    BY <1>21, Counters DEF Die, Fault
  <2>2. waiting' \in [Engines -> Nat] /\ writing' \in [Engines -> Nat]
    BY <1>21 DEF Die, TypeOK
  <2>3. lock' \in Engines \cup {"free", "dead"}
    BY <1>21 DEF Die, TypeOK
  <2> QED BY <1>21, <2>1, <2>2, <2>3 DEF Die, TypeOK, Goes, Ends, Locked
<1>22. CASE PurgeLock
  BY <1>22 DEF PurgeLock, TypeOK, syncVars, timerVars
<1>23. CASE UNCHANGED vars
  BY <1>23 DEF vars, TypeOK, syncVars, timerVars
<1> QED
  BY <1>1, <1>2, <1>3, <1>4, <1>5, <1>6, <1>7, <1>8, <1>9, <1>10, <1>11, <1>12,
     <1>13, <1>14, <1>15, <1>16, <1>17, <1>18, <1>19, <1>20, <1>21, <1>22, <1>23,
     NextIsActions DEF Actions

LEMMA InitTyped == Init => TypeOK
<1> SUFFICES ASSUME Init PROVE TypeOK
  OBVIOUS
<1>1. sub \in [mgmt : {"managed", "unmanaged", "not set"},
               avail : {"online", "offline"}, init : States \cup {"no row"}]
  BY DEF Init, NewRow, States
<1>2. caller \in [Callers -> [pc : {"idle", "write", "delete"},
                              mgmt : {"managed", "unmanaged"},
                              avail : {"online", "offline"}]]
  BY DEF Init, NoCall
<1> QED BY <1>1, <1>2 DEF Init, TypeOK

\* The variables keep their types.
THEOREM TypesCorrect == Spec => []TypeOK
<1>1. Init => TypeOK
  BY InitTyped
<1>2. TypeOK /\ [Next]_vars => TypeOK'
  BY TypesKept
<1> QED BY <1>1, <1>2, PTL DEF Spec

(***************************************************************************)
(* The lock                                                                *)
(***************************************************************************)

\* Only the greenthread that has the lock goes on to the locked section, and only
\* one in that section gives the lock up or, by dying, leaves it to be purged.
LEMMA LockKept ==
  ASSUME TypeOK, LockHeld, [Next]_vars
  PROVE  LockHeld'
<1>a. /\ sync \in [Engines -> {"idle", "lock"} \cup Locked]
      /\ lock \in Engines \cup {"free", "dead"}
      /\ "free" \notin Engines /\ "dead" \notin Engines
  BY ConstantsAssumption DEF ConstantsAssumption, TypeOK
<1>1. CASE AddSubcloud
  BY <1>1, <1>a DEF LockHeld, Locked, AddSubcloud, syncVars
<1>2. ASSUME NEW c \in Callers, NEW m \in {"managed", "unmanaged"},
             NEW a \in {"online", "offline"}, ReportStates(c, m, a)
      PROVE  LockHeld'
  BY <1>2, <1>a DEF LockHeld, Locked, ReportStates, syncVars
<1>3. ASSUME NEW c \in Callers, WriteStates(c) PROVE LockHeld'
  BY <1>3, <1>a DEF LockHeld, Locked, WriteStates, syncVars
<1>4. ASSUME NEW c \in Callers, DeleteSubcloud(c) PROVE LockHeld'
  BY <1>4, <1>a DEF LockHeld, Locked, DeleteSubcloud, syncVars
<1>5. ASSUME NEW c \in Callers, DeleteRow(c) PROVE LockHeld'
  BY <1>5, <1>a DEF LockHeld, Locked, DeleteRow, syncVars
<1>6. ASSUME NEW g \in Engines, FindRequest(g) PROVE LockHeld'
  BY <1>6, <1>a DEF LockHeld, Locked, FindRequest, Goes
<1>7. ASSUME NEW g \in Engines, AcquireLock(g) PROVE LockHeld'
  BY <1>7, <1>a DEF LockHeld, Locked, AcquireLock, Goes, TryLock
<1>8. ASSUME NEW g \in Engines, LockTaken(g) PROVE LockHeld'
  BY <1>8, <1>a DEF LockHeld, Locked, LockTaken, Goes, Ends
<1>9. ASSUME NEW g \in Engines, CheckRequested(g) PROVE LockHeld'
  BY <1>9, <1>a DEF LockHeld, Locked, CheckRequested, Goes
<1>10. ASSUME NEW g \in Engines, BeginSync(g) PROVE LockHeld'
  BY <1>10, <1>a DEF LockHeld, Locked, BeginSync, Goes
<1>11. ASSUME NEW g \in Engines, NEW ok \in BOOLEAN, Work(g, ok)
      PROVE  LockHeld'
  BY <1>11, <1>a DEF LockHeld, Locked, Work, Goes
<1>12. ASSUME NEW g \in Engines, VerifySync(g) PROVE LockHeld'
  BY <1>12, <1>a DEF LockHeld, Locked, VerifySync, Goes
<1>13. ASSUME NEW g \in Engines, WriteResult(g) PROVE LockHeld'
  BY <1>13, <1>a DEF LockHeld, Locked, WriteResult, Goes
<1>14. ASSUME NEW g \in Engines, EnableSubcloud(g) PROVE LockHeld'
  BY <1>14, <1>a DEF LockHeld, Locked, EnableSubcloud, Goes
<1>15. ASSUME NEW g \in Engines, ReleaseLock(g) PROVE LockHeld'
  BY <1>15, <1>a DEF LockHeld, Locked, ReleaseLock, Goes, Ends
<1>16. ASSUME NEW g \in Engines, TimerFires(g) PROVE LockHeld'
  BY <1>16, <1>a DEF LockHeld, Locked, TimerFires, syncVars
<1>17. ASSUME NEW g \in Engines, Reattempt(g) PROVE LockHeld'
  BY <1>17, <1>a DEF LockHeld, Locked, Reattempt, syncVars
<1>18. ASSUME NEW g \in Engines, Start(g) PROVE LockHeld'
  BY <1>18, <1>a DEF LockHeld, Locked, Start, syncVars
<1>19. ASSUME NEW g \in Engines, FindUnfinished(g) PROVE LockHeld'
  BY <1>19, <1>a DEF LockHeld, Locked, FindUnfinished, syncVars
<1>20. ASSUME NEW g \in Engines, RequestAgain(g) PROVE LockHeld'
  BY <1>20, <1>a DEF LockHeld, Locked, RequestAgain, syncVars
<1>21. ASSUME NEW g \in Engines, Die(g) PROVE LockHeld'
  BY <1>21, <1>a DEF LockHeld, Locked, Die, Goes, Ends
<1>22. CASE PurgeLock
  BY <1>22, <1>a DEF LockHeld, Locked, PurgeLock, syncVars
<1>23. CASE UNCHANGED vars
  BY <1>23, <1>a DEF LockHeld, Locked, vars
<1> QED
  BY <1>1, <1>2, <1>3, <1>4, <1>5, <1>6, <1>7, <1>8, <1>9, <1>10, <1>11, <1>12, 
     <1>13, <1>14, <1>15, <1>16, <1>17, <1>18, <1>19, <1>20, <1>21, <1>22, <1>23, NextIsActions DEF Actions

LEMMA LockHeldIsOne == LockHeld => OneInitialSync
BY DEF LockHeld, OneInitialSync

LEMMA InitLock == Init => LockHeld
BY DEF Init, LockHeld, Locked

\* Only one engine at a time is in the initial sync of the subcloud.
THEOREM OneAtATime == Spec => []OneInitialSync
<1>1. Init => TypeOK /\ LockHeld
  BY InitTyped, InitLock
<1>2. TypeOK /\ LockHeld /\ [Next]_vars => (TypeOK /\ LockHeld)'
  BY TypesKept, LockKept
<1>3. LockHeld => OneInitialSync
  BY LockHeldIsOne
<1> QED BY <1>1, <1>2, <1>3, PTL DEF Spec

(***************************************************************************)
(* Cancelled and requested again                                           *)
(***************************************************************************)

\* Only BeginSync writes "in-progress", with the lock: no other sync runs then,
\* and that of the engine begins with touched reset.  All the others that write
\* the row leave it in another state.
LEMMA TouchedKept ==
  ASSUME IInv, [Next]_vars
  PROVE  TouchedIsNotRunning'
<1>a. /\ sync \in [Engines -> {"idle", "lock"} \cup Locked]
      /\ touched \in [Engines -> BOOLEAN]
  BY DEF IInv, TypeOK
<1>b. TouchedIsNotRunning /\ LockHeld
  BY DEF IInv
<1>1. CASE AddSubcloud
  BY <1>1, <1>a, <1>b DEF TouchedIsNotRunning, AddSubcloud, syncVars, NewRow
<1>2. ASSUME NEW c \in Callers, NEW m \in {"managed", "unmanaged"},
             NEW a \in {"online", "offline"}, ReportStates(c, m, a)
      PROVE  TouchedIsNotRunning'
  BY <1>2, <1>a, <1>b DEF TouchedIsNotRunning, ReportStates, syncVars
<1>3. ASSUME NEW c \in Callers, WriteStates(c) PROVE TouchedIsNotRunning'
  <2>1. sub'.init # "in-progress"
    <3>1. CASE Exists
      <4>1. sub' = [mgmt |-> caller[c].mgmt, avail |-> caller[c].avail,
                    init |-> InitFor(caller[c].mgmt, caller[c].avail)]
        BY <1>3, <3>1 DEF WriteStates
      <4> QED BY <4>1 DEF InitFor
    <3>2. CASE ~Exists
      BY <1>3, <3>2 DEF WriteStates, Exists
    <3> QED BY <3>1, <3>2
  <2> QED BY <2>1 DEF TouchedIsNotRunning
<1>4. ASSUME NEW c \in Callers, DeleteSubcloud(c) PROVE TouchedIsNotRunning'
  BY <1>4, <1>a, <1>b DEF TouchedIsNotRunning, DeleteSubcloud, syncVars, MarkedDeleted
<1>5. ASSUME NEW c \in Callers, DeleteRow(c) PROVE TouchedIsNotRunning'
  BY <1>5, <1>a, <1>b DEF TouchedIsNotRunning, DeleteRow, syncVars, NoRow, Exists
<1>6. ASSUME NEW g \in Engines, FindRequest(g) PROVE TouchedIsNotRunning'
  BY <1>6, <1>a, <1>b DEF TouchedIsNotRunning, FindRequest, Goes
<1>7. ASSUME NEW g \in Engines, AcquireLock(g) PROVE TouchedIsNotRunning'
  BY <1>7, <1>a, <1>b DEF TouchedIsNotRunning, AcquireLock, Goes
<1>8. ASSUME NEW g \in Engines, LockTaken(g) PROVE TouchedIsNotRunning'
  BY <1>8, <1>a, <1>b DEF TouchedIsNotRunning, LockTaken, Goes, Ends
<1>9. ASSUME NEW g \in Engines, CheckRequested(g) PROVE TouchedIsNotRunning'
  BY <1>9, <1>a, <1>b DEF TouchedIsNotRunning, CheckRequested, Goes
<1>10. ASSUME NEW g \in Engines, BeginSync(g) PROVE TouchedIsNotRunning'
  <2>1. ASSUME NEW h \in Engines, h # g
        PROVE  sync'[h] \notin {"work", "verify"}
    BY <1>a, <1>b, <1>10, <2>1 DEF BeginSync, Goes, LockHeld, Locked
  <2>2. ~touched'[g]
    BY <1>a, <1>10 DEF BeginSync
  <2> QED BY <2>1, <2>2 DEF TouchedIsNotRunning
<1>11. ASSUME NEW g \in Engines, NEW ok \in BOOLEAN, Work(g, ok)
      PROVE  TouchedIsNotRunning'
  BY <1>11, <1>a, <1>b DEF TouchedIsNotRunning, Work, Goes
<1>12. ASSUME NEW g \in Engines, VerifySync(g) PROVE TouchedIsNotRunning'
  BY <1>12, <1>a, <1>b DEF TouchedIsNotRunning, VerifySync, Goes
<1>13. ASSUME NEW g \in Engines, WriteResult(g) PROVE TouchedIsNotRunning'
  <2>1. result[g] \in {"completed", "failed"}
    BY DEF IInv, TypeOK
  <2>2. sub'.init # "in-progress"
    BY <1>13, <2>1, SetInitSets DEF WriteResult, IInv
  <2> QED BY <2>2 DEF TouchedIsNotRunning
<1>14. ASSUME NEW g \in Engines, EnableSubcloud(g) PROVE TouchedIsNotRunning'
  BY <1>14, <1>a, <1>b DEF TouchedIsNotRunning, EnableSubcloud, Goes
<1>15. ASSUME NEW g \in Engines, ReleaseLock(g) PROVE TouchedIsNotRunning'
  BY <1>15, <1>a, <1>b DEF TouchedIsNotRunning, ReleaseLock, Goes, Ends
<1>16. ASSUME NEW g \in Engines, TimerFires(g) PROVE TouchedIsNotRunning'
  BY <1>16, <1>a, <1>b DEF TouchedIsNotRunning, TimerFires, syncVars
<1>17. ASSUME NEW g \in Engines, Reattempt(g) PROVE TouchedIsNotRunning'
  <2>1. sub'.init # "in-progress"
    BY <1>17, SetInitSets DEF Reattempt, IInv
  <2> QED BY <2>1 DEF TouchedIsNotRunning
<1>18. ASSUME NEW g \in Engines, Start(g) PROVE TouchedIsNotRunning'
  BY <1>18, <1>a, <1>b DEF TouchedIsNotRunning, Start, syncVars
<1>19. ASSUME NEW g \in Engines, FindUnfinished(g) PROVE TouchedIsNotRunning'
  BY <1>19, <1>a, <1>b DEF TouchedIsNotRunning, FindUnfinished, syncVars
<1>20. ASSUME NEW g \in Engines, RequestAgain(g) PROVE TouchedIsNotRunning'
  <2>1. sub'.init # "in-progress"
    BY <1>20, SetInitSets DEF RequestAgain, IInv
  <2> QED BY <2>1 DEF TouchedIsNotRunning
<1>21. ASSUME NEW g \in Engines, Die(g) PROVE TouchedIsNotRunning'
  BY <1>21, <1>a, <1>b DEF TouchedIsNotRunning, Die, Goes, Ends
<1>22. CASE PurgeLock
  BY <1>22, <1>a, <1>b DEF TouchedIsNotRunning, PurgeLock, syncVars
<1>23. CASE UNCHANGED vars
  BY <1>23, <1>a, <1>b DEF TouchedIsNotRunning, vars
<1> QED
  BY <1>1, <1>2, <1>3, <1>4, <1>5, <1>6, <1>7, <1>8, <1>9, <1>10, <1>11, <1>12, 
     <1>13, <1>14, <1>15, <1>16, <1>17, <1>18, <1>19, <1>20, <1>21, <1>22, <1>23, NextIsActions DEF Actions

LEMMA InitTouched == Init => TouchedIsNotRunning
BY DEF Init, TouchedIsNotRunning

VerifiedNow ==
  \A g \in Engines : sync[g] = "verify" /\ sync'[g] = "write" => ~touched[g]

\* Only VerifySync goes from "verify" to "write", and it finds "in-progress".
LEMMA VerifiedStep ==
  ASSUME IInv, [Next]_vars
  PROVE  VerifiedNow
<1>a. sync \in [Engines -> {"idle", "lock"} \cup Locked]
  BY DEF IInv, TypeOK
<1>b. TouchedIsNotRunning
  BY DEF IInv
<1>1. CASE AddSubcloud
  BY <1>1, <1>a, <1>b DEF VerifiedNow, TouchedIsNotRunning, AddSubcloud, syncVars
<1>2. ASSUME NEW c \in Callers, NEW m \in {"managed", "unmanaged"},
             NEW a \in {"online", "offline"}, ReportStates(c, m, a)
      PROVE  VerifiedNow
  BY <1>2, <1>a, <1>b DEF VerifiedNow, TouchedIsNotRunning, ReportStates, syncVars
<1>3. ASSUME NEW c \in Callers, WriteStates(c) PROVE VerifiedNow
  BY <1>3, <1>a, <1>b DEF VerifiedNow, TouchedIsNotRunning, WriteStates, syncVars
<1>4. ASSUME NEW c \in Callers, DeleteSubcloud(c) PROVE VerifiedNow
  BY <1>4, <1>a, <1>b DEF VerifiedNow, TouchedIsNotRunning, DeleteSubcloud, syncVars
<1>5. ASSUME NEW c \in Callers, DeleteRow(c) PROVE VerifiedNow
  BY <1>5, <1>a, <1>b DEF VerifiedNow, TouchedIsNotRunning, DeleteRow, syncVars
<1>6. ASSUME NEW g \in Engines, FindRequest(g) PROVE VerifiedNow
  BY <1>6, <1>a, <1>b DEF VerifiedNow, TouchedIsNotRunning, FindRequest, Goes
<1>7. ASSUME NEW g \in Engines, AcquireLock(g) PROVE VerifiedNow
  BY <1>7, <1>a, <1>b DEF VerifiedNow, TouchedIsNotRunning, AcquireLock, Goes
<1>8. ASSUME NEW g \in Engines, LockTaken(g) PROVE VerifiedNow
  BY <1>8, <1>a, <1>b DEF VerifiedNow, TouchedIsNotRunning, LockTaken, Goes, Ends
<1>9. ASSUME NEW g \in Engines, CheckRequested(g) PROVE VerifiedNow
  BY <1>9, <1>a, <1>b DEF VerifiedNow, TouchedIsNotRunning, CheckRequested, Goes
<1>10. ASSUME NEW g \in Engines, BeginSync(g) PROVE VerifiedNow
  BY <1>10, <1>a, <1>b DEF VerifiedNow, TouchedIsNotRunning, BeginSync, Goes
<1>11. ASSUME NEW g \in Engines, NEW ok \in BOOLEAN, Work(g, ok)
      PROVE  VerifiedNow
  BY <1>11, <1>a, <1>b DEF VerifiedNow, TouchedIsNotRunning, Work, Goes
<1>12. ASSUME NEW g \in Engines, VerifySync(g) PROVE VerifiedNow
  BY <1>12, <1>a, <1>b DEF VerifiedNow, TouchedIsNotRunning, VerifySync, Goes, NotCancelled, Matches
<1>13. ASSUME NEW g \in Engines, WriteResult(g) PROVE VerifiedNow
  BY <1>13, <1>a, <1>b DEF VerifiedNow, TouchedIsNotRunning, WriteResult, Goes
<1>14. ASSUME NEW g \in Engines, EnableSubcloud(g) PROVE VerifiedNow
  BY <1>14, <1>a, <1>b DEF VerifiedNow, TouchedIsNotRunning, EnableSubcloud, Goes
<1>15. ASSUME NEW g \in Engines, ReleaseLock(g) PROVE VerifiedNow
  BY <1>15, <1>a, <1>b DEF VerifiedNow, TouchedIsNotRunning, ReleaseLock, Goes, Ends
<1>16. ASSUME NEW g \in Engines, TimerFires(g) PROVE VerifiedNow
  BY <1>16, <1>a, <1>b DEF VerifiedNow, TouchedIsNotRunning, TimerFires, syncVars
<1>17. ASSUME NEW g \in Engines, Reattempt(g) PROVE VerifiedNow
  BY <1>17, <1>a, <1>b DEF VerifiedNow, TouchedIsNotRunning, Reattempt, syncVars
<1>18. ASSUME NEW g \in Engines, Start(g) PROVE VerifiedNow
  BY <1>18, <1>a, <1>b DEF VerifiedNow, TouchedIsNotRunning, Start, syncVars
<1>19. ASSUME NEW g \in Engines, FindUnfinished(g) PROVE VerifiedNow
  BY <1>19, <1>a, <1>b DEF VerifiedNow, TouchedIsNotRunning, FindUnfinished, syncVars
<1>20. ASSUME NEW g \in Engines, RequestAgain(g) PROVE VerifiedNow
  BY <1>20, <1>a, <1>b DEF VerifiedNow, TouchedIsNotRunning, RequestAgain, syncVars
<1>21. ASSUME NEW g \in Engines, Die(g) PROVE VerifiedNow
  BY <1>21, <1>a, <1>b DEF VerifiedNow, TouchedIsNotRunning, Die, Goes, Ends
<1>22. CASE PurgeLock
  BY <1>22, <1>a, <1>b DEF VerifiedNow, TouchedIsNotRunning, PurgeLock, syncVars
<1>23. CASE UNCHANGED vars
  BY <1>23, <1>a, <1>b DEF VerifiedNow, TouchedIsNotRunning, vars
<1> QED
  BY <1>1, <1>2, <1>3, <1>4, <1>5, <1>6, <1>7, <1>8, <1>9, <1>10, <1>11, <1>12, 
     <1>13, <1>14, <1>15, <1>16, <1>17, <1>18, <1>19, <1>20, <1>21, <1>22, <1>23, NextIsActions DEF Actions

\* A sync that is taken for not cancelled was not written to since it began.
THEOREM VerifiedWasNotCancelled == Spec => VerifiedIsCurrent
<1>1. Init => IInv
  BY InitTyped, InitLock, InitTouched DEF IInv
<1>2. IInv /\ [Next]_vars => IInv'
  BY TypesKept, LockKept, TouchedKept DEF IInv
<1>3. IInv /\ [Next]_vars =>
        [\A g \in Engines :
           sync[g] = "verify" /\ sync'[g] = "write" => ~touched[g]]_vars
  BY VerifiedStep DEF VerifiedNow
<1> QED BY <1>1, <1>2, <1>3, PTL DEF Spec, VerifiedIsCurrent

--------------------------------------------------------------------------------
\* The proxies (ApiProxies.tla).  First the vault: what a request for a load that has
\* met no other has achieved, where it is.

\* A request that has something to do with x.
Doing(pc, x) == [pc |-> pc, on |-> {x}]

Places ==
  {"idle", "upload iso", "copy iso", "upload sig", "copy sig", "import", "save", "check",
   "remove", "stage image", "copy image", "store", "delete"}

\* A request is for one thing, or there is none.
Positions == [pc : Places, on : {{}} \cup {{x} : x \in Versions \cup Images \cup Patches}]

FilesOK ==
  /\ accepted \subseteq Versions \cup Images \cup Patches
  /\ accepted \cap Versions = {} \/ \E v \in Versions : accepted \cap Versions = {v}
  /\ staging \subseteq Files /\ tmp \subseteq Files /\ IsFiniteSet(tmp)
  /\ loads \in [Versions -> SUBSET Files]
  /\ stored \subseteq Images \cup Patches
  /\ kept \subseteq accepted

\* Two requests for loads, or for the same image or patch, have crossed.
CrossedOK ==
  /\ crossed \cap Versions # {} => Versions \subseteq crossed
  /\ \A c, d \in Clients : \A x \in client[c].on :
       c # d /\ client[d].on \cap Touches(x) # {} => x \in crossed

IsDoing(c, x, S) == \E pc \in S : client[c] = Doing(pc, x)

\* What a request has achieved that has not met another one: an import has its
\* files in the temporary directory, and is of a load that is not kept when it
\* saves them; what is being deleted is not kept.
RequestOK(c) ==
  /\ \A v \in Versions \ crossed :
       /\ IsDoing(c, v, {"upload sig", "copy sig", "import", "save"}) => Iso(v) \in tmp
       /\ IsDoing(c, v, {"import", "save"}) => Sig(v) \in tmp
       /\ IsDoing(c, v, {"save", "remove"}) => v \notin kept
  /\ \A x \in (Images \cup Patches) \ crossed : client[c] = Doing("delete", x) => x \notin kept

VaultInv ==
  /\ client \in [Clients -> Positions]
  /\ FilesOK
  /\ CrossedOK
  /\ \A c \in Clients : RequestOK(c)
  /\ VaultHasWhatIsKept

--------------------------------------------------------------------------------
(* Lemmas about the vault.                                                 *)

LEMMA DoingApart ==
  ASSUME NEW a, NEW b, NEW x, NEW y
  PROVE  /\ Doing(a, x) = Doing(b, y) => a = b /\ x = y
         /\ Doing(a, x) # Idle
         /\ Doing(a, x).pc = a /\ Doing(a, x).on = {x}
         /\ Idle.on = {}
BY DEF Doing, Idle

LEMMA AtIsDoing ==
  ASSUME NEW c, NEW pc, NEW x
  PROVE  At(c, pc, x) <=> client[c] = Doing(pc, x)
BY DEF At, Doing

\* What a request that is c's becomes, the others staying as they are.
Becomes(c, y) ==
  /\ client' \in [Clients -> Positions]
  /\ client'[c] = y
  /\ \A d \in Clients \ {c} : client'[d] = client[d]

LEMMA NewPosition ==
  ASSUME client \in [Clients -> Positions], NEW c \in Clients, NEW y \in Positions,
         client' = [client EXCEPT ![c] = y]
  PROVE  Becomes(c, y)
BY DEF Becomes

LEMMA NewPlace ==
  ASSUME client \in [Clients -> Positions], NEW c \in Clients, NEW old, NEW pc, NEW x,
         At(c, old, x), Doing(pc, x) \in Positions, client' = [client EXCEPT ![c].pc = pc]
  PROVE  Becomes(c, Doing(pc, x))
<1>1. [client[c] EXCEPT !.pc = pc] = Doing(pc, x)
  BY DEF At, Doing
<1> QED
  BY <1>1 DEF Becomes

LEMMA TouchesBoth ==
  ASSUME NEW x, NEW y, y \in Touches(x)
  PROVE  /\ x \in Touches(y) /\ x \in Touches(x)
         /\ x \in Versions <=> y \in Versions
         /\ Touches(x) = Touches(y)
BY DEF Touches

LEMMA TouchesSelf ==
  ASSUME NEW x
  PROVE  x \in Touches(x)
BY DEF Touches

\* A request that stays with its thing or ends crosses no other.
LEMMA StillCrossed ==
  ASSUME VaultInv, NEW c \in Clients, NEW y, Becomes(c, y), y.on \subseteq client[c].on,
         crossed' = crossed
  PROVE  CrossedOK'
<1>1. \A d \in Clients : client'[d].on \subseteq client[d].on
  BY DEF Becomes
<1> QED
  BY <1>1 DEF VaultInv, CrossedOK, Touches

LEMMA BeginCrosses ==
  ASSUME VaultInv, NEW c \in Clients, NEW pc, NEW x \in Versions \cup Images \cup Patches,
         Begin(c, pc, x), Doing(pc, x) \in Positions
  PROVE  /\ Becomes(c, Doing(pc, x))
         /\ crossed \subseteq crossed'
         /\ client[c] = Idle
         /\ CrossedOK'
<1>1. Becomes(c, Doing(pc, x))
  BY NewPosition DEF Begin, VaultInv, Doing
<1>2. /\ client[c] = Idle /\ client[c].on = {}
      /\ client'[c].on = {x}
      /\ \A d \in Clients \ {c} : client'[d] = client[d]
  BY <1>1, DoingApart DEF Becomes, Begin
<1>3. crossed' = IF Busy(x) THEN crossed \cup Touches(x) ELSE crossed
  BY DEF Begin
<1>4. crossed' \cap Versions # {} => Versions \subseteq crossed'
  BY <1>3, VaultAssumption DEF Touches, VaultInv, CrossedOK
<1>5. ASSUME NEW d \in Clients, NEW e \in Clients, NEW z \in client'[d].on,
             d # e, client'[e].on \cap Touches(z) # {}
      PROVE  z \in crossed'
  <2>1. CASE d = c
    <3>1. z = x /\ client[e].on \cap Touches(x) # {}
      BY <2>1, <1>2, <1>5
    <3> QED
      BY <3>1, <1>3, TouchesSelf DEF Busy
  <2>2. CASE e = c
    <3>1. z \in client[d].on /\ x \in Touches(z)
      BY <2>2, <1>2, <1>5
    <3>2. z \in Touches(x)
      BY <3>1, TouchesBoth
    <3> QED
      BY <3>1, <3>2, <1>3 DEF Busy
  <2>3. CASE d # c /\ e # c
    <3>1. z \in client[d].on /\ client[e].on \cap Touches(z) # {}
      BY <2>3, <1>2, <1>5
    <3>2. z \in crossed
      BY <3>1, <1>5 DEF VaultInv, CrossedOK
    <3> QED
      BY <3>2, <1>3
  <2> QED
    BY <2>1, <2>2, <2>3
<1>6. CrossedOK'
  BY <1>4, <1>5 DEF CrossedOK, Touches
<1> QED
  BY <1>1, <1>2, <1>3, <1>6

\* What c does leaves a request of another, that it has not met, as it is.
LEMMA OthersOK ==
  ASSUME VaultInv, NEW c \in Clients, NEW y, Becomes(c, y), crossed \subseteq crossed',
         tmp \subseteq tmp' \/ client[c].on \cap Versions # {},
         kept' \subseteq kept \cup client[c].on
  PROVE  \A d \in Clients \ {c} : RequestOK(d)'
<1> SUFFICES ASSUME NEW d \in Clients \ {c}
             PROVE  RequestOK(d)'
  OBVIOUS
<1>1. client'[d] = client[d] /\ RequestOK(d)
  BY DEF Becomes, VaultInv
<1>2. ASSUME NEW x, x \in client[d].on, client[c].on \cap Touches(x) # {}
      PROVE  x \in crossed
  BY <1>2 DEF VaultInv, CrossedOK
<1>3. ASSUME NEW x, NEW pc, client[d] = Doing(pc, x), x \notin crossed'
      PROVE  /\ x \notin kept => x \notin kept'
             /\ x \in Versions => tmp \subseteq tmp'
  <2>1. x \in client[d].on /\ x \notin crossed
    BY <1>3, DoingApart
  <2>2. client[c].on \cap Touches(x) = {}
    BY <2>1, <1>2
  <2>3. x \notin client[c].on
    BY <2>2, TouchesSelf
  <2>4. x \in Versions => client[c].on \cap Versions = {}
    BY <2>2 DEF Touches
  <2> QED
    BY <2>3, <2>4
<1>4. ASSUME NEW v \in Versions \ crossed'
      PROVE  /\ IsDoing(d, v, {"upload sig", "copy sig", "import", "save"})' => Iso(v) \in tmp'
             /\ IsDoing(d, v, {"import", "save"})' => Sig(v) \in tmp'
             /\ IsDoing(d, v, {"save", "remove"})' => v \notin kept'
  BY <1>1, <1>3 DEF RequestOK, IsDoing
<1>5. ASSUME NEW x \in (Images \cup Patches) \ crossed', client'[d] = Doing("delete", x)
      PROVE  x \notin kept'
  BY <1>1, <1>3, <1>5 DEF RequestOK
<1> QED
  BY <1>4, <1>5 DEF RequestOK, Iso, Sig, IsDoing

LEMMA VaultInvFrom ==
  ASSUME VaultInv, NEW c \in Clients, NEW y, Becomes(c, y), crossed \subseteq crossed',
         tmp \subseteq tmp' \/ client[c].on \cap Versions # {},
         kept' \subseteq kept \cup client[c].on,
         FilesOK', CrossedOK', RequestOK(c)', VaultHasWhatIsKept'
  PROVE  VaultInv'
<1>1. \A d \in Clients \ {c} : RequestOK(d)'
  BY OthersOK
<1> QED
  BY <1>1 DEF VaultInv, Becomes

LEMMA IdleIsOK ==
  ASSUME NEW c, client'[c] = Idle
  PROVE  RequestOK(c)'
BY DoingApart DEF RequestOK, IsDoing

LEMMA LoadRequestOK ==
  ASSUME NEW c, NEW pc, NEW v \in Versions, client'[c] = Doing(pc, v),
         ASSUME v \notin crossed'
         PROVE  /\ pc \in {"upload sig", "copy sig", "import", "save"} => Iso(v) \in tmp'
                /\ pc \in {"import", "save"} => Sig(v) \in tmp'
                /\ pc \in {"save", "remove"} => v \notin kept'
  PROVE  RequestOK(c)'
<1>1. \A x, b : client'[c] = Doing(b, x) => x = v /\ b = pc
  <2> SUFFICES ASSUME NEW x, NEW b, Doing(pc, v) = Doing(b, x)
               PROVE  x = v /\ b = pc
    OBVIOUS
  <2> QED
    BY DEF Doing
<1>2. v \notin Images \cup Patches
  BY VaultAssumption
<1>3. ASSUME NEW w \in Versions \ crossed'
      PROVE  /\ IsDoing(c, w, {"upload sig", "copy sig", "import", "save"})' => Iso(w) \in tmp'
             /\ IsDoing(c, w, {"import", "save"})' => Sig(w) \in tmp'
             /\ IsDoing(c, w, {"save", "remove"})' => w \notin kept'
  BY <1>1 DEF IsDoing
<1> QED
  BY <1>1, <1>2, <1>3 DEF RequestOK, IsDoing, Iso, Sig

LEMMA FileRequestOK ==
  ASSUME NEW c, NEW pc, NEW x \in Images \cup Patches, client'[c] = Doing(pc, x),
         pc = "delete" /\ x \notin crossed' => x \notin kept'
  PROVE  RequestOK(c)'
<1>1. \A z, b : client'[c] = Doing(b, z) => z = x /\ b = pc
  <2> SUFFICES ASSUME NEW z, NEW b, Doing(pc, x) = Doing(b, z)
               PROVE  z = x /\ b = pc
    OBVIOUS
  <2> QED
    BY DEF Doing
<1>2. x \notin Versions
  BY VaultAssumption
<1>3. ASSUME NEW w \in Versions, NEW places
      PROVE  ~IsDoing(c, w, places)'
  BY <1>1, <1>2 DEF IsDoing
<1> QED
  BY <1>1, <1>3 DEF RequestOK

LEMMA KeptStays ==
  ASSUME VaultInv, kept' \subseteq kept, crossed \subseteq crossed', loads' = loads,
         stored \subseteq stored'
  PROVE  VaultHasWhatIsKept'
BY DEF VaultInv, VaultHasWhatIsKept, LoadFiles, Iso, Sig

LEMMA PositionsAre ==
  /\ Idle \in Positions
  /\ \A pc \in Places, x \in Versions \cup Images \cup Patches : Doing(pc, x) \in Positions
<1>1. Idle \in Positions
  BY DEF Positions, Idle, Places
<1>2. ASSUME NEW pc \in Places, NEW x \in Versions \cup Images \cup Patches
      PROVE  Doing(pc, x) \in Positions
  BY DEF Positions, Doing
<1> QED
  BY <1>1, <1>2

\* A request that ends, its thing staying as it is.
LEMMA RequestEnds ==
  ASSUME VaultInv, NEW c \in Clients, client' = [client EXCEPT ![c] = Idle],
         UNCHANGED <<accepted, loads, stored, kept, crossed>>, staging' \subseteq staging,
         tmp' = tmp \/ (tmp' = {} /\ client[c].on \cap Versions # {})
  PROVE  VaultInv'
<1>1. Becomes(c, Idle)
  BY NewPosition, PositionsAre DEF VaultInv
<1>2. IsFiniteSet(tmp')
  BY FS_EmptySet DEF VaultInv, FilesOK
<1>3. FilesOK'
  BY <1>2 DEF VaultInv, FilesOK
<1>4. CrossedOK'
  BY <1>1, StillCrossed, DoingApart
<1>5. RequestOK(c)'
  BY <1>1, IdleIsOK DEF Becomes
<1>6. VaultHasWhatIsKept'
  BY KeptStays
<1> QED
  BY <1>1, <1>3, <1>4, <1>5, <1>6, VaultInvFrom

--------------------------------------------------------------------------------
(* Loads.                                                                  *)

LEMMA ImportLoadStep ==
  ASSUME VaultInv, NEW c \in Clients, NEW v \in Versions, ImportLoad(c, v)
  PROVE  VaultInv'
<1>1. /\ Begin(c, "upload iso", v)
      /\ UNCHANGED <<accepted, staging, tmp, loads, stored, kept>>
  BY DEF ImportLoad, dirs
<1>2. Doing("upload iso", v) \in Positions
  BY PositionsAre DEF Places
<1>3. /\ Becomes(c, Doing("upload iso", v))
      /\ crossed \subseteq crossed'
      /\ CrossedOK'
  BY <1>1, <1>2, BeginCrosses
<1>4. RequestOK(c)'
  BY <1>3, LoadRequestOK DEF Becomes
<1>5. FilesOK' /\ VaultHasWhatIsKept'
  BY <1>1, <1>3, KeptStays DEF VaultInv, FilesOK
<1> QED
  BY <1>1, <1>3, <1>4, <1>5, VaultInvFrom

\* A request for a load that goes on: files are added, and nothing is kept anew.
LEMMA LoadGoesOn ==
  ASSUME VaultInv, NEW c \in Clients, NEW v \in Versions, NEW old, NEW pc \in Places,
         At(c, old, v), client' = [client EXCEPT ![c].pc = pc],
         UNCHANGED <<loads, stored, kept, crossed>>, FilesOK', tmp \subseteq tmp',
         ASSUME v \notin crossed, RequestOK(c), client[c] = Doing(old, v)
         PROVE  /\ pc \in {"upload sig", "copy sig", "import", "save"} => Iso(v) \in tmp'
                /\ pc \in {"import", "save"} => Sig(v) \in tmp'
                /\ pc \in {"save", "remove"} => v \notin kept'
  PROVE  VaultInv'
<1>1. Becomes(c, Doing(pc, v))
  BY NewPlace, PositionsAre DEF VaultInv
<1>2. client[c] = Doing(old, v) /\ client[c].on = {v}
  BY AtIsDoing, DoingApart
<1>3. CrossedOK'
  BY <1>1, <1>2, StillCrossed, DoingApart
<1>4. RequestOK(c)'
  <2>1. client'[c] = Doing(pc, v) /\ RequestOK(c)
    BY <1>1 DEF Becomes, VaultInv
  <2> QED
    BY <2>1, <1>2, LoadRequestOK
<1>5. VaultHasWhatIsKept'
  BY KeptStays
<1> QED
  BY <1>1, <1>3, <1>4, <1>5, VaultInvFrom

LEMMA StoreLoadStep ==
  ASSUME VaultInv, NEW c \in Clients, NEW v \in Versions, StoreLoad(c, v)
  PROVE  VaultInv'
<1>0. /\ {"copy iso", "upload sig", "copy sig", "import"} \subseteq Places
      /\ Iso(v) = <<v, "iso">> /\ Sig(v) = <<v, "sig">>
      /\ {<<v, "iso">>, <<v, "sig">>} \subseteq Files
  BY DEF Places, Iso, Sig, Files
<1>1. ASSUME NEW part \in {"iso", "sig"}, NEW next, UploadFile(c, v, part, next)
      PROVE  /\ client' = [client EXCEPT ![c].pc = next]
             /\ UNCHANGED <<loads, stored, kept, crossed, tmp>>
             /\ FilesOK'
  BY <1>0, <1>1 DEF UploadFile, GoTo, VaultInv, FilesOK
<1>2. ASSUME NEW part \in {"iso", "sig"}, NEW next, CopyForValidation(c, v, part, next)
      PROVE  /\ client' = [client EXCEPT ![c].pc = next]
             /\ UNCHANGED <<loads, stored, kept, crossed>>
             /\ tmp' = tmp \cup {<<v, part>>}
             /\ FilesOK'
  <2>1. IsFiniteSet(tmp) /\ tmp' = tmp \cup {<<v, part>>}
    BY <1>2 DEF CopyForValidation, VaultInv, FilesOK
  <2>2. IsFiniteSet(tmp')
    BY <2>1, FS_AddElement
  <2> QED
    BY <1>0, <1>2, <2>2 DEF CopyForValidation, GoTo, VaultInv, FilesOK
<1>3. CASE At(c, "upload iso", v) /\ UploadFile(c, v, "iso", "copy iso")
  BY <1>0, <1>1, <1>3, LoadGoesOn
<1>4. CASE At(c, "copy iso", v) /\ CopyForValidation(c, v, "iso", "upload sig")
  BY <1>0, <1>2, <1>4, LoadGoesOn
<1>5. CASE At(c, "upload sig", v) /\ UploadFile(c, v, "sig", "copy sig")
  <2>1. ASSUME v \notin crossed, RequestOK(c), client[c] = Doing("upload sig", v)
        PROVE  Iso(v) \in tmp
    BY <2>1 DEF RequestOK, IsDoing
  <2> QED
    BY <1>0, <1>1, <1>5, <2>1, LoadGoesOn
<1>6. CASE At(c, "copy sig", v) /\ CopyForValidation(c, v, "sig", "import")
  <2>1. ASSUME v \notin crossed, RequestOK(c), client[c] = Doing("copy sig", v)
        PROVE  Iso(v) \in tmp
    BY <2>1 DEF RequestOK, IsDoing
  <2> QED
    BY <1>0, <1>2, <1>6, <2>1, LoadGoesOn
<1> QED
  BY <1>3, <1>4, <1>5, <1>6 DEF StoreLoad

LEMMA StoreLoadFailsStep ==
  ASSUME VaultInv, NEW c \in Clients, StoreLoadFails(c)
  PROVE  VaultInv'
BY RequestEnds DEF StoreLoadFails

LEMMA SysinvImportsStep ==
  ASSUME VaultInv, NEW c \in Clients, NEW v \in Versions, SysinvImports(c, v)
  PROVE  VaultInv'
<1>1. /\ At(c, "import", v) /\ accepted \cap Versions = {}
      /\ accepted' = accepted \cup {v}
      /\ client' = [client EXCEPT ![c].pc = "save"]
      /\ UNCHANGED <<staging, tmp, loads, stored, kept, crossed>>
  BY DEF SysinvImports, GoTo, dirs
<1>2. accepted' \cap Versions = {v}
  BY <1>1
<1>3. FilesOK'
  BY <1>1, <1>2 DEF VaultInv, FilesOK
<1>4. v \notin kept
  BY <1>1 DEF VaultInv, FilesOK
<1>5. ASSUME v \notin crossed, RequestOK(c), client[c] = Doing("import", v)
      PROVE  Iso(v) \in tmp /\ Sig(v) \in tmp
  BY <1>5 DEF RequestOK, IsDoing
<1>6. "save" \in Places
  BY DEF Places
<1> QED
  BY <1>1, <1>3, <1>4, <1>5, <1>6, LoadGoesOn

LEMMA SysinvRejectsStep ==
  ASSUME VaultInv, NEW c \in Clients, NEW v \in Versions, SysinvRejects(c, v)
  PROVE  VaultInv'
<1>1. /\ At(c, "import", v)
      /\ client' = [client EXCEPT ![c].pc = "check"]
      /\ UNCHANGED <<accepted, staging, tmp, loads, stored, kept, crossed>>
  BY DEF SysinvRejects, dirs
<1>2. FilesOK'
  BY <1>1 DEF VaultInv, FilesOK
<1>3. "check" \in Places
  BY DEF Places
<1> QED
  BY <1>1, <1>2, <1>3, LoadGoesOn

\* A temporary directory that has both parts of a load and two files has no others.
LEMMA TwoFiles ==
  ASSUME NEW S, IsFiniteSet(S), Cardinality(S) = 2, NEW a \in S, NEW b \in S, a # b
  PROVE  S = {a, b}
<1>1. {a, b} \subseteq S /\ IsFiniteSet({a, b})
  BY FS_Subset
<1>2. Cardinality({a}) = 1 /\ IsFiniteSet({a})
  BY FS_Singleton
<1>3. Cardinality({a} \cup {b}) = 2
  BY <1>2, FS_AddElement
<1>4. Cardinality({a, b}) = Cardinality(S)
  <2>1. {a} \cup {b} = {a, b}
    OBVIOUS
  <2> QED
    BY <1>3, <2>1
<1> QED
  BY <1>1, <1>4, FS_Subset

LEMMA SaveLoadStep ==
  ASSUME VaultInv, NEW c \in Clients, NEW v \in Versions, SaveLoad(c, v)
  PROVE  VaultInv'
<1>1. /\ At(c, "save", v)
      /\ client' = [client EXCEPT ![c] = Idle]
      /\ UNCHANGED <<accepted, staging, stored, crossed>>
  BY DEF SaveLoad, EndRequest
<1>2. \/ /\ ToSave /\ loads' = [loads EXCEPT ![v] = tmp] /\ tmp' = {}
         /\ kept' = kept \cup ({v} \cap accepted)
      \/ /\ loads' = [loads EXCEPT ![v] = {}]
         /\ UNCHANGED <<tmp, kept>>
  BY DEF SaveLoad
<1>3. Becomes(c, Idle)
  BY <1>1, NewPosition, PositionsAre DEF VaultInv
<1>4. client[c] = Doing("save", v) /\ client[c].on = {v}
  BY <1>1, AtIsDoing, DoingApart
<1>5. IsFiniteSet(tmp') /\ tmp' \subseteq Files
  BY <1>2, FS_EmptySet DEF VaultInv, FilesOK
<1>6. FilesOK'
  BY <1>1, <1>2, <1>5 DEF VaultInv, FilesOK
<1>7. CrossedOK'
  BY <1>1, <1>3, StillCrossed, DoingApart
<1>8. RequestOK(c)'
  BY <1>3, IdleIsOK DEF Becomes
<1>9. VaultHasWhatIsKept'
  <2>0. LoadFiles(v) = {Iso(v), Sig(v)} /\ Iso(v) # Sig(v)
    BY DEF LoadFiles, Iso, Sig
  <2>1. ASSUME v \notin crossed
        PROVE  Iso(v) \in tmp /\ Sig(v) \in tmp /\ v \notin kept
    BY <2>1, <1>4 DEF VaultInv, RequestOK, IsDoing
  <2>2. ASSUME v \notin crossed, ToSave
        PROVE  tmp = LoadFiles(v)
    <3>1. IsFiniteSet(tmp) /\ Cardinality(tmp) = 2
      BY <2>2 DEF VaultInv, FilesOK, ToSave
    <3> QED
      BY <2>0, <2>1, <2>2, <3>1, TwoFiles
  <2>3. ASSUME NEW x \in kept' \ crossed'
        PROVE  IF x \in Versions THEN loads'[x] = LoadFiles(x) ELSE x \in stored'
    <3>1. CASE x = v
      <4>1. v \notin crossed /\ v \notin kept /\ v \in kept'
        BY <3>1, <2>1, <2>3, <1>1
      <4>2. ToSave /\ loads' = [loads EXCEPT ![v] = tmp]
        BY <4>1, <1>2
      <4>3. loads \in [Versions -> SUBSET Files]
        BY DEF VaultInv, FilesOK
      <4> QED
        BY <3>1, <4>1, <4>2, <4>3, <2>2
    <3>2. CASE x # v
      <4>1. x \in kept \ crossed /\ stored' = stored
        BY <3>2, <2>3, <1>1, <1>2
      <4>2. x \in Versions => loads'[x] = loads[x]
        BY <3>2, <1>2 DEF VaultInv, FilesOK
      <4> QED
        BY <4>1, <4>2 DEF VaultInv, VaultHasWhatIsKept
    <3> QED
      BY <3>1, <3>2
  <2> QED
    BY <2>3 DEF VaultHasWhatIsKept, LoadFiles, Iso, Sig
<1>10. /\ kept' \subseteq kept \cup client[c].on /\ crossed \subseteq crossed'
       /\ client[c].on \cap Versions # {}
  BY <1>1, <1>2, <1>4
<1> QED
  BY <1>3, <1>6, <1>7, <1>8, <1>9, <1>10, VaultInvFrom

LEMMA CheckLoadStep ==
  ASSUME VaultInv, NEW c \in Clients, NEW v \in Versions, CheckLoad(c, v)
  PROVE  VaultInv'
<1>1. client[c].on = {v}
  BY AtIsDoing, DoingApart DEF CheckLoad
<1> QED
  BY <1>1, RequestEnds DEF CheckLoad, EndRequest

\* A request to delete something that has been deleted where it was accepted.
LEMMA DeletesBegin ==
  ASSUME VaultInv, NEW c \in Clients, NEW pc \in {"remove", "delete"}, NEW x \in accepted,
         Begin(c, pc, x), accepted' = accepted \ {x}, kept' = kept \ {x},
         x \in Versions <=> pc = "remove", UNCHANGED dirs
  PROVE  VaultInv'
<1>1. /\ x \in Versions \cup Images \cup Patches
      /\ UNCHANGED <<staging, tmp, loads, stored>>
  BY DEF VaultInv, FilesOK, dirs
<1>2. Doing(pc, x) \in Positions
  BY <1>1, PositionsAre DEF Places
<1>3. /\ Becomes(c, Doing(pc, x))
      /\ crossed \subseteq crossed'
      /\ CrossedOK'
  BY <1>1, <1>2, BeginCrosses
<1>4. RequestOK(c)'
  <2>1. client'[c] = Doing(pc, x) /\ x \notin kept'
    BY <1>3 DEF Becomes
  <2>2. CASE x \in Versions
    BY <2>1, <2>2, LoadRequestOK
  <2>3. CASE x \notin Versions
    BY <2>1, <2>3, <1>1, FileRequestOK
  <2> QED
    BY <2>2, <2>3
<1>5. accepted' \cap Versions = {} \/ \E v \in Versions : accepted' \cap Versions = {v}
  BY DEF VaultInv, FilesOK
<1>6. FilesOK'
  BY <1>1, <1>5 DEF VaultInv, FilesOK
<1>7. VaultHasWhatIsKept'
  BY <1>1, <1>3, KeptStays
<1> QED
  BY <1>1, <1>3, <1>4, <1>6, <1>7, VaultInvFrom

LEMMA DeleteLoadStep ==
  ASSUME VaultInv, NEW c \in Clients, NEW v \in Versions, DeleteLoad(c, v)
  PROVE  VaultInv'
BY DeletesBegin DEF DeleteLoad

LEMMA DeleteFileStep ==
  ASSUME VaultInv, NEW c \in Clients, NEW x \in Images \cup Patches, DeleteFile(c, x)
  PROVE  VaultInv'
<1>1. x \notin Versions
  BY VaultAssumption
<1> QED
  BY <1>1, DeletesBegin DEF DeleteFile

\* What is removed from the vault is not kept, if its request has met no other.
LEMMA RemovesEnd ==
  ASSUME VaultInv, NEW c \in Clients, NEW pc \in {"remove", "delete"}, NEW x, At(c, pc, x),
         client' = [client EXCEPT ![c] = Idle], x \notin crossed => x \notin kept,
         UNCHANGED <<accepted, staging, tmp, kept, crossed>>, FilesOK',
         \A y \in Versions \ {x} : loads'[y] = loads[y], stored \ {x} \subseteq stored'
  PROVE  VaultInv'
<1>1. Becomes(c, Idle)
  BY NewPosition, PositionsAre DEF VaultInv
<1>2. CrossedOK'
  BY <1>1, StillCrossed, DoingApart
<1>3. RequestOK(c)'
  BY <1>1, IdleIsOK DEF Becomes
<1>4. ASSUME NEW y \in kept \ crossed
      PROVE  IF y \in Versions THEN loads'[y] = LoadFiles(y) ELSE y \in stored'
  BY DEF VaultInv, VaultHasWhatIsKept
<1>5. VaultHasWhatIsKept'
  BY <1>4 DEF VaultHasWhatIsKept, LoadFiles, Iso, Sig
<1> QED
  BY <1>1, <1>2, <1>3, <1>5, VaultInvFrom

LEMMA RemoveLoadStep ==
  ASSUME VaultInv, NEW c \in Clients, NEW v \in Versions, RemoveLoad(c, v)
  PROVE  VaultInv'
<1>1. /\ At(c, "remove", v)
      /\ client' = [client EXCEPT ![c] = Idle]
      /\ loads' = [loads EXCEPT ![v] = {}]
      /\ UNCHANGED <<accepted, staging, tmp, stored, kept, crossed>>
  BY DEF RemoveLoad, EndRequest
<1>2. v \notin crossed => v \notin kept
  BY <1>1, AtIsDoing DEF VaultInv, RequestOK, IsDoing
<1>3. FilesOK'
  BY <1>1 DEF VaultInv, FilesOK
<1>4. \A y \in Versions \ {v} : loads'[y] = loads[y]
  BY <1>1 DEF VaultInv, FilesOK
<1> QED
  BY <1>1, <1>2, <1>3, <1>4, RemovesEnd

LEMMA RemoveFileStep ==
  ASSUME VaultInv, NEW c \in Clients, NEW x \in Images \cup Patches, RemoveFile(c, x)
  PROVE  VaultInv'
<1>1. /\ At(c, "delete", x)
      /\ client' = [client EXCEPT ![c] = Idle]
      /\ stored' = stored \ {x}
      /\ UNCHANGED <<accepted, staging, tmp, loads, kept, crossed>>
  BY DEF RemoveFile, EndRequest
<1>2. x \notin crossed => x \notin kept
  BY <1>1, AtIsDoing DEF VaultInv, RequestOK
<1>3. FilesOK'
  BY <1>1 DEF VaultInv, FilesOK
<1> QED
  BY <1>1, <1>2, <1>3, RemovesEnd

\* A request that begins with something that is accepted, an image or a patch.
LEMMA UploadBegins ==
  ASSUME VaultInv, NEW c \in Clients, NEW pc \in {"stage image", "store"},
         NEW x \in Images \cup Patches,
         Begin(c, pc, x), accepted' = accepted \cup {x}, UNCHANGED <<dirs, kept>>
  PROVE  VaultInv'
<1>1. UNCHANGED <<staging, tmp, loads, stored, kept>>
  BY DEF dirs
<1>2. Doing(pc, x) \in Positions
  BY PositionsAre DEF Places
<1>3. /\ Becomes(c, Doing(pc, x))
      /\ crossed \subseteq crossed'
      /\ CrossedOK'
  BY <1>2, BeginCrosses
<1>4. RequestOK(c)'
  BY <1>3, FileRequestOK DEF Becomes
<1>5. accepted' \cap Versions = accepted \cap Versions
  BY VaultAssumption
<1>6. FilesOK'
  BY <1>1, <1>5 DEF VaultInv, FilesOK
<1>7. VaultHasWhatIsKept'
  BY <1>1, <1>3, KeptStays
<1> QED
  BY <1>1, <1>3, <1>4, <1>6, <1>7, VaultInvFrom

LEMMA ImportImageStep ==
  ASSUME VaultInv, NEW c \in Clients, NEW i \in Images, ImportImage(c, i)
  PROVE  VaultInv'
BY UploadBegins DEF ImportImage

LEMMA UploadPatchStep ==
  ASSUME VaultInv, NEW c \in Clients, NEW p \in Patches, UploadPatch(c, p)
  PROVE  VaultInv'
BY UploadBegins DEF UploadPatch

\* The file of an image or a patch comes into the vault.
LEMMA Stores ==
  ASSUME VaultInv, NEW c \in Clients, NEW pc, NEW x \in Images \cup Patches, At(c, pc, x),
         client' = [client EXCEPT ![c] = Idle],
         stored' = stored \cup {x}, kept' = kept \cup ({x} \cap accepted),
         staging' \subseteq staging, UNCHANGED <<accepted, tmp, loads, crossed>>
  PROVE  VaultInv'
<1>1. Becomes(c, Idle)
  BY NewPosition, PositionsAre DEF VaultInv
<1>2. client[c].on = {x}
  BY AtIsDoing, DoingApart
<1>3. CrossedOK'
  BY <1>1, StillCrossed, DoingApart
<1>4. RequestOK(c)'
  BY <1>1, IdleIsOK DEF Becomes
<1>5. FilesOK'
  BY DEF VaultInv, FilesOK
<1>6. x \notin Versions
  BY VaultAssumption
<1>7. ASSUME NEW y \in kept' \ crossed'
      PROVE  IF y \in Versions THEN loads'[y] = LoadFiles(y) ELSE y \in stored'
  BY <1>6 DEF VaultInv, VaultHasWhatIsKept
<1>8. VaultHasWhatIsKept'
  BY <1>7 DEF VaultHasWhatIsKept, LoadFiles, Iso, Sig
<1>9. kept' \subseteq kept \cup client[c].on
  BY <1>2
<1> QED
  BY <1>1, <1>3, <1>4, <1>5, <1>8, <1>9, VaultInvFrom

LEMMA StoreImageStep ==
  ASSUME VaultInv, NEW c \in Clients, NEW i \in Images, StoreImage(c, i)
  PROVE  VaultInv'
<1>1. CASE At(c, "stage image", i) /\ staging' = staging \cup {<<i, "image">>}
           /\ GoTo(c, "copy image") /\ UNCHANGED <<accepted, tmp, loads, stored, kept>>
  <2>1. Doing("copy image", i) \in Positions
    BY PositionsAre DEF Places
  <2>2. Becomes(c, Doing("copy image", i)) /\ crossed' = crossed
    BY <1>1, <2>1, NewPlace DEF GoTo, VaultInv
  <2>3. client[c].on = {i}
    BY <1>1, AtIsDoing, DoingApart
  <2>4. CrossedOK'
    BY <2>2, <2>3, StillCrossed, DoingApart
  <2>5. RequestOK(c)'
    BY <2>2, FileRequestOK DEF Becomes
  <2>6. <<i, "image">> \in Files
    BY DEF Files
  <2>7. FilesOK'
    BY <1>1, <2>6 DEF VaultInv, FilesOK
  <2>8. VaultHasWhatIsKept'
    BY <1>1, <2>2, KeptStays
  <2> QED
    BY <1>1, <2>2, <2>4, <2>5, <2>7, <2>8, VaultInvFrom
<1>2. ASSUME At(c, "copy image", i), staging' = {}, EndRequest(c),
             UNCHANGED <<accepted, tmp, loads>>,
             IF <<i, "image">> \in staging
             THEN stored' = stored \cup {i} /\ kept' = kept \cup ({i} \cap accepted)
             ELSE UNCHANGED <<stored, kept>>
      PROVE  VaultInv'
  <2>1. client' = [client EXCEPT ![c] = Idle] /\ crossed' = crossed /\ staging' \subseteq staging
    BY <1>2 DEF EndRequest
  <2>2. CASE <<i, "image">> \in staging
    BY <1>2, <2>1, <2>2, Stores
  <2>3. CASE <<i, "image">> \notin staging
    BY <1>2, <2>1, <2>3, RequestEnds
  <2> QED
    BY <2>2, <2>3
<1> QED
  BY <1>1, <1>2 DEF StoreImage

LEMMA StorePatchStep ==
  ASSUME VaultInv, NEW c \in Clients, NEW p \in Patches, StorePatch(c, p)
  PROVE  VaultInv'
BY Stores DEF StorePatch, EndRequest

LEMMA RequestFailsStep ==
  ASSUME VaultInv, NEW c \in Clients, StoreImageFails(c) \/ StorePatchFails(c) \/ ProxyDies(c)
  PROVE  VaultInv'
<1>1. CASE StoreImageFails(c)
  BY <1>1, RequestEnds DEF StoreImageFails
<1>2. CASE StorePatchFails(c)
  BY <1>2, RequestEnds DEF StorePatchFails, dirs
<1>3. CASE ProxyDies(c)
  BY <1>3, RequestEnds DEF ProxyDies, dirs
<1> QED
  BY <1>1, <1>2, <1>3

LEMMA VaultInitInv ==
  VaultInit => VaultInv
<1> SUFFICES ASSUME VaultInit
             PROVE  VaultInv
  OBVIOUS
<1>1. client \in [Clients -> Positions] /\ \A c \in Clients : client[c] = Idle
  BY PositionsAre DEF VaultInit
<1>2. FilesOK
  BY FS_EmptySet DEF VaultInit, FilesOK
<1>3. CrossedOK
  BY <1>1, DoingApart DEF VaultInit, CrossedOK
<1>4. \A c \in Clients : RequestOK(c)
  BY <1>1, DoingApart DEF RequestOK, IsDoing
<1>5. VaultHasWhatIsKept
  BY DEF VaultInit, VaultHasWhatIsKept
<1> QED
  BY <1>1, <1>2, <1>3, <1>4, <1>5 DEF VaultInv

LEMMA VaultNextInv ==
  VaultInv /\ [VaultNext]_vaultVars => VaultInv'
<1>1. ASSUME VaultInv, VaultNext
      PROVE  VaultInv'
  <2>1. PICK c \in Clients :
          \/ \E v \in Versions :
               \/ ImportLoad(c, v) \/ StoreLoad(c, v)
               \/ SysinvImports(c, v) \/ SysinvRejects(c, v)
               \/ SaveLoad(c, v) \/ CheckLoad(c, v)
               \/ DeleteLoad(c, v) \/ RemoveLoad(c, v)
          \/ StoreLoadFails(c)
          \/ \E i \in Images : ImportImage(c, i) \/ StoreImage(c, i)
          \/ StoreImageFails(c)
          \/ \E p \in Patches : UploadPatch(c, p) \/ StorePatch(c, p)
          \/ StorePatchFails(c)
          \/ \E x \in Images \cup Patches : DeleteFile(c, x) \/ RemoveFile(c, x)
          \/ ProxyDies(c)
    BY <1>1 DEF VaultNext
  <2>2. ASSUME NEW v \in Versions,
               \/ ImportLoad(c, v) \/ StoreLoad(c, v)
               \/ SysinvImports(c, v) \/ SysinvRejects(c, v)
               \/ SaveLoad(c, v) \/ CheckLoad(c, v)
               \/ DeleteLoad(c, v) \/ RemoveLoad(c, v)
        PROVE  VaultInv'
    BY <1>1, <2>2, ImportLoadStep, StoreLoadStep, SysinvImportsStep, SysinvRejectsStep,
       SaveLoadStep, CheckLoadStep, DeleteLoadStep, RemoveLoadStep
  <2>3. ASSUME NEW i \in Images, ImportImage(c, i) \/ StoreImage(c, i)
        PROVE  VaultInv'
    BY <1>1, <2>3, ImportImageStep, StoreImageStep
  <2>4. ASSUME NEW p \in Patches, UploadPatch(c, p) \/ StorePatch(c, p)
        PROVE  VaultInv'
    BY <1>1, <2>4, UploadPatchStep, StorePatchStep
  <2>5. ASSUME NEW x \in Images \cup Patches, DeleteFile(c, x) \/ RemoveFile(c, x)
        PROVE  VaultInv'
    BY <1>1, <2>5, DeleteFileStep, RemoveFileStep
  <2>6. ASSUME StoreLoadFails(c) \/ StoreImageFails(c) \/ StorePatchFails(c) \/ ProxyDies(c)
        PROVE  VaultInv'
    BY <1>1, <2>6, StoreLoadFailsStep, RequestFailsStep
  <2> QED
    BY <2>1, <2>2, <2>3, <2>4, <2>5, <2>6
<1>2. ASSUME VaultInv, UNCHANGED vaultVars
      PROVE  VaultInv'
  <2>1. UNCHANGED <<accepted, staging, tmp, loads, stored, client, kept, crossed>>
    BY <1>2 DEF vaultVars, dirs
  <2> QED
    BY <1>2, <2>1 DEF VaultInv, FilesOK, CrossedOK, RequestOK, IsDoing, VaultHasWhatIsKept,
                      LoadFiles, Iso, Sig, Touches
<1> QED
  BY <1>1, <1>2

LEMMA VaultInvTypes ==
  VaultInv => VaultTypeOK
<1> SUFFICES ASSUME VaultInv
             PROVE  VaultTypeOK
  OBVIOUS
<1>1. FilesOK /\ client \in [Clients -> Positions]
  BY DEF VaultInv
<1>0. Cardinality({}) <= 1 /\ \A x : Cardinality({x}) <= 1
  <2>1. Cardinality({}) = 0
    BY FS_EmptySet
  <2>2. ASSUME NEW x
        PROVE  Cardinality({x}) = 1
    BY FS_Singleton
  <2> QED
    BY <2>1, <2>2
<1>2. Cardinality(accepted \cap Versions) <= 1
  <2>1. accepted \cap Versions = {} \/ \E v : accepted \cap Versions = {v}
    BY <1>1 DEF FilesOK
  <2> QED
    BY <1>0, <2>1, Zenon
<1>3. ASSUME NEW c \in Clients
      PROVE  Cardinality(client[c].on) <= 1
  <2>1. client[c].on = {} \/ \E x : client[c].on = {x}
    BY <1>1 DEF Positions
  <2> QED
    BY <1>0, <2>1, Zenon
<1> QED
  BY <1>1, <1>2, <1>3 DEF FilesOK, VaultTypeOK

--------------------------------------------------------------------------------
(* The platform resources.                                                 *)

TrackedRequests == {r \in Requests : r.of \in tracked}

\* A certificate is there or not; what there is one of is known by another name.
Binary == [Names -> {Absent, 1}]

\* The system controller and its proxy, the subcloud, what dcorch has for it, and
\* the audits.
SystemOK ==
  /\ changes \in 0..MaxChanges
  /\ master \in [Names -> Values] /\ (kind = "certificate" => master \in Binary)
  /\ expired \subseteq Certificates
  /\ proxy \in Requests

SiteOK ==
  /\ site \in [Names -> Values] /\ (kind = "certificate" => site \in Binary)
  /\ row \in {"first", "second"}

QueueOK ==
  /\ tracked \subseteq Names
  /\ queue \in Seq(TrackedRequests)
  /\ thread \in {"idle", "save", "unmap"}
  /\ queue = <<>> => thread = "idle"
  /\ mapped \in [Names -> {"none", "same", "first", "second"}]
  /\ \A n \in Names : mapped[n] # "none" => n \in tracked

AuditsOK ==
  /\ \E busy, seen, uuid : \E pc \in {"look", "fetch", "compare"}, list \in [Names -> Values] :
       audit = [pc |-> pc, busy |-> busy, seen |-> seen, row |-> uuid, list |-> list]
  /\ cache = {} \/ \E list \in [Names -> Values] : cache = {list}

PlatformInv == SystemOK /\ SiteOK /\ QueueOK /\ AuditsOK

--------------------------------------------------------------------------------
(* Lemmas about the platform resources.                                    *)

LEMMA ValuesAre ==
  /\ MaxChanges \in Nat /\ MaxPlatformFaults \in Nat
  /\ {Absent, Foreign, 1} \subseteq Values
  /\ \A i \in 0..MaxChanges : i < MaxChanges => i + 2 \in Values /\ i + 1 \in 0..MaxChanges
<1>1. MaxChanges \in Nat /\ MaxPlatformFaults \in Nat
  BY PlatformAssumption
<1>2. Absent \in Values
  BY <1>1 DEF Absent, Values, Foreign
<1>3. Foreign \in Values
  BY <1>1 DEF Values, Foreign
<1>4. 1 \in Values
  BY <1>1 DEF Values, Foreign
<1>5. ASSUME NEW i \in 0..MaxChanges, i < MaxChanges
      PROVE  i + 2 \in Values
  BY <1>1, <1>5 DEF Values, Foreign
<1>6. ASSUME NEW i \in 0..MaxChanges, i < MaxChanges
      PROVE  i + 1 \in 0..MaxChanges
  BY <1>1, <1>6
<1> QED
  BY <1>1, <1>2, <1>3, <1>4, <1>5, <1>6

LEMMA NothingIs ==
  /\ Nothing \in [Names -> Values]
  /\ NoAudit = [pc |-> "look", busy |-> {}, seen |-> Nothing, row |-> "none", list |-> Nothing]
BY ValuesAre DEF Nothing, NoAudit

LEMMA RequestType ==
  ASSUME NEW op \in {"none", "post", "put", "patch", "create", "delete"},
         NEW n \in Names, NEW value \in Values
  PROVE  /\ Request(op, n, value) \in Requests
         /\ Request(op, n, value).of = n
BY DEF Request, Requests

\* A finite set of requests, in some order.
LEMMA SetToSeqType ==
  ASSUME NEW S, NEW T, IsFiniteSet(T), T \subseteq S
  PROVE  SetToSeq(T) \in Seq(S)
<1> DEFINE n == Cardinality(T)
<1>1. n \in Nat /\ ExistsBijection(1..n, T)
  BY FS_CardinalityType
<1>2. PICK f : f \in Bijection(1..n, T)
  BY <1>1 DEF ExistsBijection
<1>3. f \in [1..n -> T] /\ IsInjective(f)
  BY <1>2 DEF Bijection, Injection
<1>4. SetToSeq(T) \in [1..n -> T]
  BY <1>3 DEF SetToSeq
<1> QED
  BY <1>1, <1>4

\* What an action leaves alone keeps its types.
LEMMA PlatformQuiet ==
  ASSUME PlatformInv, kind' = kind
  PROVE  /\ UNCHANGED <<masterVars, proxy>> => SystemOK'
         /\ UNCHANGED siteVars => SiteOK'
         /\ UNCHANGED <<queue, thread, dcorchVars>> => QueueOK'
         /\ UNCHANGED auditVars => AuditsOK'
<1>1. ASSUME UNCHANGED <<masterVars, proxy>>
      PROVE  SystemOK'
  BY <1>1 DEF PlatformInv, SystemOK, masterVars, Binary
<1>2. ASSUME UNCHANGED siteVars
      PROVE  SiteOK'
  BY <1>2 DEF PlatformInv, SiteOK, siteVars, Binary
<1>3. ASSUME UNCHANGED <<queue, thread, dcorchVars>>
      PROVE  QueueOK'
  BY <1>3 DEF PlatformInv, QueueOK, dcorchVars, TrackedRequests
<1>4. ASSUME UNCHANGED auditVars
      PROVE  AuditsOK'
  BY <1>4 DEF PlatformInv, AuditsOK, auditVars
<1> QED
  BY <1>1, <1>2, <1>3, <1>4

\* The queue without its first request, and with others after it.
LEMMA QueueParts ==
  ASSUME QueueOK, queue # <<>>
  PROVE  /\ request \in Requests /\ request.of \in tracked /\ request.of \in Names
         /\ request.value \in Values
         /\ Tail(queue) \in Seq(TrackedRequests)
<1>1. queue \in Seq(TrackedRequests)
  BY DEF QueueOK
<1>2. Head(queue) \in TrackedRequests /\ Tail(queue) \in Seq(TrackedRequests)
  BY <1>1
<1> QED
  BY <1>2 DEF request, TrackedRequests, Requests

LEMMA ChangedStep ==
  ASSUME PlatformInv, NEW n \in Names, NEW value \in Values, NEW r \in Requests,
         Changed(n, value, r), kind = "certificate" => value \in {Absent, 1}
  PROVE  PlatformInv'
<1>1. /\ changes < MaxChanges /\ changes' = changes + 1
      /\ master' = [master EXCEPT ![n] = value] /\ proxy' = r
      /\ UNCHANGED <<kind, expired, siteVars, dcorchVars, auditVars, queue, thread>>
  BY DEF Changed
<1>2. changes' \in 0..MaxChanges
  BY <1>1, ValuesAre DEF PlatformInv, SystemOK
<1>3. master' \in [Names -> Values] /\ (kind' = "certificate" => master' \in Binary)
  BY <1>1 DEF PlatformInv, SystemOK, Binary
<1>4. SystemOK'
  BY <1>1, <1>2, <1>3 DEF PlatformInv, SystemOK, Binary
<1> QED
  BY <1>1, <1>4, PlatformQuiet DEF PlatformInv

LEMMA MasterChangeStep ==
  ASSUME PlatformInv, MasterChange
  PROVE  PlatformInv'
<1>0. /\ "keys" \in Names /\ Certificates \subseteq Names
      /\ Absent \in Values /\ 1 \in Values /\ Absent \in {Absent, 1} /\ 1 \in {Absent, 1}
  BY ValuesAre DEF Names
<1>1. ASSUME changes < MaxChanges
      PROVE  /\ changes + 2 \in Values
             /\ Request("patch", "keys", changes + 2) \in Requests
             /\ Request("put", "keys", changes + 2) \in Requests
  <2>1. changes + 2 \in Values
    BY <1>1, ValuesAre DEF PlatformInv, SystemOK
  <2> QED
    BY <1>0, <2>1, RequestType
<1>2. CASE Modify
  <2>1. kind # "certificate" /\ Changed("keys", changes + 2, Request("patch", "keys", changes + 2))
    BY <1>2 DEF Modify
  <2> QED
    BY <1>0, <1>1, <2>1, ChangedStep DEF Changed
<1>3. CASE RotateFernetKeys
  <2>1. kind # "certificate" /\ Changed("keys", changes + 2, Request("put", "keys", changes + 2))
    BY <1>3 DEF RotateFernetKeys
  <2> QED
    BY <1>0, <1>1, <2>1, ChangedStep DEF Changed
<1>4. ASSUME NEW c \in Certificates, InstallCertificate(c)
      PROVE  PlatformInv'
  <2>1. Changed(c, 1, Request("post", c, 1)) /\ Request("post", c, 1) \in Requests
    BY <1>0, <1>4, RequestType DEF InstallCertificate
  <2> QED
    BY <1>0, <2>1, ChangedStep
<1>5. ASSUME NEW c \in Certificates, UninstallCertificate(c)
      PROVE  PlatformInv'
  <2>1. Changed(c, Absent, Request("delete", c, Absent)) /\ Request("delete", c, Absent) \in Requests
    BY <1>0, <1>5, RequestType DEF UninstallCertificate
  <2> QED
    BY <1>0, <2>1, ChangedStep
<1>6. ASSUME NEW c \in Certificates, CertificateExpires(c)
      PROVE  PlatformInv'
  <2>1. /\ changes < MaxChanges /\ changes' = changes + 1 /\ expired' = expired \cup {c}
        /\ UNCHANGED <<kind, master, siteVars, dcorchVars, auditVars, proxy, queue, thread>>
    BY <1>6 DEF CertificateExpires
  <2>2. changes' \in 0..MaxChanges
    BY <2>1, ValuesAre DEF PlatformInv, SystemOK
  <2>3. SystemOK'
    BY <2>1, <2>2 DEF PlatformInv, SystemOK, Binary
  <2> QED
    BY <2>1, <2>3, PlatformQuiet DEF PlatformInv
<1> QED
  BY <1>2, <1>3, <1>4, <1>5, <1>6 DEF MasterChange

LEMMA NoRequestType ==
  NoRequest \in Requests
BY ValuesAre, RequestType DEF NoRequest, Names

LEMMA BothEmpty ==
  ASSUME NEW S, NEW q \in Seq(S), NEW s \in Seq(S), q \o s = <<>>
  PROVE  q = <<>>
<1>1. Len(q \o s) = Len(q) + Len(s) /\ Len(q) \in Nat /\ Len(s) \in Nat
  OBVIOUS
<1>2. \A t : t = <<>> => Len(t) = 0
  OBVIOUS
<1>3. Len(q \o s) = 0
  BY <1>2, Zenon
<1>4. Len(q) = 0
  BY <1>1, <1>3
<1> QED
  BY <1>4

\* Requests that are added are tracked.
LEMMA QueueGrows ==
  ASSUME QueueOK, NEW s, tracked \subseteq tracked', tracked' \subseteq Names,
         s \in Seq(TrackedRequests)', queue' = queue \o s,
         UNCHANGED <<thread, mapped>>
  PROVE  QueueOK'
<1>1. TrackedRequests \subseteq TrackedRequests'
  BY DEF TrackedRequests, Requests, Values
<1>2. queue \in Seq(TrackedRequests')
  BY <1>1 DEF QueueOK
<1>3. s \in Seq(TrackedRequests')
  OBVIOUS
<1>4. queue' \in Seq(TrackedRequests')
  BY <1>2, <1>3
<1>5. queue' = <<>> => queue = <<>>
  BY <1>2, <1>3, BothEmpty
<1> QED
  BY <1>4, <1>5 DEF QueueOK

LEMMA AppendType ==
  ASSUME NEW S, NEW q \in Seq(S), NEW e \in S
  PROVE  Append(q, e) \in Seq(S) /\ Append(q, e) # <<>>
<1>1. Append(q, e) \in Seq(S)
  OBVIOUS
<1>2. Len(Append(q, e)) = Len(q) + 1 /\ Len(q) \in Nat
  OBVIOUS
<1>3. Len(Append(q, e)) # 0
  BY <1>2
<1>4. \A s : s = <<>> => Len(s) = 0
  OBVIOUS
<1>5. Append(q, e) # <<>>
  BY <1>3, <1>4, Zenon
<1> QED
  BY <1>1, <1>5

LEMMA EnqueueStep ==
  ASSUME PlatformInv, Enqueue
  PROVE  PlatformInv'
<1>1. /\ queue' = Append(queue, proxy) /\ tracked' = tracked \cup {proxy.of} /\ proxy' = NoRequest
      /\ UNCHANGED <<kind, masterVars, siteVars, mapped, auditVars, thread>>
  BY DEF Enqueue
<1>0. tracked' \subseteq Names
  BY <1>1 DEF PlatformInv, SystemOK, QueueOK, Requests
<1>2. proxy \in TrackedRequests' /\ TrackedRequests \subseteq TrackedRequests'
  BY <1>1 DEF PlatformInv, SystemOK, TrackedRequests, Requests
<1>3. queue \in Seq(TrackedRequests')
  BY <1>2 DEF PlatformInv, QueueOK
<1>4. queue' \in Seq(TrackedRequests') /\ queue' # <<>>
  BY <1>1, <1>2, <1>3, AppendType
<1>5. QueueOK'
  BY <1>0, <1>1, <1>4 DEF PlatformInv, QueueOK
<1>6. SystemOK'
  BY <1>1, NoRequestType DEF PlatformInv, SystemOK, masterVars, Binary
<1> QED
  BY <1>1, <1>5, <1>6, PlatformQuiet DEF PlatformInv

LEMMA EnqueueFailsStep ==
  ASSUME PlatformInv, EnqueueFails
  PROVE  PlatformInv'
<1>1. proxy' = NoRequest /\ UNCHANGED <<kind, masterVars, siteVars, dcorchVars, auditVars, queue, thread>>
  BY DEF EnqueueFails
<1>2. SystemOK'
  BY <1>1, NoRequestType DEF PlatformInv, SystemOK, masterVars, Binary
<1> QED
  BY <1>1, <1>2, PlatformQuiet DEF PlatformInv

LEMMA DistributeKeysStep ==
  ASSUME PlatformInv, DistributeKeys \/ KeysNotSent
  PROVE  PlatformInv'
<1>1. /\ site' = site \/ (kind = "fernet_repo" /\ site' = [site EXCEPT !["keys"] = master["keys"]])
      /\ UNCHANGED <<kind, masterVars, row, dcorchVars, auditVars, proxy, queue, thread>>
  BY DEF DistributeKeys, KeysNotSent, siteVars
<1>2. SiteOK'
  BY <1>1 DEF PlatformInv, SystemOK, SiteOK, Binary
<1> QED
  BY <1>1, <1>2, PlatformQuiet DEF PlatformInv

\* The sync thread goes on with its request, or is through with it.
LEMMA HandlingStep ==
  ASSUME PlatformInv, queue # <<>>, SiteOK',
         \/ queue' = queue /\ thread' \in {"idle", "save", "unmap"}
         \/ queue' = Tail(queue) /\ thread' = "idle",
         \/ mapped' = mapped
         \/ \E uuid \in {"none", "same", "first", "second"} :
              mapped' = [mapped EXCEPT ![request.of] = uuid],
         UNCHANGED <<kind, masterVars, tracked, auditVars, proxy>>
  PROVE  PlatformInv'
<1>1. /\ request.of \in tracked /\ request.of \in Names
      /\ queue \in Seq(TrackedRequests) /\ Tail(queue) \in Seq(TrackedRequests)
  BY QueueParts DEF PlatformInv, QueueOK
<1>2. TrackedRequests' = TrackedRequests
  BY DEF TrackedRequests, Requests, Values
<1>3. queue' \in Seq(TrackedRequests')
  BY <1>1, <1>2
<1>4. /\ mapped' \in [Names -> {"none", "same", "first", "second"}]
      /\ \A n \in Names : mapped'[n] # "none" => n \in tracked'
  BY <1>1 DEF PlatformInv, QueueOK
<1>5. thread' \in {"idle", "save", "unmap"} /\ (queue' = <<>> => thread' = "idle")
  OBVIOUS
<1>6. QueueOK'
  BY <1>3, <1>4, <1>5 DEF PlatformInv, QueueOK
<1> QED
  BY <1>6, PlatformQuiet DEF PlatformInv

LEMMA WriteType ==
  ASSUME PlatformInv, NEW n \in Names, NEW value \in Values, kind' = kind, row' = row,
         site' = [site EXCEPT ![n] = value], kind = "certificate" => value \in {Absent, 1}
  PROVE  SiteOK'
BY DEF PlatformInv, SiteOK, Binary

LEMMA SiteIdType ==
  ASSUME PlatformInv
  PROVE  SiteId(row) \in {"none", "same", "first", "second"}
BY DEF PlatformInv, SiteOK, SiteId

LEMMA SyncStepStep ==
  ASSUME PlatformInv, PlatformSyncStep
  PROVE  PlatformInv'
<1>1. UNCHANGED <<kind, masterVars, row, tracked, auditVars, proxy>>
  BY DEF PlatformSyncStep
<1>2. Finish => queue' = Tail(queue) /\ thread' = "idle"
  BY DEF Finish
<1>3. ASSUME NEW pc \in {"save", "unmap"}, GoOn(pc)
      PROVE  queue' = queue /\ thread' \in {"idle", "save", "unmap"}
  BY <1>3 DEF GoOn
<1>4. "keys" \in Names /\ Absent \in Values /\ Absent \in {Absent, 1}
  BY ValuesAre DEF Names
<1>5. CASE SyncIdns \/ SyncIuser \/ UpdateFernetRepo
  <2>1. /\ kind # "certificate" /\ queue # <<>>
        /\ site' = [site EXCEPT !["keys"] = request.value]
        /\ GoOn("save") /\ mapped' = mapped
    BY <1>5 DEF SyncIdns, SyncIuser, UpdateFernetRepo, Handling, Write
  <2>2. request.value \in Values
    BY <2>1, QueueParts DEF PlatformInv
  <2>3. SiteOK'
    BY <1>1, <1>4, <2>1, <2>2, WriteType
  <2>4. queue' = queue /\ thread' \in {"idle", "save", "unmap"}
    BY <1>3, <2>1
  <2> QED
    BY <1>1, <2>1, <2>3, <2>4, HandlingStep
<1>6. CASE CreateCertificate
  <2>1. queue # <<>>
    BY <1>6 DEF CreateCertificate, Handling
  <2>2. \/ Finish /\ UNCHANGED <<site, mapped>>
        \/ Finish /\ mapped' = [mapped EXCEPT ![request.of] = "same"] /\ UNCHANGED site
        \/ /\ site' = [n \in Names |-> IF n \in SharedFile THEN 1 ELSE site[n]]
           /\ GoOn("save") /\ UNCHANGED mapped
    BY <1>6 DEF CreateCertificate
  <2>3. CASE Finish /\ UNCHANGED <<site, mapped>>
    <3>1. SiteOK'
      BY <1>1, <2>3, PlatformQuiet DEF siteVars
    <3> QED
      BY <1>1, <1>2, <2>1, <2>3, <3>1, HandlingStep
  <2>4. CASE Finish /\ mapped' = [mapped EXCEPT ![request.of] = "same"] /\ UNCHANGED site
    <3>1. SiteOK'
      BY <1>1, <2>4, PlatformQuiet DEF siteVars
    <3> QED
      BY <1>1, <1>2, <2>1, <2>4, <3>1, HandlingStep
  <2>5. CASE site' = [n \in Names |-> IF n \in SharedFile THEN 1 ELSE site[n]]
             /\ GoOn("save") /\ UNCHANGED mapped
    <3>1. site' \in [Names -> Values] /\ (kind' = "certificate" => site' \in Binary)
      BY <1>1, <2>5, ValuesAre DEF PlatformInv, SiteOK, Binary
    <3>2. SiteOK'
      BY <1>1, <3>1 DEF PlatformInv, SiteOK, Binary
    <3>3. queue' = queue /\ thread' \in {"idle", "save", "unmap"}
      BY <1>3, <2>5
    <3> QED
      BY <1>1, <2>1, <2>5, <3>2, <3>3, HandlingStep
  <2> QED
    BY <2>2, <2>3, <2>4, <2>5
<1>7. CASE DeleteCertificate
  <2>1. queue # <<>> /\ mapped' = mapped
    BY <1>7 DEF DeleteCertificate, Handling
  <2>2. \/ Finish /\ UNCHANGED site
        \/ site' = [site EXCEPT ![request.of] = Absent] /\ GoOn("unmap")
    BY <1>7 DEF DeleteCertificate
  <2>3. CASE Finish /\ UNCHANGED site
    <3>1. SiteOK'
      BY <1>1, <2>3, PlatformQuiet DEF siteVars
    <3> QED
      BY <1>1, <1>2, <2>1, <2>3, <3>1, HandlingStep
  <2>4. CASE site' = [site EXCEPT ![request.of] = Absent] /\ GoOn("unmap")
    <3>1. request.of \in Names
      BY <2>1, QueueParts DEF PlatformInv
    <3>2. SiteOK'
      BY <1>1, <1>4, <2>4, <3>1, WriteType
    <3>3. queue' = queue /\ thread' \in {"idle", "save", "unmap"}
      BY <1>3, <2>4
    <3> QED
      BY <1>1, <2>1, <3>2, <3>3, HandlingStep
  <2> QED
    BY <2>2, <2>3, <2>4
<1>8. CASE Save \/ Unmap
  <2>1. /\ thread # "idle" /\ Finish /\ UNCHANGED site
        /\ \E uuid \in {"none", "same", "first", "second"} :
             mapped' = [mapped EXCEPT ![request.of] = uuid]
    BY <1>8, SiteIdType DEF Save, Unmap
  <2>2. queue # <<>>
    BY <2>1 DEF PlatformInv, QueueOK
  <2>3. SiteOK'
    BY <1>1, <2>1, PlatformQuiet DEF siteVars
  <2> QED
    BY <1>1, <1>2, <2>1, <2>2, <2>3, HandlingStep
<1> QED
  BY <1>5, <1>6, <1>7, <1>8 DEF PlatformSyncStep

LEMMA SyncFailsStep ==
  ASSUME PlatformInv, SyncFails
  PROVE  PlatformInv'
<1>1. /\ queue # <<>> /\ thread' = "idle" /\ (queue' = Tail(queue) \/ queue' = queue)
      /\ UNCHANGED <<kind, masterVars, siteVars, tracked, mapped, auditVars, proxy>>
  BY DEF SyncFails, dcorchVars
<1>2. SiteOK'
  BY <1>1, PlatformQuiet
<1> QED
  BY <1>1, <1>2, HandlingStep

LEMMA NoAuditType ==
  \E busy, seen, uuid : \E pc \in {"look", "fetch", "compare"}, list \in [Names -> Values] :
     NoAudit = [pc |-> pc, busy |-> busy, seen |-> seen, row |-> uuid, list |-> list]
<1>1. "look" \in {"look", "fetch", "compare"}
  OBVIOUS
<1> QED
  BY <1>1, NothingIs, Zenon

LEMMA GetSubcloudResourcesStep ==
  ASSUME PlatformInv, GetSubcloudResources
  PROVE  PlatformInv'
<1> DEFINE uses == {queue[j].of : j \in 1..Len(queue)}
<1>1. /\ audit' = [NoAudit EXCEPT !.pc = "fetch", !.seen = site, !.row = row, !.busy = uses]
      /\ cache' = cache
      /\ UNCHANGED <<kind, masterVars, siteVars, dcorchVars, proxy, queue, thread>>
  BY DEF GetSubcloudResources
<1> HIDE DEF uses
<1>2. audit' = [pc |-> "fetch", busy |-> uses, seen |-> site, row |-> row, list |-> Nothing]
  BY <1>1, NothingIs
<1>3. \E busy, seen, uuid : \E pc \in {"look", "fetch", "compare"}, list \in [Names -> Values] :
        audit' = [pc |-> pc, busy |-> busy, seen |-> seen, row |-> uuid, list |-> list]
  <2>1. "fetch" \in {"look", "fetch", "compare"}
    OBVIOUS
  <2> QED
    BY <1>2, <2>1, NothingIs, Zenon
<1>4. AuditsOK'
  BY <1>1, <1>3, ValuesAre DEF PlatformInv, AuditsOK, Values
<1> QED
  BY <1>1, <1>4, PlatformQuiet DEF PlatformInv

\* The list an audit uses is one of the system controller, now or before.
LEMMA GetMasterResourcesStep ==
  ASSUME PlatformInv, GetMasterResources
  PROVE  PlatformInv'
<1>1. /\ cache' = IF cache = {} THEN {master} ELSE cache
      /\ audit' = [audit EXCEPT !.pc = "compare", !.list = CHOOSE list \in cache' : TRUE]
      /\ UNCHANGED <<kind, masterVars, siteVars, dcorchVars, proxy, queue, thread>>
  BY DEF GetMasterResources
<1>2. master \in [Names -> Values]
  BY DEF PlatformInv, SystemOK
<1>3. PICK l \in [Names -> Values] : cache' = {l}
  BY <1>1, <1>2 DEF PlatformInv, AuditsOK
<1>4. (CHOOSE list \in cache' : TRUE) = l
  BY <1>3
<1>5. PICK busy, seen, uuid, pc, list :
        audit = [pc |-> pc, busy |-> busy, seen |-> seen, row |-> uuid, list |-> list]
  BY DEF PlatformInv, AuditsOK
<1>6. audit' = [pc |-> "compare", busy |-> busy, seen |-> seen, row |-> uuid, list |-> l]
  BY <1>1, <1>4, <1>5
<1>7. "compare" \in {"look", "fetch", "compare"}
  OBVIOUS
<1>8. \E b, s, u : \E p \in {"look", "fetch", "compare"}, m \in [Names -> Values] :
        audit' = [pc |-> p, busy |-> b, seen |-> s, row |-> u, list |-> m]
  BY <1>6, <1>7, Zenon
<1>9. AuditsOK'
  BY <1>3, <1>8 DEF AuditsOK
<1> QED
  BY <1>1, <1>9, PlatformQuiet DEF PlatformInv

\* One request for each name.
LEMMA FiniteRequests ==
  ASSUME IsFiniteSet(Names), NEW op, NEW values
  PROVE  IsFiniteSet({Request(op, n, values[n]) : n \in Names})
<1> DEFINE T == {Request(op, n, values[n]) : n \in Names}
           f == [n \in Names |-> Request(op, n, values[n])]
<1>1. f \in Surjection(Names, T)
  BY DEF Surjection
<1> HIDE DEF f
<1> QED
  BY <1>1, FS_Surjection

\* What an audit sends and removes are requests, and no more than there are
\* certificates.
LEMMA SentTypes ==
  ASSUME PlatformInv
  PROVE  /\ ToSend \cup ToRemove \subseteq Requests
         /\ IsFiniteSet(ToSend \cup ToRemove)
         /\ \A r \in ToRemove : r.of \in tracked
<1>0. audit.list \in [Names -> Values]
  BY DEF PlatformInv, AuditsOK
<1>1. Rsrcs \subseteq Names /\ IsFiniteSet(Names)
  <2>1. IsFiniteSet(Certificates)
    BY PlatformAssumption
  <2> QED
    BY <2>1, FS_AddElement DEF Rsrcs, RsrcOf, Names
<1>2. \A r \in ToSend : \E n \in Rsrcs :
        r \in {Request("patch", n, audit.list[n]), Request("create", n, audit.list[n])}
  BY DEF ToSend
<1>3. \A r \in ToRemove : \E n \in tracked : r = Request("delete", n, Absent)
  BY DEF ToRemove
<1>4. tracked \subseteq Names /\ Absent \in Values
  BY ValuesAre DEF PlatformInv, QueueOK
<1>5. ToSend \subseteq Requests
  <2> SUFFICES ASSUME NEW r \in ToSend
               PROVE  r \in Requests
    OBVIOUS
  <2>1. PICK n \in Rsrcs :
          r \in {Request("patch", n, audit.list[n]), Request("create", n, audit.list[n])}
    BY <1>2
  <2>2. n \in Names /\ audit.list[n] \in Values
    BY <1>0, <1>1
  <2> QED
    BY <2>1, <2>2, RequestType
<1>6. ASSUME NEW r \in ToRemove
      PROVE  r \in Requests /\ r.of \in tracked
  <2>1. PICK n \in tracked : r = Request("delete", n, Absent)
    BY <1>3
  <2> QED
    BY <2>1, <1>4, RequestType
<1>7. IsFiniteSet(ToSend)
  <2>1. \A r \in ToSend : \E n \in Names : r \in {Request("patch", n, audit.list[n]),
                                                Request("create", n, audit.list[n])}
    BY <1>1, <1>2
  <2> DEFINE P == {Request("patch", n, audit.list[n]) : n \in Names}
             C == {Request("create", n, audit.list[n]) : n \in Names}
  <2>2. IsFiniteSet(P) /\ IsFiniteSet(C)
    BY <1>1, FiniteRequests
  <2>3. ToSend \subseteq P \cup C
    BY <2>1
  <2>4. IsFiniteSet(P \cup C)
    BY <2>2, FS_Union
  <2> QED
    BY <2>3, <2>4, FS_Subset
<1>8. IsFiniteSet(ToRemove)
  <2> DEFINE D == {Request("delete", n, Nothing[n]) : n \in Names}
  <2>1. IsFiniteSet(D)
    BY <1>1, FiniteRequests
  <2>2. ToRemove \subseteq D
    BY <1>3, <1>4 DEF Nothing
  <2> QED
    BY <2>1, <2>2, FS_Subset
<1>9. IsFiniteSet(ToSend \cup ToRemove)
  BY <1>7, <1>8, FS_Union
<1> QED
  BY <1>5, <1>6, <1>9

LEMMA AuditCompareStep ==
  ASSUME PlatformInv, AuditCompare
  PROVE  PlatformInv'
<1> DEFINE T == ToSend \cup ToRemove
<1>1. /\ queue' = queue \o SetToSeq(T)
      /\ tracked' = tracked \cup {r.of : r \in ToSend}
      /\ audit' = NoAudit /\ cache' = {}
      /\ UNCHANGED <<kind, masterVars, siteVars, mapped, proxy, thread>>
  BY DEF AuditCompare
<1>2. T \subseteq Requests /\ IsFiniteSet(T) /\ \A r \in ToRemove : r.of \in tracked
  BY SentTypes
<1>3. T \subseteq TrackedRequests'
  BY <1>1, <1>2 DEF TrackedRequests, Requests, Values
<1>4. tracked' \subseteq Names
  BY <1>1, <1>2 DEF PlatformInv, QueueOK, Requests
<1> HIDE DEF T
<1>5. SetToSeq(T) \in Seq(TrackedRequests')
  BY <1>2, <1>3, SetToSeqType
<1>6. QueueOK'
  BY <1>1, <1>4, <1>5, QueueGrows DEF PlatformInv
<1>7. AuditsOK'
  BY <1>1, NoAuditType DEF AuditsOK, Values
<1> QED
  BY <1>1, <1>6, <1>7, PlatformQuiet DEF PlatformInv

LEMMA AuditGoesWrong ==
  ASSUME PlatformInv, AuditFails \/ OtherAudit
  PROVE  PlatformInv'
<1>1. UNCHANGED <<kind, masterVars, siteVars, dcorchVars, proxy, queue, thread>>
  BY DEF AuditFails, OtherAudit
<1>2. CASE AuditFails
  <2>1. audit' = NoAudit /\ cache' = cache
    BY <1>2 DEF AuditFails
  <2>2. AuditsOK'
    BY <2>1, NoAuditType DEF PlatformInv, AuditsOK, Values
  <2> QED
    BY <1>1, <2>2, PlatformQuiet DEF PlatformInv
<1>3. CASE OtherAudit
  <2>1. audit' = audit /\ cache' \in {{}, {master}}
    BY <1>3 DEF OtherAudit
  <2>2. AuditsOK'
    BY <2>1 DEF PlatformInv, SystemOK, AuditsOK
  <2> QED
    BY <1>1, <2>2, PlatformQuiet DEF PlatformInv
<1> QED
  BY <1>2, <1>3

LEMMA ReinstalledStep ==
  ASSUME PlatformInv, Reinstalled
  PROVE  PlatformInv'
<1>1. /\ row' = "second"
      /\ site' = [n \in Names |-> IF site[n] = Absent \/ kind = "certificate" THEN Absent ELSE Foreign]
      /\ UNCHANGED <<kind, masterVars, dcorchVars, auditVars, proxy, queue, thread>>
  BY DEF Reinstalled
<1>2. SiteOK'
  BY <1>1, ValuesAre DEF SiteOK, Binary
<1> QED
  BY <1>1, <1>2, PlatformQuiet DEF PlatformInv

LEMMA LocalChangeStep ==
  ASSUME PlatformInv, NEW n \in Names, LocalChange(n)
  PROVE  PlatformInv'
<1>1. /\ site' = [site EXCEPT ![n] = IF kind # "certificate" THEN Foreign ELSE 1 - site[n]]
      /\ UNCHANGED <<kind, masterVars, row, dcorchVars, auditVars, proxy, queue, thread>>
  BY DEF LocalChange
<1>2. CASE kind = "certificate"
  <2>1. site[n] \in {Absent, 1} /\ site' = [site EXCEPT ![n] = 1 - site[n]]
    BY <1>1, <1>2 DEF PlatformInv, SiteOK, Binary
  <2>2. 1 - site[n] \in {Absent, 1} /\ 1 - site[n] \in Values
    BY <2>1, ValuesAre DEF Absent
  <2>3. SiteOK'
    BY <1>1, <2>1, <2>2, WriteType
  <2> QED
    BY <1>1, <2>3, PlatformQuiet DEF PlatformInv
<1>3. CASE kind # "certificate"
  <2>1. site' = [site EXCEPT ![n] = Foreign]
    BY <1>1, <1>3
  <2>2. SiteOK'
    BY <1>1, <1>3, <2>1, WriteType, ValuesAre
  <2> QED
    BY <1>1, <2>2, PlatformQuiet DEF PlatformInv
<1> QED
  BY <1>2, <1>3

LEMMA PlatformInitInv ==
  PlatformInit => PlatformInv
<1> SUFFICES ASSUME PlatformInit
             PROVE  PlatformInv
  OBVIOUS
<1>1. SystemOK
  <2>1. changes \in 0..MaxChanges
    BY ValuesAre DEF PlatformInit
  <2>2. master \in [Names -> Values] /\ (kind = "certificate" => master \in Binary)
    BY ValuesAre DEF PlatformInit, Binary
  <2> QED
    BY <2>1, <2>2, NoRequestType DEF PlatformInit, SystemOK
<1>2. SiteOK
  BY ValuesAre DEF PlatformInit, SiteOK, Binary
<1>3. QueueOK
  BY DEF PlatformInit, QueueOK
<1>4. AuditsOK
  BY NoAuditType DEF PlatformInit, AuditsOK
<1> QED
  BY <1>1, <1>2, <1>3, <1>4 DEF PlatformInv

LEMMA PlatformNextInv ==
  PlatformInv /\ [PlatformNext]_platformVars => PlatformInv'
<1>1. ASSUME PlatformInv, PlatformNext
      PROVE  PlatformInv'
  <2>1. CASE MasterChange \/ Enqueue \/ DistributeKeys \/ PlatformSyncStep
    BY <1>1, <2>1, MasterChangeStep, EnqueueStep, DistributeKeysStep, SyncStepStep
  <2>2. CASE AuditStep
    BY <1>1, <2>2, GetSubcloudResourcesStep, GetMasterResourcesStep, AuditCompareStep DEF AuditStep
  <2>3. CASE PlatformFailure
    BY <1>1, <2>3, EnqueueFailsStep, DistributeKeysStep, SyncFailsStep, AuditGoesWrong,
       ReinstalledStep, LocalChangeStep DEF PlatformFailure
  <2> QED
    BY <1>1, <2>1, <2>2, <2>3 DEF PlatformNext
<1>2. ASSUME PlatformInv, UNCHANGED platformVars
      PROVE  PlatformInv'
  <2>1. UNCHANGED <<kind, masterVars, siteVars, dcorchVars, auditVars, proxy, queue, thread>>
    BY <1>2 DEF platformVars
  <2> QED
    BY <1>2, <2>1, PlatformQuiet DEF PlatformInv
<1> QED
  BY <1>1, <1>2

LEMMA PlatformInvTypes ==
  PlatformInv => PlatformTypeOK
<1> SUFFICES ASSUME PlatformInv
             PROVE  PlatformTypeOK
  OBVIOUS
<1>1. \A j \in 1..Len(queue) : queue[j] \in Requests /\ queue[j].of \in tracked
  <2>1. queue \in Seq(TrackedRequests)
    BY DEF PlatformInv, QueueOK
  <2>2. \A j \in 1..Len(queue) : queue[j] \in TrackedRequests
    BY <2>1
  <2> QED
    BY <2>2 DEF TrackedRequests
<1>2. Cardinality(cache) <= 1
  <2>1. Cardinality({}) = 0
    BY FS_EmptySet
  <2>2. \A x : Cardinality({x}) = 1
    BY FS_Singleton
  <2>3. cache = {} \/ \E x : cache = {x}
    BY DEF PlatformInv, AuditsOK
  <2>4. Cardinality(cache) \in {0, 1}
    BY <2>1, <2>2, <2>3
  <2> QED
    BY <2>4
<1>3. audit.pc \in {"look", "fetch", "compare"}
  BY DEF PlatformInv, AuditsOK
<1> QED
  BY <1>1, <1>2, <1>3 DEF PlatformInv, SystemOK, SiteOK, QueueOK, PlatformTypeOK

--------------------------------------------------------------------------------
(* Both.                                                                   *)

LEMMA ProxiesInv ==
  ProxiesSpec => [](PlatformInv /\ VaultInv)
<1>1. ProxiesInit => PlatformInv /\ VaultInv
  BY PlatformInitInv, VaultInitInv DEF ProxiesInit
<1>2. (PlatformInv /\ VaultInv) /\ [ProxiesNext]_proxiesVars => (PlatformInv /\ VaultInv)'
  <2> SUFFICES ASSUME PlatformInv, VaultInv, [ProxiesNext]_proxiesVars
               PROVE  PlatformInv' /\ VaultInv'
    OBVIOUS
  <2>1. [PlatformNext]_platformVars /\ [VaultNext]_vaultVars
    BY DEF ProxiesNext, EnqueuesWork, KeepsFiles, proxiesVars
  <2> QED
    BY <2>1, PlatformNextInv, VaultNextInv
<1> QED
  BY <1>1, <1>2, PTL DEF ProxiesSpec

(* A request in dcorch's queue is for a resource that is tracked, and so is    *)
(* what is mapped; sysinv has one load at most, and what the vault has to keep *)
(* is what was accepted.                                                       *)
THEOREM ProxiesTypesCorrect == ProxiesSpec => []ProxiesTypeOK
<1>1. PlatformInv /\ VaultInv => ProxiesTypeOK
  BY PlatformInvTypes, VaultInvTypes DEF ProxiesTypeOK
<1> QED
  BY <1>1, ProxiesInv, PTL

(* What was accepted, and not reported as not stored, is in the vault, a load  *)
(* with its own two files and no others, unless its request has met another.   *)
THEOREM VaultKeepsIt == ProxiesSpec => []VaultHasWhatIsKept
<1>1. VaultInv => VaultHasWhatIsKept
  BY DEF VaultInv
<1> QED
  BY <1>1, ProxiesInv, PTL
================================================================================
