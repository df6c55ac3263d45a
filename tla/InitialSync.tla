------------------------------ MODULE InitialSync -------------------------------
(***************************************************************************)
(* dcorch: the initial sync of a subcloud.  dcmanager reports its          *)
(* management state and availability; the one that becomes managed and     *)
(* online has an initial sync requested, and any other report cancels it.  *)
(* Engines look for requested syncs every ten seconds, run them under the  *)
(* sync lock, and try a failed one again after a minute.  They may die at  *)
(* any moment and are started again.                                       *)
(*                                                                         *)
(* One subcloud is followed.  Engines share the database only, so an       *)
(* action is one database access with the computation up to the next one.  *)
(***************************************************************************)
EXTENDS Integers

CONSTANTS
  Engines,     \* the worker processes of dcorch
  Callers,     \* the reports and requests handled at a time
  MaxCalls,    \* bound on the reports and requests
  MaxFaults    \* bound on the syncs that fail and the engines that die

ASSUME ConstantsAssumption ==
  /\ {MaxCalls, MaxFaults} \subseteq Nat
  /\ Engines \cap {"free", "dead"} = {}

VARIABLES
  sub,       \* the subcloud's row; with init = "no row" there is none
  caller,    \* per caller: update_subcloud_states, add_subcloud, del_subcloud
  lock,      \* sync_lock: "free", an engine, or "dead" for one that has died
  sync,      \* per engine: position in _initial_sync_subcloud
  result,    \* per engine: its new_state
  waiting,   \* per engine: the re-attempts that wait for their time
  writing,   \* per engine: those that are between their check and their write
  engine,    \* per engine: "up", "down" or its place in init_actions
  touched,   \* per engine: the row was written by others since its sync began
  calls, faults

vars == <<sub, caller, lock, sync, result, waiting, writing, engine, touched,
          calls, faults>>

syncVars == <<sync, result>>
timerVars == <<waiting, writing>>

States == {"none", "requested", "in-progress", "completed", "failed"}

NoRow == [mgmt |-> "unmanaged", avail |-> "offline", init |-> "no row"]

\* The management state of a new row is not set.
NewRow == [mgmt |-> "not set", avail |-> "offline", init |-> "none"]

NoCall == [pc |-> "idle", mgmt |-> "unmanaged", avail |-> "offline"]

Exists == sub.init # "no row"

\* subcloud_state_matches for the initial sync; without a row it raises, which
\* ends the greenthread as "no" does.
Matches(state) == sub.init = state

\* update_subcloud_state of the initial sync: it raises without a row.
SetInit(state) ==
  sub' = IF Exists THEN [sub EXCEPT !.init = state] ELSE sub

\* A write by others than the engine that syncs.
TouchAll == touched' = [g \in Engines |-> TRUE]

Goes(g, pc) == sync' = [sync EXCEPT ![g] = pc]

\* The greenthread has ended.
Ends(g) ==
  /\ Goes(g, "idle")
  /\ result' = [result EXCEPT ![g] = "completed"]

Fault == faults < MaxFaults /\ faults' = faults + 1

Init ==
  /\ sub = NewRow
  /\ caller = [c \in Callers |-> NoCall]
  /\ lock = "free"
  /\ sync = [g \in Engines |-> "idle"]
  /\ result = [g \in Engines |-> "completed"]
  /\ waiting = [g \in Engines |-> 0]
  /\ writing = [g \in Engines |-> 0]
  /\ engine = [g \in Engines |-> "up"]
  /\ touched = [g \in Engines |-> FALSE]
  /\ calls = 0
  /\ faults = 0

(***************************************************************************)
(* The calls of dcmanager                                                  *)
(***************************************************************************)

\* What a report means for the initial sync.
InitFor(mgmt, avail) ==
  IF mgmt = "managed" /\ avail = "online" THEN "requested" ELSE "none"

\* update_subcloud_states: nothing to do if the states are known.
ReportStates(c, mgmt, avail) ==
  /\ calls < MaxCalls /\ calls' = calls + 1
  /\ caller[c].pc = "idle"
  /\ Exists
  /\ sub.mgmt # mgmt \/ sub.avail # avail
  /\ caller' = [caller EXCEPT ![c] = [pc |-> "write", mgmt |-> mgmt, avail |-> avail]]
  /\ UNCHANGED <<sub, lock, syncVars, timerVars, engine, touched, faults>>

\* Its write: the states, and a request or a cancellation.
WriteStates(c) ==
  LET r == caller[c] IN
  /\ r.pc = "write"
  /\ IF Exists
       THEN /\ sub' = [mgmt |-> r.mgmt, avail |-> r.avail,
                       init |-> InitFor(r.mgmt, r.avail)]
            /\ TouchAll
       ELSE UNCHANGED <<sub, touched>>
  /\ caller' = [caller EXCEPT ![c] = NoCall]
  /\ UNCHANGED <<lock, syncVars, timerVars, engine, calls, faults>>

\* Mutant: a management state of its own.
MarkedDeleting == [sub EXCEPT !.mgmt = "deleting"]

\* del_subcloud: first the states, without the initial sync's.
MarkedDeleted == [mgmt |-> "unmanaged", avail |-> "offline", init |-> sub.init]

DeleteSubcloud(c) ==
  /\ calls < MaxCalls /\ calls' = calls + 1
  /\ caller[c].pc = "idle"
  /\ Exists
  /\ sub' = MarkedDeleted
  /\ caller' = [caller EXCEPT ![c] = [pc |-> "delete", mgmt |-> "unmanaged", avail |-> "offline"]]
  /\ UNCHANGED <<lock, syncVars, timerVars, engine, touched, faults>>

\* Then the row; if there is none it raises.
DeleteRow(c) ==
  /\ caller[c].pc = "delete"
  /\ sub' = NoRow
  /\ IF Exists THEN TouchAll ELSE UNCHANGED touched
  /\ caller' = [caller EXCEPT ![c] = NoCall]
  /\ UNCHANGED <<lock, syncVars, timerVars, engine, calls, faults>>

\* add_subcloud, which fails if there is a row of that name.
AddSubcloud ==
  /\ calls < MaxCalls /\ calls' = calls + 1
  /\ ~Exists
  /\ sub' = NewRow
  /\ TouchAll
  /\ UNCHANGED <<caller, lock, syncVars, timerVars, engine, faults>>

(***************************************************************************)
(* The initial sync                                                        *)
(***************************************************************************)

\* A pass of _initial_sync_subclouds finds the request and starts a greenthread;
\* there is no other pass until that has ended.
FindRequest(g) ==
  /\ engine[g] = "up"
  /\ sync[g] = "idle"
  /\ Matches("requested")
  /\ Goes(g, "lock")
  /\ UNCHANGED <<result, sub, caller, lock, timerVars, engine, touched, calls, faults>>

\* Mutant: the lock is taken whoever has it, as sync_lock_steal does.
StealLock(g) == lock' = g

\* sync_lock_acquire; without the lock the greenthread ends.
TryLock(g) == lock = "free" /\ lock' = g

AcquireLock(g) ==
  /\ sync[g] = "lock"
  /\ TryLock(g)
  /\ Goes(g, "check")
  /\ UNCHANGED <<result, sub, caller, timerVars, engine, touched, calls, faults>>

LockTaken(g) ==
  /\ sync[g] = "lock"
  /\ lock # "free"
  /\ Ends(g)
  /\ UNCHANGED <<sub, caller, lock, timerVars, engine, touched, calls, faults>>

\* Still requested?  There may be a delay before the greenthread runs.
CheckRequested(g) ==
  /\ sync[g] = "check"
  /\ Goes(g, IF Matches("requested") THEN "begin" ELSE "release")
  /\ UNCHANGED <<result, sub, caller, lock, timerVars, engine, touched, calls, faults>>

\* In progress from here, whatever was written since the check.
BeginSync(g) ==
  /\ sync[g] = "begin"
  /\ SetInit("in-progress")
  /\ touched' = [touched EXCEPT ![g] = FALSE]
  /\ Goes(g, IF Exists THEN "work" ELSE "release")
  /\ UNCHANGED <<result, caller, lock, timerVars, engine, calls, faults>>

\* initial_sync, distribute_keys and init_subcloud_sync_audit; an exception of
\* any makes it a failure.
Work(g, ok) ==
  /\ sync[g] = "work"
  /\ IF ok THEN UNCHANGED faults ELSE Fault
  /\ Goes(g, "verify")
  /\ result' = [result EXCEPT ![g] = IF ok THEN "completed" ELSE "failed"]
  /\ UNCHANGED <<sub, caller, lock, timerVars, engine, touched, calls>>

\* Mutant: a sync that is not cancelled now is taken for one that never was.
NotCancelledNow == sub.init \notin {"none", "no row"}

\* Whether the sync was not cancelled meanwhile.
NotCancelled == Matches("in-progress")

VerifySync(g) ==
  /\ sync[g] = "verify"
  /\ Goes(g, IF NotCancelled THEN "write" ELSE "release")
  /\ UNCHANGED <<result, sub, caller, lock, timerVars, engine, touched, calls, faults>>

\* A failed sync starts a timer.
TimersAfter(n, state) == IF state = "failed" THEN n + 1 ELSE n

\* The result is written; a completed sync enables the subcloud, which audits its
\* endpoints in the same greenthread.
WriteResult(g) ==
  /\ sync[g] = "write"
  /\ SetInit(result[g])
  /\ waiting' = [waiting EXCEPT ![g] = IF Exists THEN TimersAfter(@, result[g]) ELSE @]
  /\ Goes(g, IF Exists /\ result[g] = "completed" THEN "enable" ELSE "release")
  /\ UNCHANGED <<result, caller, lock, writing, engine, touched, calls, faults>>

EnableSubcloud(g) ==
  /\ sync[g] = "enable"
  /\ Goes(g, "release")
  /\ UNCHANGED <<result, sub, caller, lock, timerVars, engine, touched, calls, faults>>

\* sync_lock_release deletes the lock by the name of the subcloud, whoever has it.
ReleaseLock(g) ==
  /\ sync[g] = "release"
  /\ lock' = "free"
  /\ Ends(g)
  /\ UNCHANGED <<sub, caller, timerVars, engine, touched, calls, faults>>

\* _reattempt_sync: the check, when a timer fires, and the write.
TimerFires(g) ==
  /\ waiting[g] > 0
  /\ waiting' = [waiting EXCEPT ![g] = @ - 1]
  /\ writing' = [writing EXCEPT ![g] = IF Matches("failed") THEN @ + 1 ELSE @]
  /\ UNCHANGED <<sub, caller, lock, syncVars, engine, touched, calls, faults>>

Reattempt(g) ==
  /\ writing[g] > 0
  /\ writing' = [writing EXCEPT ![g] = @ - 1]
  /\ SetInit("requested")
  /\ TouchAll
  /\ UNCHANGED <<caller, lock, syncVars, waiting, engine, calls, faults>>

(***************************************************************************)
(* Engines that die and start                                              *)
(***************************************************************************)

Die(g) ==
  /\ Fault
  /\ engine[g] # "down"
  /\ engine' = [engine EXCEPT ![g] = "down"]
  /\ Ends(g)
  /\ waiting' = [waiting EXCEPT ![g] = 0]
  /\ writing' = [writing EXCEPT ![g] = 0]
  /\ lock' = IF lock = g THEN "dead" ELSE lock
  /\ UNCHANGED <<sub, caller, touched, calls>>

\* Mutants: only the syncs that were in progress are looked for, or only those
\* that had failed.
RedoFailed(at) == at = "failed" /\ Matches(at)

\* init_actions: what is found in progress, then what is found failed, is
\* requested again; each is a read and a write.
ToRedo(at) == at \in {"in-progress", "failed"} /\ Matches(at)

Start(g) ==
  /\ engine[g] = "down"
  /\ engine' = [engine EXCEPT ![g] = "in-progress"]
  /\ UNCHANGED <<sub, caller, lock, syncVars, timerVars, touched, calls, faults>>

After(at) == IF at \in {"in-progress", "redo in-progress"} THEN "failed" ELSE "up"

FindUnfinished(g) ==
  LET at == engine[g] IN
  /\ at \in {"in-progress", "failed"}
  /\ engine' = [engine EXCEPT ![g] =
       IF ToRedo(at)
         THEN IF at = "failed" THEN "redo failed" ELSE "redo in-progress"
         ELSE After(at)]
  /\ UNCHANGED <<sub, caller, lock, syncVars, timerVars, touched, calls, faults>>

RequestAgain(g) ==
  /\ engine[g] \in {"redo in-progress", "redo failed"}
  /\ SetInit("requested")
  /\ TouchAll
  /\ engine' = [engine EXCEPT ![g] = After(@)]
  /\ UNCHANGED <<caller, lock, syncVars, timerVars, calls, faults>>

\* The lock of a dead engine goes when its service is found not to report any
\* more: by a timer of another, or at the start of one.
PurgeLock ==
  /\ lock = "dead"
  /\ \E g \in Engines : engine[g] = "up"
  /\ lock' = "free"
  /\ UNCHANGED <<sub, caller, syncVars, timerVars, engine, touched, calls, faults>>

Calls(c) ==
  \/ \E m \in {"managed", "unmanaged"}, a \in {"online", "offline"} :
       ReportStates(c, m, a)
  \/ WriteStates(c) \/ DeleteSubcloud(c) \/ DeleteRow(c)

SyncStep(g) ==
  \/ AcquireLock(g) \/ LockTaken(g) \/ CheckRequested(g) \/ BeginSync(g)
  \/ VerifySync(g) \/ WriteResult(g) \/ EnableSubcloud(g) \/ ReleaseLock(g)

Timers(g) == TimerFires(g) \/ Reattempt(g)

Starting(g) == Start(g) \/ FindUnfinished(g) \/ RequestAgain(g)

Next ==
  \/ AddSubcloud
  \/ \E c \in Callers : Calls(c)
  \/ \E g \in Engines :
       \/ FindRequest(g) \/ SyncStep(g) \/ Timers(g) \/ Starting(g) \/ Die(g)
       \/ \E ok \in BOOLEAN : Work(g, ok)
  \/ PurgeLock

\* Greenthreads go on and every call they make times out; the loop of an engine
\* runs for ever; a process that dies is started again.  A request found is
\* taken from one engine by another, which is why FindRequest needs more.
Fairness ==
  /\ \A c \in Callers : WF_vars(WriteStates(c) \/ DeleteRow(c))
  /\ \A g \in Engines :
       /\ SF_vars(FindRequest(g))
       /\ WF_vars(SyncStep(g) \/ Work(g, TRUE))
       /\ WF_vars(Timers(g))
       /\ WF_vars(Starting(g))
  /\ WF_vars(PurgeLock)

Spec == Init /\ [][Next]_vars
FairSpec == Spec /\ Fairness

(***************************************************************************)
(* Properties                                                              *)
(***************************************************************************)

\* The positions at which the greenthread has the lock.
Locked == {"check", "begin", "work", "verify", "write", "enable", "release"}

TypeOK ==
  /\ sub \in [mgmt : {"managed", "unmanaged", "not set"}, avail : {"online", "offline"},
              init : States \cup {"no row"}]
  /\ caller \in [Callers -> [pc : {"idle", "write", "delete"},
                             mgmt : {"managed", "unmanaged"},
                             avail : {"online", "offline"}]]
  /\ lock \in Engines \cup {"free", "dead"}
  /\ sync \in [Engines -> {"idle", "lock"} \cup Locked]
  /\ result \in [Engines -> {"completed", "failed"}]
  /\ waiting \in [Engines -> Nat] /\ writing \in [Engines -> Nat]
  /\ engine \in [Engines -> {"up", "down", "in-progress", "failed",
                             "redo in-progress", "redo failed"}]
  /\ touched \in [Engines -> BOOLEAN]
  /\ calls \in Nat /\ faults \in Nat

\* The lock keeps the initial syncs of the subcloud apart, although it is deleted
\* by name and the locks of dead engines are purged (sync_subcloud).
OneInitialSync ==
  \A g, h \in Engines : sync[g] \in Locked /\ sync[h] \in Locked => g = h

\* A sync that finds its state in progress at its end is the one that was not
\* cancelled: a sync cancelled and requested again while it ran does not pass for
\* it ("Verify that the sync wasn't cancelled while we did the sync").
VerifiedIsCurrent ==
  [][\A g \in Engines :
       sync[g] = "verify" /\ sync'[g] = "write" => ~touched[g]]_vars

Wanted == sub.mgmt = "managed" /\ sub.avail = "online" /\ Exists

\* The initial sync of a subcloud that stays managed and online completes.
SyncCompletes == <>[]Wanted => <>[](sub.init = "completed")
=================================================================================
