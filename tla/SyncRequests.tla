------------------------------ MODULE SyncRequests ------------------------------
(***************************************************************************)
(* dcorch: a resource of the system controller kept in step in the         *)
(* subclouds.  The API proxy applies a client's change and enqueues one    *)
(* orch_request per subcloud endpoint; the sync threads of several engine  *)
(* processes apply the requests to the subclouds and report the sync       *)
(* status; their audits look for differences, enqueue the missing changes  *)
(* and clear failed requests.                                              *)
(*                                                                         *)
(* The engines share nothing but the database.  An action is one database  *)
(* access or remote call with the computation up to the next one.          *)
(***************************************************************************)
EXTENDS Integers, FiniteSets

CONSTANTS
  Proxies,       \* the processes of the API proxy
  Engines,       \* the dcorch-engine worker processes
  Endpoints,     \* the subclouds' endpoints of the type the resource belongs to
  MaxRetry,      \* MAX_RETRY: how often a request is tried in one sync
  LaterTypes,    \* the audit goes on to other types of resources, where it
                 \* may find the subcloud unreachable
  MaxRequests,   \* bound on the rows of orch_request
  MaxChanges,    \* bound on the changes clients make
  MaxFaults      \* bound on failures: of a request, a sync, an audit, a proxy,
                 \* an engine, and subclouds going offline or being unmanaged

ASSUME ConstantsAssumption ==
  /\ MaxRetry \in Nat \ {0}
  /\ LaterTypes \in BOOLEAN
  /\ {MaxRequests, MaxChanges, MaxFaults} \subseteq Nat
  /\ "free" \notin Engines /\ "dead" \notin Engines

VARIABLES
  master,     \* the resource in the system controller: the changes so far
  proxy,      \* per proxy: the change it handles and what is left to do
  rows,       \* the orch_request table, by id; a soft deleted row is
              \* "completed" or "dropped"
  have,       \* per endpoint: the request applied to the subcloud last
  sub,        \* per endpoint: "enabled", "offline" or "unmanaged"
  sync,       \* per endpoint: sync_request of its row in subcloud_sync
  audit,      \* per endpoint: audit_status of that row
  reported,   \* per endpoint: the sync status reported to dcmanager last
  lock,       \* per action and endpoint: the sync_lock table
  syncer,     \* per engine and endpoint: _sync_subcloud and SyncThread.sync
  auditor,    \* per engine and endpoint: _audit_subcloud and sync_audit
  cache,      \* per engine: master_resources_dict
  faults      \* failures so far

dataVars == <<master, proxy, rows, have>>
statusVars == <<sub, sync, audit, reported>>
engineVars == <<lock, syncer, auditor, cache>>
vars == <<dataVars, statusVars, engineVars, faults>>

Ids == 1..MaxRequests

\* PENDING_SYNC_REQUEST_STATES
PendingStates == {"queued", "in-progress", "failed"}

NoRequest == [ep |-> "none", val |-> 0, state |-> "none"]

NoSync == [pc |-> "idle", todo |-> {}, tries |-> 0, aborted |-> FALSE]

NoAudit == [pc |-> "idle", old |-> {}, busy |-> FALSE, found |-> FALSE, val |-> 0]

NoChange == [pc |-> "idle", val |-> 0, left |-> {}]

\* What a proxy has left to do, the next phase when nothing of this one is.
Onward(change, e, next) ==
  IF change.left # {e} THEN [change EXCEPT !.left = @ \ {e}]
  ELSE IF next = "idle" THEN NoChange
  ELSE [change EXCEPT !.pc = next, !.left = Endpoints]

First(S) == CHOOSE x \in S : \A y \in S : x <= y

Pending(e) == {i \in Ids : rows[i].ep = e /\ rows[i].state \in PendingStates}

Failed == {i \in Ids : rows[i].state = "failed"}

\* The resource as the subcloud has it.
Value(e) == IF have[e] = 0 THEN 0 ELSE rows[have[e]].val

Enabled(e) == sub[e] = "enabled"

Managed(e) == sub[e] # "unmanaged"

Init ==
  /\ master = 0
  /\ proxy = [p \in Proxies |-> NoChange]
  /\ rows = [i \in Ids |-> NoRequest]
  /\ have = [e \in Endpoints |-> 0]
  /\ sub = [e \in Endpoints |-> "enabled"]
  /\ sync = [e \in Endpoints |-> "none"]
  /\ audit = [e \in Endpoints |-> "none"]
  /\ reported = [e \in Endpoints |-> "none"]
  /\ lock = [a \in {"sync", "audit"} |-> [e \in Endpoints |-> "free"]]
  /\ syncer = [g \in Engines |-> [e \in Endpoints |-> NoSync]]
  /\ auditor = [g \in Engines |-> [e \in Endpoints |-> NoAudit]]
  /\ cache = [g \in Engines |-> {}]
  /\ faults = 0

Fault ==
  /\ faults < MaxFaults
  /\ faults' = faults + 1

NoFault == UNCHANGED faults

-------------------------------------------------------------------------------
(* The API proxy.                                                          *)

\* The system controller performs the request of a client.
Change(p) ==
  /\ proxy[p] = NoChange
  /\ master < MaxChanges
  /\ master' = master + 1
  /\ proxy' = [proxy EXCEPT ![p] = [pc |-> "enqueue", val |-> master + 1,
                                   left |-> Endpoints]]
  /\ UNCHANGED <<rows, have, statusVars, engineVars, faults>>

\* A row of enqueue_work: it carries the change itself.
Enqueue(e, v) ==
  LET unused == {i \in Ids : rows[i] = NoRequest}
  IN /\ unused # {}
     /\ rows' = [rows EXCEPT ![First(unused)] =
                   [ep |-> e, val |-> v, state |-> "queued"]]

\* One orch_request after the other, for every subcloud, managed or not.
ProxyEnqueue(p, e) ==
  /\ proxy[p].pc = "enqueue"
  /\ e \in proxy[p].left
  /\ Enqueue(e, proxy[p].val)
  /\ proxy' = [proxy EXCEPT ![p] = Onward(@, e, "notify")]
  /\ UNCHANGED <<master, have, statusVars, engineVars, faults>>

\* notify, and sync_request in the engine: the flag of every managed subcloud.
Notify(p, e) ==
  /\ proxy[p].pc = "notify"
  /\ e \in proxy[p].left
  /\ sync' = IF Managed(e) THEN [sync EXCEPT ![e] = "requested"] ELSE sync
  /\ proxy' = [proxy EXCEPT ![p] = Onward(@, e, "idle")]
  /\ UNCHANGED <<master, rows, have, sub, audit, reported, engineVars, faults>>

\* The proxy dies after the change, before all is enqueued and notified.
ProxyDies(p) ==
  /\ proxy[p] # NoChange
  /\ Fault
  /\ proxy' = [proxy EXCEPT ![p] = NoChange]
  /\ UNCHANGED <<master, rows, have, statusVars, engineVars>>

-------------------------------------------------------------------------------
(* The sync of one endpoint by one engine.                                 *)

Synced(g, e, s) == syncer' = [syncer EXCEPT ![g][e] = s]

SyncGoto(g, e, label) == syncer' = [syncer EXCEPT ![g][e].pc = label]

\* Nothing that sync has read is needed any more.
SyncEnds(g, e, label) == Synced(g, e, [NoSync EXCEPT !.pc = label])

\* A write to row i is newer than every audit's most recent failed request.
Touch(i) ==
  auditor' = [g \in Engines |-> [e \in Endpoints |->
               [auditor[g][e] EXCEPT !.old = @ \ {i}]]]

SaveState(i, s) ==
  /\ rows' = [rows EXCEPT ![i].state = s]
  /\ Touch(i)

\* sync_subcloud and mutex_start_thread: a thread is started under the lock.
StartSync(g, e) ==
  /\ Enabled(e)
  /\ sync[e] \in {"requested", "failed"}
  /\ syncer[g][e].pc = "idle"
  /\ lock["sync"][e] = "free"
  /\ lock' = [lock EXCEPT !["sync"][e] = g]
  /\ Synced(g, e, [NoSync EXCEPT !.pc = "begin"])
  /\ UNCHANGED <<dataVars, statusVars, auditor, cache, faults>>

\* The lock is released when the thread was started, not when it ends.
ReleaseSync(g, e) ==
  /\ lock["sync"][e] = g
  /\ lock' = [lock EXCEPT !["sync"][e] = "free"]
  /\ UNCHANGED <<dataVars, statusVars, syncer, auditor, cache, faults>>

BeginSync(g, e) ==
  /\ syncer[g][e].pc = "begin"
  /\ sync' = [sync EXCEPT ![e] = "in-progress"]
  /\ SyncGoto(g, e, "list")
  /\ UNCHANGED <<dataVars, sub, audit, reported, lock, auditor, cache, faults>>

\* Failed requests are tried again.
WrongListRequests(g, e) ==
  /\ syncer[g][e].pc = "list"
  /\ Synced(g, e, [syncer[g][e] EXCEPT
                    !.todo = Pending(e),
                    !.pc = IF Pending(e) = {} THEN "report in" ELSE "report out"])
  /\ UNCHANGED <<dataVars, statusVars, lock, auditor, cache, faults>>

\* sync reads the pending requests; failed ones are reported, not tried.
ListRequests(g, e) ==
  /\ syncer[g][e].pc = "list"
  /\ Synced(g, e, [syncer[g][e] EXCEPT
                    !.todo = Pending(e) \ Failed,
                    !.pc = IF Pending(e) = {} THEN "report in" ELSE "report out"])
  /\ UNCHANGED <<dataVars, statusVars, lock, auditor, cache, faults>>

\* set_sync_status
Report(e, status) ==
  reported' = IF Managed(e) THEN [reported EXCEPT ![e] = status] ELSE reported

ReportOutOfSync(g, e) ==
  /\ syncer[g][e].pc = "report out"
  /\ Report(e, "out-of-sync")
  /\ IF syncer[g][e].todo # {} /\ Enabled(e) THEN SyncGoto(g, e, "next")
     ELSE SyncEnds(g, e, "end")
  /\ UNCHANGED <<dataVars, sub, sync, audit, lock, auditor, cache, faults>>

\* The next request is marked in progress; one deleted meanwhile is passed over.
NextRequest(g, e) ==
  LET s == syncer[g][e]
      i == First(s.todo)
  IN /\ s.pc = "next"
     /\ IF s.todo = {} \/ ~Enabled(e)
        THEN /\ Synced(g, e, [s EXCEPT !.pc = "relist", !.todo = {}, !.tries = 0])
             /\ UNCHANGED <<rows, auditor>>
        ELSE IF rows[i].state \in PendingStates
        THEN SaveState(i, "in-progress") /\ SyncGoto(g, e, "apply")
        ELSE /\ Synced(g, e, [s EXCEPT !.todo = @ \ {i}])
             /\ UNCHANGED <<rows, auditor>>
     /\ UNCHANGED <<master, proxy, have, statusVars, lock, cache, faults>>

\* sync_resource: the subcloud accepts the change.
ApplyRequest(g, e) ==
  /\ syncer[g][e].pc = "apply"
  /\ have' = [have EXCEPT ![e] = First(syncer[g][e].todo)]
  /\ SyncGoto(g, e, "save")
  /\ UNCHANGED <<master, proxy, rows, statusVars, lock, auditor, cache, faults>>

\* The request is completed, which deletes it.
CompleteRequest(g, e) ==
  LET s == syncer[g][e]
      i == First(s.todo)
  IN /\ s.pc = "save"
     /\ IF rows[i].state \in PendingStates THEN SaveState(i, "completed")
        ELSE UNCHANGED <<rows, auditor>>
     /\ Synced(g, e, [s EXCEPT !.pc = "next", !.todo = @ \ {i}, !.tries = 0])
     /\ UNCHANGED <<master, proxy, have, statusVars, lock, cache, faults>>

\* A request that fails is one failure, however often it is tried, and none
\* of its own when the subcloud is not there.
TryFails(g, e) ==
  IF syncer[g][e].tries = 0 /\ Enabled(e) THEN Fault ELSE NoFault

\* Saving a row that is deleted raises, here out of sync.
FailingSave(g, e, state, s) ==
  LET i == First(syncer[g][e].todo)
  IN IF rows[i].state \in PendingStates
     THEN SaveState(i, state) /\ Synced(g, e, s)
     ELSE SyncEnds(g, e, "broken") /\ UNCHANGED <<rows, auditor>>

\* SyncRequestTimeout: the subcloud may have done it all the same.  After
\* MAX_RETRY the endpoint is taken to be unreachable.
RequestTimesOut(g, e) ==
  LET s == syncer[g][e]
      i == First(s.todo)
  IN /\ s.pc = "apply"
     /\ TryFails(g, e)
     /\ have' \in {have, [have EXCEPT ![e] = i]}
     /\ FailingSave(g, e, rows[i].state,
                    IF s.tries + 1 < MaxRetry THEN [s EXCEPT !.tries = @ + 1]
                    ELSE [s EXCEPT !.pc = "relist", !.todo = {}, !.tries = 0])
     /\ UNCHANGED <<master, proxy, statusVars, lock, cache>>

\* SyncRequestFailedRetry, and SyncRequestFailed which is not tried again;
\* SyncRequestAbortedBySystem is remembered.
RequestFails(g, e) ==
  LET s == syncer[g][e]
      i == First(s.todo)
      on == [s EXCEPT !.pc = "next", !.todo = @ \ {i}, !.tries = 0]
  IN /\ s.pc = "apply"
     /\ TryFails(g, e)
     /\ \/ FailingSave(g, e, "failed",
                       IF s.tries + 1 = MaxRetry THEN on
                       ELSE [s EXCEPT !.tries = @ + 1])
        \/ FailingSave(g, e, "failed", on)
        \/ FailingSave(g, e, "failed", [on EXCEPT !.aborted = TRUE])
     /\ UNCHANGED <<master, proxy, have, statusVars, lock, cache>>

\* What is left after an abort is not reported; anything else is in-sync.
ListAgain(g, e) ==
  LET s == syncer[g][e]
  IN /\ s.pc = "relist"
     /\ SyncEnds(g, e, IF Pending(e) # {} /\ s.aborted THEN "end" ELSE "report in")
     /\ UNCHANGED <<dataVars, statusVars, lock, auditor, cache, faults>>

ReportInSync(g, e) ==
  /\ syncer[g][e].pc = "report in"
  /\ Report(e, "in-sync")
  /\ SyncEnds(g, e, "end")
  /\ UNCHANGED <<dataVars, sub, sync, audit, lock, auditor, cache, faults>>

\* SYNC_TIMEOUT, or any other exception.
SyncBreaks(g, e) ==
  /\ syncer[g][e].pc \in {"list", "report out", "next", "apply", "save", "relist",
                          "report in"}
  /\ Fault
  /\ SyncEnds(g, e, "broken")
  /\ UNCHANGED <<dataVars, statusVars, lock, auditor, cache>>

\* The flag is overwritten, also when it was raised during the sync.
EndSync(g, e) ==
  /\ syncer[g][e].pc \in {"end", "broken"}
  /\ sync' = [sync EXCEPT ![e] = IF syncer[g][e].pc = "end" THEN "completed"
                                 ELSE "failed"]
  /\ SyncEnds(g, e, "idle")
  /\ UNCHANGED <<dataVars, sub, audit, reported, lock, auditor, cache, faults>>

-------------------------------------------------------------------------------
(* The audit of one endpoint by one engine.                                *)

Audited(g, e, a) == auditor' = [auditor EXCEPT ![g][e] = a]

AuditGoto(g, e, label) == auditor' = [auditor EXCEPT ![g][e].pc = label]

\* Nothing that sync_audit has read is needed any more.
AuditEnds(g, e, label) == Audited(g, e, [NoAudit EXCEPT !.pc = label])

\* AUDIT_INTERVAL, twice the SYNC_TIMEOUT that bounds an audit, may have
\* passed whenever no audit of the endpoint runs.
IntervalMayHavePassed(e) == \A g \in Engines : auditor[g][e].pc = "idle"

\* An audit that failed is not repeated.
WrongAuditNeeded(e) ==
  \/ audit[e] = "none"
  \/ audit[e] # "failed" /\ IntervalMayHavePassed(e)

\* Whether audit_subcloud finds the audit necessary.
AuditNeeded(e) == audit[e] \in {"none", "failed"} \/ IntervalMayHavePassed(e)

StartAudit(g, e) ==
  /\ Enabled(e)
  /\ AuditNeeded(e)
  /\ auditor[g][e].pc = "idle"
  /\ lock["audit"][e] = "free"
  /\ lock' = [lock EXCEPT !["audit"][e] = g]
  /\ Audited(g, e, [NoAudit EXCEPT !.pc = "begin"])
  /\ UNCHANGED <<dataVars, statusVars, syncer, cache, faults>>

ReleaseAudit(g, e) ==
  /\ lock["audit"][e] = g
  /\ lock' = [lock EXCEPT !["audit"][e] = "free"]
  /\ UNCHANGED <<dataVars, statusVars, syncer, auditor, cache, faults>>

BeginAudit(g, e) ==
  /\ auditor[g][e].pc = "begin"
  /\ audit' = [audit EXCEPT ![e] = "in-progress"]
  /\ AuditGoto(g, e, "read")
  /\ UNCHANGED <<dataVars, sub, sync, reported, lock, syncer, cache, faults>>

\* The failed requests of all endpoints, which get_most_recent_failed_request
\* stands for.
ReadFailed(g, e) ==
  /\ auditor[g][e].pc = "read"
  /\ IF Enabled(e)
     THEN Audited(g, e, [auditor[g][e] EXCEPT !.old = Failed, !.pc = "pending"])
     ELSE AuditEnds(g, e, "end")
  /\ UNCHANGED <<dataVars, statusVars, lock, syncer, cache, faults>>

\* Whether requests for the resource are under way.
ReadPending(g, e) ==
  /\ auditor[g][e].pc = "pending"
  /\ Audited(g, e, [auditor[g][e] EXCEPT !.busy = Pending(e) \ Failed # {},
                                        !.pc = "fetch"])
  /\ UNCHANGED <<dataVars, statusVars, lock, syncer, cache, faults>>

\* get_all_resources: the resource in the subcloud first.
FetchSubcloud(g, e) ==
  /\ auditor[g][e].pc = "fetch"
  /\ Audited(g, e, [auditor[g][e] EXCEPT !.val = Value(e), !.pc = "master"])
  /\ UNCHANGED <<dataVars, statusVars, lock, syncer, cache, faults>>

\* get_cached_master_resources, then audit_find_missing.
CompareMaster(g, e) ==
  LET a == auditor[g][e]
      cached == IF cache[g] = {} THEN {master} ELSE cache[g]
  IN /\ a.pc = "master"
     /\ cache' = [cache EXCEPT ![g] = cached]
     /\ \E m \in cached :
          LET missing == m # a.val /\ ~a.busy
          IN Audited(g, e, [a EXCEPT !.pc = IF missing THEN "schedule" ELSE "later",
                                     !.found = a.busy \/ missing,
                                     !.busy = FALSE,
                                     !.val = IF missing THEN m ELSE 0])
     /\ UNCHANGED <<dataVars, statusVars, lock, syncer, faults>>

\* audit_action, schedule_work: the master's resource for this subcloud.
ScheduleWork(g, e) ==
  /\ auditor[g][e].pc = "schedule"
  /\ Enqueue(e, auditor[g][e].val)
  /\ Audited(g, e, [auditor[g][e] EXCEPT !.pc = "later", !.val = 0])
  /\ UNCHANGED <<master, proxy, have, statusVars, lock, syncer, cache, faults>>

\* The subcloud or the master is found unreachable, or the subcloud disabled:
\* the audit returns, with the cache as earlier types of resources left it.
AuditReturns(g, e) ==
  /\ auditor[g][e].pc \in {"fetch", "master"} \cup IF LaterTypes THEN {"later"} ELSE {}
  /\ IF Enabled(e) THEN Fault ELSE NoFault
  /\ AuditEnds(g, e, "end")
  /\ UNCHANGED <<dataVars, statusVars, lock, syncer, cache>>

\* An error while a type is audited ends the audit of this type only.
AuditSkips(g, e) ==
  /\ auditor[g][e].pc \in {"fetch", "master", "schedule"}
  /\ Fault
  /\ Audited(g, e, [auditor[g][e] EXCEPT !.pc = "later", !.busy = FALSE, !.val = 0])
  /\ UNCHANGED <<dataVars, statusVars, lock, syncer, cache>>

\* delete_previous_failed_requests: those that had failed when the audit began.
DropFailed(g, e) ==
  LET drop == auditor[g][e].old \cap Failed
  IN /\ auditor[g][e].pc = "later"
     /\ rows' = [i \in Ids |-> IF i \in drop THEN [rows[i] EXCEPT !.state = "dropped"]
                               ELSE rows[i]]
     /\ Audited(g, e, [auditor[g][e] EXCEPT !.old = {}, !.pc = "findings"])
     /\ UNCHANGED <<master, proxy, have, statusVars, lock, syncer, cache, faults>>

\* A sync is requested for what the audit has scheduled or left to requests
\* under way.
ReportFindings(g, e) ==
  /\ auditor[g][e].pc = "findings"
  /\ sync' = IF auditor[g][e].found THEN [sync EXCEPT ![e] = "requested"] ELSE sync
  /\ Audited(g, e, [auditor[g][e] EXCEPT !.pc = "flag", !.found = FALSE])
  /\ UNCHANGED <<dataVars, sub, audit, reported, lock, syncer, cache, faults>>

\* And once more in any case; post_audit empties the cache.
RequestSync(g, e) ==
  /\ auditor[g][e].pc = "flag"
  /\ sync' = [sync EXCEPT ![e] = "requested"]
  /\ cache' = [cache EXCEPT ![g] = {}]
  /\ AuditEnds(g, e, "end")
  /\ UNCHANGED <<dataVars, sub, audit, reported, lock, syncer, faults>>

\* SYNC_TIMEOUT, or any other exception.
AuditBreaks(g, e) ==
  /\ auditor[g][e].pc \in {"read", "pending", "fetch", "master", "schedule", "later",
                           "findings", "flag"}
  /\ Fault
  /\ AuditEnds(g, e, "broken")
  /\ UNCHANGED <<dataVars, statusVars, lock, syncer, cache>>

EndAudit(g, e) ==
  /\ auditor[g][e].pc \in {"end", "broken"}
  /\ audit' = [audit EXCEPT ![e] = IF auditor[g][e].pc = "end" THEN "completed"
                                   ELSE "failed"]
  /\ AuditEnds(g, e, "idle")
  /\ UNCHANGED <<dataVars, sub, sync, reported, lock, syncer, cache, faults>>

-------------------------------------------------------------------------------
(* The environment.                                                        *)

\* The subcloud goes offline or is unmanaged: initial_sync_state is reset.
Outage(e) ==
  /\ Enabled(e)
  /\ Fault
  /\ \E s \in {"offline", "unmanaged"} : sub' = [sub EXCEPT ![e] = s]
  /\ UNCHANGED <<dataVars, sync, audit, reported, engineVars>>

\* The audit status is reset with a status of the sync.
WrongRecover(e) ==
  /\ ~Enabled(e)
  /\ sub' = [sub EXCEPT ![e] = "enabled"]
  /\ audit' = [audit EXCEPT ![e] = "requested"]
  /\ reported' = [reported EXCEPT ![e] = "none"]
  /\ UNCHANGED <<dataVars, sync, engineVars, faults>>

\* It is back, initially synchronised, by init_subcloud_sync_audit.
Recover(e) ==
  /\ ~Enabled(e)
  /\ sub' = [sub EXCEPT ![e] = "enabled"]
  /\ audit' = [audit EXCEPT ![e] = "none"]
  /\ reported' = [reported EXCEPT ![e] = "none"]
  /\ UNCHANGED <<dataVars, sync, engineVars, faults>>

\* An engine dies with its threads; its locks stay.
Restart(g) ==
  /\ Fault
  /\ syncer' = [syncer EXCEPT ![g] = [e \in Endpoints |-> NoSync]]
  /\ auditor' = [auditor EXCEPT ![g] = [e \in Endpoints |-> NoAudit]]
  /\ cache' = [cache EXCEPT ![g] = {}]
  /\ lock' = [a \in {"sync", "audit"} |-> [e \in Endpoints |->
                IF lock[a][e] = g THEN "dead" ELSE lock[a][e]]]
  /\ UNCHANGED <<dataVars, statusVars>>

\* purge_stale_sync_lock, sync_lock_cleanup
PurgeLocks ==
  /\ \E a \in {"sync", "audit"}, e \in Endpoints : lock[a][e] = "dead"
  /\ lock' = [a \in {"sync", "audit"} |-> [e \in Endpoints |->
                IF lock[a][e] = "dead" THEN "free" ELSE lock[a][e]]]
  /\ UNCHANGED <<dataVars, statusVars, syncer, auditor, cache, faults>>

-------------------------------------------------------------------------------

ProxyProgress(p) == \E e \in Endpoints : ProxyEnqueue(p, e) \/ Notify(p, e)

SyncProgress(g, e) ==
  \/ BeginSync(g, e) \/ ListRequests(g, e) \/ ReportOutOfSync(g, e)
  \/ NextRequest(g, e) \/ ApplyRequest(g, e) \/ CompleteRequest(g, e)
  \/ RequestTimesOut(g, e) \/ RequestFails(g, e)
  \/ ListAgain(g, e) \/ ReportInSync(g, e) \/ EndSync(g, e)

AuditProgress(g, e) ==
  \/ BeginAudit(g, e) \/ ReadFailed(g, e) \/ ReadPending(g, e)
  \/ FetchSubcloud(g, e) \/ CompareMaster(g, e) \/ ScheduleWork(g, e)
  \/ DropFailed(g, e) \/ ReportFindings(g, e) \/ RequestSync(g, e) \/ EndAudit(g, e)

Next ==
  \/ \E p \in Proxies : Change(p) \/ ProxyProgress(p) \/ ProxyDies(p)
  \/ \E g \in Engines, e \in Endpoints :
       \/ StartSync(g, e) \/ SyncProgress(g, e) \/ SyncBreaks(g, e)
       \/ StartAudit(g, e) \/ AuditProgress(g, e) \/ AuditReturns(g, e)
       \/ AuditSkips(g, e) \/ AuditBreaks(g, e)
       \/ ReleaseSync(g, e) \/ ReleaseAudit(g, e)
  \/ \E e \in Endpoints : Outage(e) \/ Recover(e)
  \/ \E g \in Engines : Restart(g)
  \/ PurgeLocks

Spec == Init /\ [][Next]_vars

\* The loops of an engine run for ever, every call they make has a time out,
\* and time passes.  Clients, failures and outages promise nothing.
Fairness ==
  /\ \A p \in Proxies : WF_vars(ProxyProgress(p))
  /\ \A g \in Engines, e \in Endpoints :
       /\ WF_vars(SyncProgress(g, e)) /\ WF_vars(AuditProgress(g, e))
       /\ WF_vars(ReleaseSync(g, e)) /\ WF_vars(ReleaseAudit(g, e))
       /\ WF_vars(StartSync(g, e)) /\ WF_vars(StartAudit(g, e))
  /\ \A e \in Endpoints : WF_vars(Recover(e))
  /\ WF_vars(PurgeLocks)

FairSpec == Spec /\ Fairness
-------------------------------------------------------------------------------
(* Properties.                                                             *)

SyncLabels == {"idle", "begin", "list", "report out", "next", "apply", "save",
               "relist", "report in", "end", "broken"}

AuditLabels == {"idle", "begin", "read", "pending", "fetch", "master", "schedule",
                "later", "findings", "flag", "end", "broken"}

RequestStates == PendingStates \cup {"completed", "dropped"}

Requests == {NoRequest} \cup [ep : Endpoints, val : Nat, state : RequestStates]

Changes == [pc : {"idle", "enqueue", "notify"}, val : Nat, left : SUBSET Endpoints]

Syncs == [pc : SyncLabels, todo : SUBSET Ids, tries : Nat,
          aborted : BOOLEAN]

Audits == [pc : AuditLabels, old : SUBSET Ids, busy : BOOLEAN,
           found : BOOLEAN, val : Nat]

TypeOK ==
  /\ master \in Nat
  /\ proxy \in [Proxies -> Changes]
  /\ rows \in [Ids -> Requests]
  /\ have \in [Endpoints -> {0} \cup Ids]
  /\ sub \in [Endpoints -> {"enabled", "offline", "unmanaged"}]
  /\ sync \in [Endpoints -> {"none", "requested", "in-progress", "completed", "failed"}]
  /\ audit \in [Endpoints -> {"none", "in-progress", "completed", "failed"}]
  /\ reported \in [Endpoints -> {"none", "in-sync", "out-of-sync"}]
  /\ lock \in [{"sync", "audit"} -> [Endpoints -> Engines \cup {"free", "dead"}]]
  /\ syncer \in [Engines -> [Endpoints -> Syncs]]
  /\ auditor \in [Engines -> [Endpoints -> Audits]]
  /\ cache \in [Engines -> SUBSET Nat]
  /\ faults \in Nat

(* The requests of an endpoint reach the subcloud in the order in which    *)
(* they were made, whatever fails and is tried again, whatever dies in the *)
(* middle: an older request never overwrites a newer one.                  *)
AppliedInOrder == [][\A e \in Endpoints : have'[e] >= have[e]]_vars

(* Once changes, failures and outages cease, every subcloud has the        *)
(* resource of the system controller, no request is left, and in-sync is   *)
(* what dcmanager is told.                                                 *)
Settled ==
  \A e \in Endpoints :
    Value(e) = master /\ Pending(e) = {} /\ reported[e] = "in-sync"

Settles == <>[]Settled
===============================================================================
