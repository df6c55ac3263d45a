------------------------------ MODULE SubcloudState -----------------------------
(***************************************************************************)
(* dcmanager: how the availability, the management state and the sync      *)
(* status of a subcloud are kept.  The audit manager casts audits of the   *)
(* subcloud to worker processes; an audit probes the subcloud, reports its *)
(* availability to the state manager (a call) and the sync status of its   *)
(* endpoints (casts, handled in any order by the state manager's           *)
(* processes under a lock per subcloud); a client manages and unmanages    *)
(* the subcloud; dcorch is told of every change.                           *)
(*                                                                         *)
(* One subcloud is followed.  An action is one database access, remote     *)
(* call or message with the computation up to the next one.                *)
(***************************************************************************)
EXTENDS Integers, FiniteSets

CONSTANTS
  Auditors,      \* the audits of the subcloud in flight or running; bounds
                 \* the casts of the audit manager that are under way
  Audited,       \* the endpoints the audits compare with the system controller
  Reported,      \* the endpoints whose status other services report
  Requests,      \* the update requests of clients handled at a time
  FailsToAlarm,  \* AVAIL_FAIL_COUNT_TO_ALARM
  MaxFails,      \* AVAIL_FAIL_COUNT_MAX
  MaxCasts,      \* bound on equal status casts in flight
  Managed,       \* whether the subcloud is managed, online and in sync at first
  MaxEvents      \* bound on what comes from outside: versions that change, the
                 \* subcloud that answers or not, reports of other services,
                 \* requests, lost calls, calls that time out, processes that
                 \* die and audits that expire

\* The sync status of these is compared only with data of the system
\* controller; the audit of the others takes "no data" for "nothing to apply".
NeedsData == {"patching", "load"}

Endpoints == Audited \cup Reported

ASSUME ConstantsAssumption ==
  /\ Audited \subseteq {"patching", "load", "firmware", "kubernetes"}
  /\ "load" \in Audited => "patching" \in Audited
  /\ Reported \subseteq {"identity", "dc-cert"}
  /\ FailsToAlarm \in Nat \ {0}
  /\ {MaxFails, MaxCasts, MaxEvents} \subseteq Nat
  /\ FailsToAlarm <= MaxFails
  /\ Managed \in BOOLEAN

VARIABLES
  row,        \* the subcloud's row: management and availability, fail count
  status,     \* subcloud_status: the sync status per endpoint
  running,    \* its subcloud_audits row says that an audit has not finished
  flags,      \* the requests in that row: endpoints to audit, "state" for a
              \* state update
  force,      \* force_*_audit of the audit manager's process
  central,    \* per audited endpoint: the version in the system controller
  remote,     \* per audited endpoint: the version in the subcloud
  reach,      \* what a probe finds: "active" or "inactive" services, or that
              \* the subcloud is "unreachable"
  aud,        \* per auditor: audit_subclouds and _audit_subcloud
  handler,    \* per auditor: its call of update_subcloud_availability
  inbox,      \* the casts of update_subcloud_endpoint_status in flight
  lock,       \* the lock per subcloud: "free" or the accepted status update
  triggers,   \* the casts that request audits in flight
  request,    \* per request: update_subcloud
  dcorch,     \* the states dcorch knows
  resetLost,  \* the reset of an unmanaged subcloud's statuses failed once
  misses,     \* the probes that failed since the last one that did not
  events      \* what came from outside so far

dbVars == <<row, status, running, flags>>
envVars == <<central, remote, reach>>
history == <<resetLost, misses>>
vars == <<dbVars, envVars, force, aud, handler, inbox, lock, triggers, request,
          dcorch, history, events>>

Statuses == {"unknown", "in-sync", "out-of-sync"}
Types == Audited \cup {"state"}

NoData == [t \in Audited |-> -1]

NoAudit == [pc |-> "idle", then |-> "idle", data |-> NoData, mgmt |-> "unmanaged",
            avail |-> "offline", count |-> 0, asked |-> {}, done |-> {}]

NoCall == [pc |-> "idle", mgmt |-> "unmanaged", avail |-> "offline", count |-> 0]

NoRequest == [pc |-> "idle", to |-> "unmanaged", from |-> "unmanaged",
              avail |-> "offline"]

Unlocked == [ep |-> "free", sync |-> "unknown"]

Audit(a, r) == aud' = [aud EXCEPT ![a] = r]
Handling(a, r) == handler' = [handler EXCEPT ![a] = r]
Request(q, r) == request' = [request EXCEPT ![q] = r]

Event == events < MaxEvents /\ events' = events + 1

Init ==
  /\ row = [mgmt |-> IF Managed THEN "managed" ELSE "unmanaged",
            avail |-> IF Managed THEN "online" ELSE "offline", count |-> 0]
  /\ status = [e \in Endpoints |-> IF Managed THEN "in-sync" ELSE "unknown"]
  /\ running = FALSE
  /\ flags = {}
  /\ force = {}
  /\ central = [t \in Audited |-> 0]
  /\ remote = [t \in Audited |-> 0]
  /\ reach = "active"
  /\ aud = [a \in Auditors |-> NoAudit]
  /\ handler = [a \in Auditors |-> NoCall]
  /\ inbox = [e \in Endpoints |-> [s \in Statuses |-> 0]]
  /\ lock = Unlocked
  /\ triggers = {}
  /\ request = [q \in Requests |-> NoRequest]
  /\ dcorch = [mgmt |-> row.mgmt, avail |-> row.avail]
  /\ resetLost = FALSE
  /\ misses = 0
  /\ events = 0

(***************************************************************************)
(* The audit manager                                                       *)
(***************************************************************************)

\* An audit of the load is part of the audit of the patches.
AuditsFor(asked) ==
  (asked \ {"state"}) \cup (IF "load" \in asked THEN {"patching"} ELSE {})

\* The system controller's versions that a pass gets and sends with its casts;
\* the load is told by the data of the patches.
DataFor(asked) ==
  [t \in Audited |->
     IF t \in AuditsFor(asked) \/ (t = "load" /\ "patching" \in AuditsFor(asked))
       THEN central[t] ELSE -1]

\* Mutant: the interval is not looked at.
AuditsForced(count, elapsed) == force

\* _get_audits_needed: when the interval of the patch audits has passed, or one
\* is forced, the patches are audited, the load every other time (or if forced),
\* the rest every fourth time; the other audits that are forced besides.
AuditsNeeded(count, elapsed) ==
  LET patch == elapsed \/ "patching" \in force
  IN  force \cup
      IF patch
        THEN {t \in Audited : CASE t = "patching" -> TRUE
                               [] t = "load" -> count % 2 # 0 \/ "patching" \in force
                               [] OTHER -> count % 4 = 1}
        ELSE {}

\* subcloud_audits_get_all_need_audit: no audit runs.  (That the last one ended
\* an interval ago, or an audit is requested, is a matter of time alone.)
NeedsAudit == ~running

\* A pass of _periodic_subcloud_audit_loop: requests the audits that are due and
\* casts an audit of the subcloud if none is running.  A cast not started yet
\* does not keep the next pass from another one.
AuditPass(a, count, elapsed, update) ==
  /\ aud[a].pc = "idle"
  /\ NeedsAudit
  /\ flags' = flags \cup AuditsNeeded(count, elapsed)
                   \cup (IF update THEN {"state"} ELSE {})
  /\ force' = {}
  /\ Audit(a, [NoAudit EXCEPT !.pc = "cast", !.data = DataFor(flags')])
  /\ UNCHANGED <<row, status, running, envVars, handler, inbox, lock, triggers,
                 request, dcorch, history, events>>

\* fix_expired_audits on a pass.  It compares the time the last audit finished,
\* so any audit that is running may be ended; the worker goes on with it.
ExpireAudit ==
  /\ running
  /\ \/ (\A a \in Auditors : aud[a].pc \in {"idle", "cast"}) /\ UNCHANGED events
     \/ Event
  /\ running' = FALSE
  /\ UNCHANGED <<row, status, flags, force, envVars, aud, handler, inbox, lock,
                 triggers, request, dcorch, history>>

\* When the audit manager starts, the audit that was running is ended and all
\* audits are requested for it; the forced ones are forgotten.
RestartManager ==
  /\ Event
  /\ running' = FALSE
  /\ flags' = IF running THEN flags \cup Audited ELSE flags
  /\ force' = {}
  /\ UNCHANGED <<row, status, envVars, aud, handler, inbox, lock, triggers,
                 request, dcorch, history>>

\* The casts trigger_subcloud_audits ("online", "managed") and
\* trigger_subcloud_patch_load_audits ("identity").  An endpoint excluded by
\* the first is written FALSE: an earlier request of it is lost.
RequestAudits(m) ==
  /\ m \in triggers \cap {"online", "managed", "identity"}
  /\ triggers' = triggers \ {m}
  /\ flags' = CASE m = "online" -> flags \cup Audited
                [] m = "managed" -> (flags \cup Audited) \ NeedsData
                [] OTHER -> flags \cup (Audited \cap NeedsData)
  /\ UNCHANGED <<row, status, running, force, envVars, aud, handler, inbox, lock,
                 request, dcorch, history, events>>

\* The casts trigger_patch_audit, trigger_firmware_audit and
\* trigger_kubernetes_audit force an audit of all subclouds at the next pass.
ForceAudit(t) ==
  /\ t \in triggers \cap Audited
  /\ triggers' = triggers \ {t}
  /\ force' = force \cup {t}
  /\ UNCHANGED <<dbVars, envVars, aud, handler, inbox, lock, request, dcorch,
                 history, events>>

(***************************************************************************)
(* An audit in a worker process                                            *)
(***************************************************************************)

\* audit_subclouds: reads the row and the requests, and marks the audit started.
StartAudit(a) ==
  /\ aud[a].pc = "cast"
  /\ running' = TRUE
  /\ Audit(a, [aud[a] EXCEPT !.pc = "probe", !.mgmt = row.mgmt,
                 !.avail = row.avail, !.count = row.count, !.asked = flags])
  /\ UNCHANGED <<row, status, flags, force, envVars, handler, inbox, lock,
                 triggers, request, dcorch, history, events>>

\* Mutant: the count has no maximum.
CountWithoutMax(count, up) == IF up THEN 0 ELSE count + 1

\* The fail count after a probe.
CountAfter(count, up) ==
  IF up THEN 0 ELSE IF count < MaxFails THEN count + 1 ELSE count

\* Mutant: off by one.
AvailTooEarly(avail, count, up) ==
  IF up \/ (avail = "online" /\ count + 1 < FailsToAlarm) THEN "online" ELSE "offline"

\* The availability to set: an online subcloud stays so until the audit has
\* failed the requisite number of times.
AvailAfter(avail, count, up) ==
  IF up \/ (avail = "online" /\ count < FailsToAlarm) THEN "online" ELSE "offline"

\* The audit goes on after its report of the availability: the endpoints are
\* audited if the row read at its start is managed and the subcloud online.
Onward(s, avail) ==
  IF s.mgmt = "managed" /\ avail = "online"
    THEN [NoAudit EXCEPT !.pc = "endpoints", !.data = s.data, !.asked = s.asked]
    ELSE [NoAudit EXCEPT !.pc = "end"]

\* It calls the state manager first.
Reporting(s, avail, count, pc) ==
  [Onward(s, avail) EXCEPT !.pc = pc, !.then = Onward(s, avail).pc,
                           !.avail = avail, !.count = count]

\* The call is over.
Resumed(s) == [s EXCEPT !.pc = s.then, !.then = "idle"]

\* Of every service group some service is active.
Up == reach = "active"

\* The worker writes the fail count, and nothing else, to the row itself.
WriteCount(count) == row' = [row EXCEPT !.count = count]

\* _audit_subcloud up to its report: no report of an offline subcloud that
\* cannot be reached; a call if the availability changed or a state update was
\* requested; a fail count that changed alone is written to the row directly.
Probe(a) ==
  LET s == aud[a]
      count == CountAfter(s.count, Up)
      avail == AvailAfter(s.avail, count, Up)
  IN
  /\ s.pc = "probe"
  /\ misses' = IF Up THEN 0 ELSE IF misses < FailsToAlarm THEN misses + 1 ELSE misses
  /\ \/ /\ reach = "unreachable" /\ s.avail = "offline"
        /\ Audit(a, [NoAudit EXCEPT !.pc = "end"])
        /\ UNCHANGED row
     \/ /\ ~(reach = "unreachable" /\ s.avail = "offline")
        /\ IF avail # s.avail
             THEN Audit(a, Reporting(s, avail, count, "report")) /\ UNCHANGED row
           ELSE IF count # s.count
             THEN Audit(a, Onward(s, avail)) /\ WriteCount(count)
           ELSE /\ Audit(a, IF "state" \in s.asked
                              THEN Reporting(s, avail, 0, "state only")
                              ELSE Onward(s, avail))
                /\ UNCHANGED row
  /\ UNCHANGED <<status, running, flags, force, envVars, handler, inbox, lock,
                 triggers, request, dcorch, resetLost, events>>

\* The call of update_subcloud_availability.  A handler that still runs for an
\* earlier call of the auditor delays this one (one handler per auditor).
Call(a) ==
  LET s == aud[a] IN
  /\ s.pc \in {"report", "state only"}
  /\ handler[a].pc = "idle"
  /\ Handling(a, [NoCall EXCEPT !.avail = s.avail, !.count = s.count,
                    !.pc = CASE s.pc = "state only" -> "read"
                             [] s.pc = "report" /\ s.avail = "offline" -> "reset"
                             [] OTHER -> "write"])
  /\ Audit(a, [s EXCEPT !.pc = "wait", !.avail = "offline", !.count = 0])
  /\ UNCHANGED <<dbVars, envVars, force, inbox, lock, triggers, request, dcorch,
                 history, events>>

\* The call fails or times out: the exception is logged, the audit goes on, and
\* the handler may go on too.
CallFails(a, dies) ==
  /\ Event
  /\ aud[a].pc = "wait"
  /\ Audit(a, Resumed(aud[a]))
  /\ IF dies THEN Handling(a, NoCall) ELSE UNCHANGED handler
  /\ UNCHANGED <<dbVars, envVars, force, inbox, lock, triggers, request, dcorch,
                 history>>

\* The status an audit reports of an endpoint.
Compared(t, data) ==
  IF data[t] = -1 \/ data[t] = remote[t] THEN "in-sync" ELSE "out-of-sync"

\* The endpoints of the requests an audit compares: the patches and the load
\* only with data of the system controller.
ToCompare(s) ==
  {t \in AuditsFor(s.asked) : t \in NeedsData => s.data["patching"] # -1}

\* The audits of the endpoints report by cast.  A subcloud that does not answer
\* is skipped (and the audit of the endpoint counts as done) or raises (and it
\* does not); "no data" is reported without asking the subcloud.
AuditEndpoints(a, failed) ==
  LET s == aud[a]
      sent == {t \in ToCompare(s) : reach = "active" \/ s.data[t] = -1}
  IN
  /\ s.pc = "endpoints"
  /\ failed \subseteq ToCompare(s) \ sent
  /\ \A t \in sent : inbox[t][Compared(t, s.data)] < MaxCasts
  /\ inbox' = [e \in Endpoints |-> [v \in Statuses |->
                 IF e \in sent /\ v = Compared(e, s.data)
                   THEN inbox[e][v] + 1 ELSE inbox[e][v]]]
  /\ Audit(a, [NoAudit EXCEPT !.pc = "end", !.done = ToCompare(s) \ failed])
  /\ UNCHANGED <<dbVars, envVars, force, handler, lock, triggers, request,
                 dcorch, history, events>>

\* end_audit clears the requests of the audits done, whoever made them and
\* when, and the request of a state update.
EndAudit(a) ==
  /\ aud[a].pc = "end"
  /\ running' = FALSE
  /\ flags' = flags \ (aud[a].done \cup {"state"})
  /\ Audit(a, NoAudit)
  /\ UNCHANGED <<row, status, force, envVars, handler, inbox, lock, triggers,
                 request, dcorch, history, events>>

\* A worker process dies with its audit, or the cast is lost.
AuditDies(a) ==
  /\ Event
  /\ aud[a].pc # "idle"
  /\ Audit(a, NoAudit)
  /\ UNCHANGED <<dbVars, envVars, force, handler, inbox, lock, triggers, request,
                 dcorch, history>>

(***************************************************************************)
(* The state manager: update_subcloud_availability                         *)
(***************************************************************************)

\* update_state_only: the management state is read afresh, the availability is
\* the one the audit read.
ReadState(a) ==
  /\ handler[a].pc = "read"
  /\ Handling(a, [handler[a] EXCEPT !.pc = "notify", !.mgmt = row.mgmt])
  /\ UNCHANGED <<dbVars, envVars, force, aud, inbox, lock, triggers, request,
                 dcorch, history, events>>

\* An update for all endpoints but some.
AllUnknown(except) ==
  status' = [e \in Endpoints |-> IF e \in except THEN status[e] ELSE "unknown"]

\* Going offline: all endpoints unknown first, under the lock of the subcloud.
ResetAll(a) ==
  /\ handler[a].pc = "reset"
  /\ lock = Unlocked
  /\ AllUnknown({})
  /\ Handling(a, [handler[a] EXCEPT !.pc = "write"])
  /\ UNCHANGED <<row, running, flags, envVars, force, aud, inbox, lock, triggers,
                 request, dcorch, history, events>>

\* Then the row; an online subcloud's audits are triggered.
WriteAvailability(a) ==
  LET h == handler[a] IN
  /\ h.pc = "write"
  /\ row' = [row EXCEPT !.avail = h.avail, !.count = h.count]
  /\ triggers' = triggers \cup (IF h.avail = "online" THEN {"online"} ELSE {})
  /\ Handling(a, [h EXCEPT !.pc = "notify", !.mgmt = row.mgmt, !.count = 0])
  /\ UNCHANGED <<status, running, flags, envVars, force, aud, inbox, lock,
                 request, dcorch, history, events>>

\* Last dcorch is told the states of the row as it was written; a failure is
\* only logged.  The audit that waits for the call goes on.
NotifyDcorch(a, told) ==
  LET h == handler[a] IN
  /\ h.pc = "notify"
  /\ \/ told /\ dcorch' = [mgmt |-> h.mgmt, avail |-> h.avail] /\ UNCHANGED events
     \/ ~told /\ Event /\ UNCHANGED dcorch
  /\ Handling(a, NoCall)
  /\ IF aud[a].pc = "wait" THEN Audit(a, Resumed(aud[a]))
     ELSE UNCHANGED aud
  /\ UNCHANGED <<dbVars, envVars, force, inbox, lock, triggers, request, history>>

(***************************************************************************)
(* The state manager: update_subcloud_endpoint_status                      *)
(***************************************************************************)

\* Mutant: whether the subcloud is managed does not matter.
AcceptableOnline(e, s) == s = "in-sync" => row.avail = "online"

\* "in-sync" is taken only of a managed, online subcloud (dc-cert also of an
\* unmanaged one).
Acceptable(e, s) ==
  s = "in-sync" => /\ row.avail = "online"
                   /\ row.mgmt = "managed" \/ e = "dc-cert"

\* A report that an endpoint is unknown has its audit forced (the service does so
\* after the update; "load" has no such audit).
ForcedBy(e, s) == IF s = "unknown" THEN {e} \cap (Audited \ {"load"}) ELSE {}

\* Under the lock, the row is read, then the status is written.
AcceptStatus(e, s) ==
  /\ inbox[e][s] > 0
  /\ lock = Unlocked
  /\ inbox' = [inbox EXCEPT ![e][s] = @ - 1]
  /\ lock' = IF Acceptable(e, s) /\ status[e] # s THEN [ep |-> e, sync |-> s] ELSE lock
  /\ triggers' = triggers \cup ForcedBy(e, s)
  /\ UNCHANGED <<dbVars, envVars, force, aud, handler, request, dcorch, history,
                 events>>

\* An identity endpoint that is not unknown any more has the audits of the
\* patches and the load requested.
WriteStatus ==
  LET e == lock.ep
      out == e = "identity" /\ status[e] = "unknown"
  IN
  /\ lock # Unlocked
  /\ status' = [status EXCEPT ![e] = lock.sync]
  /\ lock' = Unlocked
  /\ triggers' = triggers \cup (IF out THEN {"identity"} ELSE {})
  /\ UNCHANGED <<row, running, flags, envVars, force, aud, handler, inbox,
                 request, dcorch, history, events>>

(***************************************************************************)
(* The manager: update_subcloud                                            *)
(***************************************************************************)

\* Checks the row.
UpdateSubcloud(q, to, forced) ==
  /\ Event
  /\ request[q].pc = "idle"
  /\ row.mgmt # to
  /\ to = "managed" => forced \/ row.avail = "online"
  /\ Request(q, [NoRequest EXCEPT !.pc = "write", !.to = to, !.from = row.mgmt])
  /\ UNCHANGED <<dbVars, envVars, force, aud, handler, inbox, lock, triggers,
                 dcorch, history>>

\* Writes the new management state; the availability is that of the row then.
WriteManagement(q) ==
  /\ request[q].pc = "write"
  /\ row' = [row EXCEPT !.mgmt = request[q].to]
  /\ Request(q, [request[q] EXCEPT !.pc = "notify", !.avail = row.avail])
  /\ UNCHANGED <<status, running, flags, envVars, force, aud, handler, inbox, lock,
                 triggers, dcorch, history, events>>

\* dcorch is called; if that fails the management state is put back.
NotifyUpdate(q, told) ==
  LET r == request[q] IN
  /\ r.pc = "notify"
  /\ \/ /\ told
        /\ dcorch' = [mgmt |-> r.to, avail |-> r.avail]
        /\ Request(q, [r EXCEPT !.pc = "finish"])
        /\ UNCHANGED <<row, events>>
     \/ /\ ~told /\ Event
        /\ row' = [row EXCEPT !.mgmt = r.from]
        /\ Request(q, [r EXCEPT !.pc = "finish", !.to = r.from])
        /\ UNCHANGED dcorch
  /\ UNCHANGED <<status, running, flags, envVars, force, aud, handler, inbox, lock,
                 triggers, history>>

\* An unmanaged subcloud's statuses are reset, except dc-cert, under the lock
\* (a call, which may fail); a managed one's audits are triggered.
FinishUpdate(q, lost) ==
  LET managed == request[q].to = "managed" IN
  /\ request[q].pc = "finish"
  /\ \/ /\ managed
        /\ triggers' = triggers \cup {"managed"}
        /\ UNCHANGED <<status, resetLost, events>>
     \/ /\ ~managed /\ ~lost /\ lock = Unlocked
        /\ AllUnknown({"dc-cert"})
        /\ UNCHANGED <<triggers, resetLost, events>>
     \/ /\ ~managed /\ lost /\ Event
        /\ resetLost' = TRUE
        /\ UNCHANGED <<triggers, status>>
  /\ Request(q, NoRequest)
  /\ UNCHANGED <<row, running, flags, envVars, force, aud, handler, inbox, lock,
                 dcorch, misses>>

(***************************************************************************)
(* The rest of the system                                                  *)
(***************************************************************************)

\* The system controller's version of an endpoint changes through the API
\* proxy, which reports the endpoint unknown; the subcloud changes by itself.
CentralChanges(t) ==
  /\ Event
  /\ central' = [central EXCEPT ![t] = @ + 1]
  /\ IF t = "load" THEN UNCHANGED inbox
     ELSE /\ inbox[t]["unknown"] < MaxCasts
          /\ inbox' = [inbox EXCEPT ![t]["unknown"] = @ + 1]
  /\ UNCHANGED <<dbVars, remote, reach, force, aud, handler, lock, triggers,
                 request, dcorch, history>>

RemoteChanges(t) ==
  /\ Event
  /\ remote[t] # central[t]
  /\ remote' = [remote EXCEPT ![t] = central[t]]
  /\ UNCHANGED <<dbVars, central, reach, force, aud, handler, inbox, lock,
                 triggers, request, dcorch, history>>

ReachChanges(r) ==
  /\ Event
  /\ r # reach /\ reach' = r
  /\ UNCHANGED <<dbVars, central, remote, force, aud, handler, inbox, lock,
                 triggers, request, dcorch, history>>

\* Another service reports a status: dcorch of identity; cert-mon, by a request
\* to the API, of dc-cert.
OtherReport(e, s) ==
  /\ Event
  /\ inbox[e][s] < MaxCasts
  /\ inbox' = [inbox EXCEPT ![e][s] = @ + 1]
  /\ UNCHANGED <<dbVars, central, remote, reach, force, aud, handler, lock,
                 triggers, request, dcorch, history>>

Outside ==
  \/ \E t \in Audited : CentralChanges(t) \/ RemoteChanges(t)
  \/ \E r \in {"active", "inactive", "unreachable"} : ReachChanges(r)
  \/ \E e \in Reported, s \in Statuses \ {"unknown"} : OtherReport(e, s)
  \/ \E q \in Requests, to \in {"managed", "unmanaged"}, forced \in BOOLEAN :
       UpdateSubcloud(q, to, forced)

Manager ==
  \/ \E a \in Auditors, count \in 1 .. 4, elapsed, update \in BOOLEAN :
       AuditPass(a, count, elapsed, update)
  \/ ExpireAudit
  \/ RestartManager
  \/ \E m \in triggers : RequestAudits(m) \/ ForceAudit(m)

Worker(a) ==
  \/ StartAudit(a) \/ Probe(a) \/ Call(a) \/ EndAudit(a) \/ AuditDies(a)
  \/ \E dies \in BOOLEAN : CallFails(a, dies)
  \/ \E failed \in SUBSET Audited : AuditEndpoints(a, failed)

Handler(a) ==
  \/ ReadState(a) \/ ResetAll(a) \/ WriteAvailability(a)
  \/ \E told \in BOOLEAN : NotifyDcorch(a, told)

StatusUpdate ==
  \/ \E e \in Endpoints, s \in Statuses : AcceptStatus(e, s)
  \/ WriteStatus

Update(q) ==
  \/ WriteManagement(q)
  \/ \E told \in BOOLEAN : NotifyUpdate(q, told)
  \/ \E lost \in BOOLEAN : FinishUpdate(q, lost)

Next ==
  \/ Outside \/ Manager \/ StatusUpdate
  \/ \E a \in Auditors : Worker(a) \/ Handler(a)
  \/ \E q \in Requests : Update(q)

\* The audit manager makes passes and every audit falls due again and again;
\* audits, handlers and requests that are not hit by a fault go on; a cast is
\* handled in the end; an audit that does not end expires.
Fairness ==
  /\ \A a \in Auditors :
       /\ SF_vars(AuditPass(a, 1, TRUE, TRUE))
       /\ WF_vars(\/ StartAudit(a) \/ Probe(a) \/ Call(a) \/ EndAudit(a)
                  \/ \E failed \in SUBSET Audited : AuditEndpoints(a, failed))
       /\ WF_vars(\/ ReadState(a) \/ ResetAll(a) \/ WriteAvailability(a)
                  \/ NotifyDcorch(a, TRUE))
  /\ WF_vars(ExpireAudit)
  /\ WF_vars(\E m \in triggers : RequestAudits(m) \/ ForceAudit(m))
  /\ \A s \in Statuses : SF_vars(\E e \in Endpoints : AcceptStatus(e, s))
  /\ WF_vars(WriteStatus)
  /\ \A q \in Requests : WF_vars(\/ WriteManagement(q) \/ NotifyUpdate(q, TRUE)
                              \/ FinishUpdate(q, FALSE))

Spec == Init /\ [][Next]_vars
FairSpec == Spec /\ Fairness

(***************************************************************************)
(* Properties                                                              *)
(***************************************************************************)

Managements == {"unmanaged", "managed"}
Availabilities == {"offline", "online"}

Rows == [mgmt : Managements, avail : Availabilities, count : 0 .. MaxFails]

Audits ==
  [pc : {"idle", "cast", "probe", "report", "state only", "wait", "endpoints", "end"},
   then : {"idle", "endpoints", "end"}, data : [Audited -> Nat \cup {-1}],
   mgmt : Managements, avail : Availabilities, count : 0 .. MaxFails,
   asked : SUBSET Types, done : SUBSET Audited]

Calls ==
  [pc : {"idle", "read", "reset", "write", "notify"}, mgmt : Managements,
   avail : Availabilities, count : 0 .. MaxFails]

UpdateRequests ==
  [pc : {"idle", "write", "notify", "finish"}, to : Managements,
   from : Managements, avail : Availabilities]

TypeOK ==
  /\ row \in Rows
  /\ status \in [Endpoints -> Statuses]
  /\ running \in BOOLEAN
  /\ flags \subseteq Types
  /\ force \subseteq Audited
  /\ central \in [Audited -> Nat] /\ remote \in [Audited -> Nat]
  /\ reach \in {"active", "inactive", "unreachable"}
  /\ aud \in [Auditors -> Audits]
  /\ handler \in [Auditors -> Calls]
  /\ inbox \in [Endpoints -> [Statuses -> Nat]]
  /\ lock \in [ep : Endpoints, sync : Statuses] \cup {Unlocked}
  /\ triggers \subseteq {"online", "managed", "identity"} \cup Audited
  /\ request \in [Requests -> UpdateRequests]
  /\ dcorch \in [mgmt : Managements, avail : Availabilities]
  /\ resetLost \in BOOLEAN
  /\ misses \in 0 .. FailsToAlarm /\ events \in Nat

\* Once a request that unmanaged the subcloud has finished, no endpoint but
\* dc-cert shows in-sync until it is managed again: a report that was accepted
\* while the subcloud was managed cannot come after the reset (subcloud_manager
\* update_subcloud, state manager _update_subcloud_endpoint_status).
UnmanagedIsUnknown ==
  row.mgmt = "unmanaged" /\ ~resetLost
    /\ (\A q \in Requests : request[q].pc = "idle")
  => \A e \in Endpoints \ {"dc-cert"} : status[e] # "in-sync"

\* The comment of _update_subcloud_endpoint_status takes resetting the statuses
\* before the subcloud is made offline for enough.
OfflineIsUnknown ==
  row.avail = "offline" => \A e \in Endpoints : status[e] # "in-sync"

\* An audit that decides to set the subcloud offline is the last of the
\* requisite number of audits that failed in a row ("Do not set offline until we
\* have failed audit the requisite number of times").
RequisiteFailures ==
  [][\A a \in Auditors :
       aud[a].pc = "probe" /\ aud'[a].pc = "report" /\ aud'[a].avail = "offline"
         => misses' >= FailsToAlarm]_vars

Steady == reach = "active" /\ row.mgmt = "managed"

\* The status of every audited endpoint of a subcloud that stays managed and
\* answers comes to tell whether it is the system controller's version, and dcorch
\* comes to know the states of one that answers.
StatusCatchesUp ==
  /\ <>[]Steady => <>[](\A t \in Audited : status[t] =
                          IF remote[t] = central[t] THEN "in-sync" ELSE "out-of-sync")
  /\ <>[](reach = "active") => <>[](dcorch.mgmt = row.mgmt /\ dcorch.avail = row.avail)
=================================================================================
