-------------------------- MODULE SubcloudStateProofs ---------------------------
(***************************************************************************)
(* For any audits, endpoints, requests and bounds: the variables keep      *)
(* their types, and an unmanaged subcloud shows no endpoint in-sync.  With *)
(* one audit at a time and the code's limit of two failures, a subcloud is *)
(* taken offline only after that many failures in a row.                   *)
(***************************************************************************)
EXTENDS SubcloudState, TLAPS

\* An endpoint other than dc-cert shows in-sync, or is about to.
ShowsInSync ==
  \/ \E e \in Endpoints \ {"dc-cert"} : status[e] = "in-sync"
  \/ lock.sync = "in-sync" /\ lock.ep # "dc-cert"

\* A request that has written "unmanaged" has still to reset the statuses.
ResetIsDue(q) == request[q].pc \in {"notify", "finish"} /\ request[q].to = "unmanaged"

\* An unmanaged subcloud whose endpoints are not reset has a request that will
\* reset them.
ResetFollows ==
  row.mgmt = "unmanaged" /\ ~resetLost /\ ShowsInSync =>
    \E q \in Requests : ResetIsDue(q)

IInv == TypeOK /\ ResetFollows

\* What an audit with the count at 0, or of a subcloud it takes for offline, has
\* read: nothing that tells of a failure to come.
StartsAfresh(a) == aud[a].avail = "offline" \/ aud[a].count = 0

\* A fail count of an online subcloud stands for a failure that no success has
\* followed, in the row and in what the audit has read of it.
CountsFailures ==
  /\ row.avail = "online" /\ row.count # 0 => misses # 0
  /\ \A a \in Auditors :
       /\ handler[a].pc = "write" /\ handler[a].avail = "online" => handler[a].count = 0
       /\ handler[a].pc = "reset" => handler[a].avail = "offline"
       /\ aud[a].pc = "report" /\ aud[a].avail = "online" => aud[a].count = 0
       /\ aud[a].pc = "probe" /\ ~StartsAfresh(a) => misses # 0
       /\ aud[a].pc = "probe" /\ StartsAfresh(a) /\ row.avail = "online"
            => row.count = 0

\* No two audits at a time; the limit of the code (AVAIL_FAIL_COUNT_TO_ALARM is 2).
OneAuditor == \A a, b \in Auditors : a = b
LimitOfTwo == FailsToAlarm <= 2

(***************************************************************************)
(* The records the actions write have the types of their variables         *)
(***************************************************************************)

LEMMA ConstantsTyped ==
  /\ MaxFails \in Nat /\ FailsToAlarm \in Nat \ {0} /\ FailsToAlarm <= MaxFails
  /\ MaxEvents \in Nat /\ Managed \in BOOLEAN
BY ConstantsAssumption

LEMMA ZeroTyped == 0 \in 0 .. MaxFails
BY ConstantsTyped

LEMMA AuditTyped ==
  ASSUME TypeOK, NEW a \in Auditors, NEW r \in Audits, Audit(a, r)
  PROVE  aud' \in [Auditors -> Audits]
BY DEF TypeOK, Audit

LEMMA HandlingTyped ==
  ASSUME TypeOK, NEW a \in Auditors, NEW r \in Calls, Handling(a, r)
  PROVE  handler' \in [Auditors -> Calls]
BY DEF TypeOK, Handling

LEMMA RequestTyped ==
  ASSUME TypeOK, NEW q \in Requests, NEW r \in UpdateRequests, Request(q, r)
  PROVE  request' \in [Requests -> UpdateRequests]
BY DEF TypeOK, Request

\* The records that begin or end an audit, a call and a request.
LEMMA NoneTyped == NoAudit \in Audits /\ NoCall \in Calls /\ NoRequest \in UpdateRequests
<1>1. NoData \in [Audited -> Nat \cup {-1}]
  BY DEF NoData
<1>2. NoAudit \in Audits
  BY <1>1, ConstantsTyped DEF NoAudit, Audits, Managements, Availabilities
<1>3. NoCall \in Calls
  BY ConstantsTyped DEF NoCall, Calls, Managements, Availabilities
<1>4. NoRequest \in UpdateRequests
  BY DEF NoRequest, UpdateRequests, Managements, Availabilities
<1> QED BY <1>2, <1>3, <1>4

\* The fields that the actions read.
LEMMA AuditFields ==
  ASSUME TypeOK, NEW a \in Auditors
  PROVE  /\ aud[a] \in Audits
         /\ aud[a].then \in {"idle", "endpoints", "end"}
         /\ aud[a].data \in [Audited -> Nat \cup {-1}]
         /\ aud[a].mgmt \in Managements /\ aud[a].avail \in Availabilities
         /\ aud[a].count \in 0 .. MaxFails
         /\ aud[a].asked \in SUBSET Types /\ aud[a].done \in SUBSET Audited
BY DEF TypeOK, Audits

LEMMA CallFields ==
  ASSUME TypeOK, NEW a \in Auditors
  PROVE  /\ handler[a] \in Calls
         /\ handler[a].mgmt \in Managements /\ handler[a].avail \in Availabilities
         /\ handler[a].count \in 0 .. MaxFails
BY DEF TypeOK, Calls

LEMMA RequestFields ==
  ASSUME TypeOK, NEW q \in Requests
  PROVE  /\ request[q] \in UpdateRequests
         /\ request[q].to \in Managements /\ request[q].from \in Managements
         /\ request[q].avail \in Availabilities
BY DEF TypeOK, UpdateRequests

LEMMA RowFields ==
  ASSUME TypeOK
  PROVE  /\ row.mgmt \in Managements /\ row.avail \in Availabilities
         /\ row.count \in 0 .. MaxFails
BY DEF TypeOK, Rows

\* The fail count stays within its maximum, and the availability is one.
LEMMA CountTyped ==
  ASSUME NEW count \in 0 .. MaxFails, NEW up \in BOOLEAN
  PROVE  CountAfter(count, up) \in 0 .. MaxFails
BY ConstantsTyped DEF CountAfter

LEMMA AvailTyped ==
  ASSUME NEW avail, NEW count, NEW up
  PROVE  AvailAfter(avail, count, up) \in Availabilities
BY DEF AvailAfter, Availabilities

\* What an audit goes on with after its probe.
LEMMA OnwardTyped ==
  ASSUME NEW s \in Audits, NEW avail
  PROVE  /\ Onward(s, avail) \in Audits
         /\ Onward(s, avail).pc \in {"endpoints", "end"}
<1>1. [NoAudit EXCEPT !.pc = "endpoints", !.data = s.data, !.asked = s.asked] \in Audits
  BY NoneTyped DEF Audits
<1>2. [NoAudit EXCEPT !.pc = "end"] \in Audits
  BY NoneTyped DEF Audits
<1> QED BY <1>1, <1>2, NoneTyped DEF Onward, Audits

LEMMA ReportingTyped ==
  ASSUME NEW s \in Audits, NEW avail \in Availabilities, NEW count \in 0 .. MaxFails,
         NEW pc \in {"report", "state only"}
  PROVE  Reporting(s, avail, count, pc) \in Audits
<1> DEFINE o == Onward(s, avail)
<1>1. o \in Audits /\ o.pc \in {"endpoints", "end"}
  BY OnwardTyped
<1> HIDE DEF o
<1>2. [o EXCEPT !.pc = pc, !.then = o.pc, !.avail = avail, !.count = count] \in Audits
  BY <1>1 DEF Audits
<1> QED BY <1>2 DEF Reporting, o

(***************************************************************************)
(* Every action keeps the types                                            *)
(***************************************************************************)

LEMMA InitTyped == Init => TypeOK
<1> SUFFICES ASSUME Init PROVE TypeOK
  OBVIOUS
<1>1. row \in Rows /\ dcorch \in [mgmt : Managements, avail : Availabilities]
  BY ConstantsTyped DEF Init, Rows, Managements, Availabilities
<1>2. status \in [Endpoints -> Statuses] /\ inbox \in [Endpoints -> [Statuses -> Nat]]
  BY DEF Init, Statuses
<1>3. aud \in [Auditors -> Audits] /\ handler \in [Auditors -> Calls]
      /\ request \in [Requests -> UpdateRequests]
  BY NoneTyped DEF Init
<1>4. lock \in [ep : Endpoints, sync : Statuses] \cup {Unlocked}
  BY DEF Init
<1>5. misses \in 0 .. FailsToAlarm /\ events \in Nat
  BY ConstantsTyped DEF Init
<1>6. central \in [Audited -> Nat] /\ remote \in [Audited -> Nat]
  BY DEF Init
<1> QED BY <1>1, <1>2, <1>3, <1>4, <1>5, <1>6 DEF Init, TypeOK

LEMMA AuditPassTyped ==
  ASSUME TypeOK, NEW a \in Auditors, NEW count \in 1 .. 4, NEW elapsed \in BOOLEAN,
         NEW update \in BOOLEAN, AuditPass(a, count, elapsed, update)
  PROVE  TypeOK'
<1>1. AuditsNeeded(count, elapsed) \subseteq Audited
  BY DEF AuditsNeeded, TypeOK
<1>2. flags' \subseteq Types
  BY <1>1 DEF AuditPass, TypeOK, Types
<1>3. DataFor(flags') \in [Audited -> Nat \cup {-1}]
  BY DEF DataFor, TypeOK
<1>4. [NoAudit EXCEPT !.pc = "cast", !.data = DataFor(flags')] \in Audits
  BY <1>3, NoneTyped DEF Audits
<1>5. aud' \in [Auditors -> Audits]
  BY <1>4, AuditTyped DEF AuditPass
<1> QED BY <1>2, <1>5 DEF AuditPass, TypeOK, envVars, history

LEMMA ManagerTyped == TypeOK /\ Manager => TypeOK'
<1> SUFFICES ASSUME TypeOK, Manager PROVE TypeOK'
  OBVIOUS
<1>1. ASSUME NEW a \in Auditors, NEW count \in 1 .. 4, NEW elapsed \in BOOLEAN,
             NEW update \in BOOLEAN, AuditPass(a, count, elapsed, update)
      PROVE  TypeOK'
  BY <1>1, AuditPassTyped
<1>2. CASE ExpireAudit
  <2>1. events' \in Nat
    BY <1>2 DEF ExpireAudit, Event, TypeOK
  <2> QED BY <1>2, <2>1 DEF ExpireAudit, TypeOK, envVars, history
<1>3. CASE RestartManager
  <2>1. events' \in Nat /\ flags' \subseteq Types
    BY <1>3 DEF RestartManager, Event, TypeOK, Types
  <2> QED BY <1>3, <2>1 DEF RestartManager, TypeOK, envVars, history
<1>4. ASSUME NEW m \in triggers, RequestAudits(m) PROVE TypeOK'
  <2>1. flags' \subseteq Types /\ triggers' \subseteq {"online", "managed", "identity"} \cup Audited
    BY <1>4 DEF RequestAudits, TypeOK, Types
  <2> QED BY <1>4, <2>1 DEF RequestAudits, TypeOK, envVars, history
<1>5. ASSUME NEW m \in triggers, ForceAudit(m) PROVE TypeOK'
  <2>1. force' \subseteq Audited /\ triggers' \subseteq {"online", "managed", "identity"} \cup Audited
    BY <1>5 DEF ForceAudit, TypeOK
  <2> QED BY <1>5, <2>1 DEF ForceAudit, TypeOK, dbVars, envVars, history
<1> QED BY <1>1, <1>2, <1>3, <1>4, <1>5 DEF Manager

\* What a probe leaves of the audit, and of the row.
LEMMA ProbeLeaves ==
  ASSUME TypeOK, NEW a \in Auditors, Probe(a)
  PROVE  LET s == aud[a]
             count == CountAfter(s.count, Up)
             avail == AvailAfter(s.avail, count, Up)
         IN \/ Audit(a, [NoAudit EXCEPT !.pc = "end"]) /\ row' = row
                 /\ ~Up /\ s.avail = "offline"
            \/ avail # s.avail /\ Audit(a, Reporting(s, avail, count, "report"))
                 /\ row' = row
            \/ avail = s.avail /\ count # s.count /\ Audit(a, Onward(s, avail))
                 /\ WriteCount(count)
            \/ avail = s.avail /\ count = s.count /\ row' = row
                 /\ Audit(a, Reporting(s, avail, 0, "state only"))
            \/ avail = s.avail /\ count = s.count /\ row' = row
                 /\ Audit(a, Onward(s, avail))
BY DEF Probe, Up

LEMMA ProbeTyped ==
  ASSUME TypeOK, NEW a \in Auditors, Probe(a)
  PROVE  TypeOK'
<1> DEFINE s == aud[a]
           count == CountAfter(s.count, Up)
           avail == AvailAfter(s.avail, count, Up)
<1>1. s \in Audits /\ count \in 0 .. MaxFails /\ avail \in Availabilities
      /\ 0 \in 0 .. MaxFails
  <2>1. s \in Audits /\ s.count \in 0 .. MaxFails
    BY AuditFields
  <2>2. Up \in BOOLEAN /\ 0 \in 0 .. MaxFails
    BY ConstantsTyped DEF Up
  <2>3. count \in 0 .. MaxFails
    BY <2>1, <2>2, CountTyped
  <2> QED BY <2>1, <2>2, <2>3, AvailTyped
<1>2. /\ [NoAudit EXCEPT !.pc = "end"] \in Audits
      /\ Reporting(s, avail, count, "report") \in Audits
      /\ Reporting(s, avail, 0, "state only") \in Audits
      /\ Onward(s, avail) \in Audits
  <2>1. [NoAudit EXCEPT !.pc = "end"] \in Audits
    BY NoneTyped DEF Audits
  <2> HIDE DEF s, count, avail
  <2> QED BY <1>1, <2>1, ReportingTyped, OnwardTyped
<1>3. WriteCount(count) => row' \in Rows
  BY <1>1 DEF WriteCount, TypeOK, Rows
<1>4. aud' \in [Auditors -> Audits] /\ row' \in Rows
  <2>1. row \in Rows
    BY DEF TypeOK
  <2>2. \/ Audit(a, [NoAudit EXCEPT !.pc = "end"]) /\ row' = row
        \/ Audit(a, Reporting(s, avail, count, "report")) /\ row' = row
        \/ Audit(a, Onward(s, avail)) /\ WriteCount(count)
        \/ row' = row /\ Audit(a, Reporting(s, avail, 0, "state only"))
        \/ row' = row /\ Audit(a, Onward(s, avail))
    BY ProbeLeaves
  <2> HIDE DEF s, count, avail
  <2> QED BY <1>2, <1>3, <2>1, <2>2, AuditTyped
<1>5. misses' \in 0 .. FailsToAlarm
  <2>1. misses' = IF Up THEN 0 ELSE IF misses < FailsToAlarm THEN misses + 1 ELSE misses
    BY DEF Probe
  <2>2. misses \in 0 .. FailsToAlarm
    BY DEF TypeOK
  <2> QED BY <2>1, <2>2, ConstantsTyped
<1> QED BY <1>4, <1>5 DEF Probe, TypeOK, envVars

\* The audit goes on after its call.
LEMMA ResumedTyped ==
  ASSUME TypeOK, NEW a \in Auditors
  PROVE  Resumed(aud[a]) \in Audits
BY AuditFields DEF Resumed, Audits

LEMMA AuditEndpointsTyped ==
  ASSUME TypeOK, NEW a \in Auditors, NEW failed \in SUBSET Audited,
         AuditEndpoints(a, failed)
  PROVE  TypeOK'
<1>1. ToCompare(aud[a]) \subseteq Audited
  BY AuditFields, ConstantsAssumption DEF ToCompare, AuditsFor, Types
<1>2. [NoAudit EXCEPT !.pc = "end", !.done = ToCompare(aud[a]) \ failed] \in Audits
  BY <1>1, NoneTyped DEF Audits
<1>3. aud' \in [Auditors -> Audits]
  BY <1>2, AuditTyped DEF AuditEndpoints
<1>4. inbox' \in [Endpoints -> [Statuses -> Nat]]
  BY DEF AuditEndpoints, TypeOK
<1> QED BY <1>3, <1>4 DEF AuditEndpoints, TypeOK, dbVars, envVars, history

LEMMA WorkerTyped ==
  ASSUME TypeOK, NEW a \in Auditors, Worker(a)
  PROVE  TypeOK'
<1>1. CASE StartAudit(a)
  <2>1. aud' \in [Auditors -> Audits]
    <3>1. [aud[a] EXCEPT !.pc = "probe", !.mgmt = row.mgmt,
                         !.avail = row.avail, !.count = row.count, !.asked = flags]
            \in Audits
      BY AuditFields, RowFields DEF Audits, TypeOK
    <3> QED BY <1>1, <3>1, AuditTyped DEF StartAudit
  <2> QED BY <1>1, <2>1 DEF StartAudit, TypeOK, envVars, history
<1>2. CASE Probe(a)
  BY <1>2, ProbeTyped
<1>3. CASE Call(a)
  <2>1. \A pc \in {"read", "reset", "write"} :
          [NoCall EXCEPT !.avail = aud[a].avail, !.count = aud[a].count, !.pc = pc]
            \in Calls
    BY AuditFields, NoneTyped DEF Calls
  <2>2. handler' \in [Auditors -> Calls]
    <3>1. \E pc \in {"read", "reset", "write"} :
            Handling(a, [NoCall EXCEPT !.avail = aud[a].avail, !.count = aud[a].count,
                                       !.pc = pc])
      BY <1>3 DEF Call
    <3> QED BY <2>1, <3>1, HandlingTyped
  <2>3. aud' \in [Auditors -> Audits]
    <3>1. [aud[a] EXCEPT !.pc = "wait", !.avail = "offline", !.count = 0] \in Audits
      BY AuditFields, ZeroTyped DEF Audits, Availabilities
    <3> QED BY <1>3, <3>1, AuditTyped DEF Call
  <2> QED BY <1>3, <2>2, <2>3 DEF Call, TypeOK, dbVars, envVars, history
<1>4. CASE EndAudit(a)
  <2>1. aud' \in [Auditors -> Audits] /\ flags' \subseteq Types
    BY <1>4, NoneTyped, AuditTyped DEF EndAudit, TypeOK
  <2> QED BY <1>4, <2>1 DEF EndAudit, TypeOK, envVars, history
<1>5. CASE AuditDies(a)
  <2>1. aud' \in [Auditors -> Audits] /\ events' \in Nat
    BY <1>5, NoneTyped, AuditTyped DEF AuditDies, Event, TypeOK
  <2> QED BY <1>5, <2>1 DEF AuditDies, TypeOK, dbVars, envVars, history
<1>6. ASSUME NEW dies \in BOOLEAN, CallFails(a, dies) PROVE TypeOK'
  <2>1. aud' \in [Auditors -> Audits] /\ events' \in Nat
    BY <1>6, ResumedTyped, AuditTyped DEF CallFails, Event, TypeOK
  <2>2. handler' \in [Auditors -> Calls]
    BY <1>6, NoneTyped, HandlingTyped DEF CallFails, TypeOK
  <2> QED BY <1>6, <2>1, <2>2 DEF CallFails, TypeOK, dbVars, envVars, history
<1>7. ASSUME NEW failed \in SUBSET Audited, AuditEndpoints(a, failed) PROVE TypeOK'
  BY <1>7, AuditEndpointsTyped
<1> QED BY <1>1, <1>2, <1>3, <1>4, <1>5, <1>6, <1>7 DEF Worker

LEMMA UnknownTyped ==
  ASSUME TypeOK, NEW except, AllUnknown(except)
  PROVE  status' \in [Endpoints -> Statuses]
BY DEF TypeOK, AllUnknown, Statuses

LEMMA HandlerTyped ==
  ASSUME TypeOK, NEW a \in Auditors, Handler(a)
  PROVE  TypeOK'
<1>1. CASE ReadState(a)
  <2>1. handler' \in [Auditors -> Calls]
    <3>1. [handler[a] EXCEPT !.pc = "notify", !.mgmt = row.mgmt] \in Calls
      BY CallFields, RowFields DEF Calls
    <3> QED BY <1>1, <3>1, HandlingTyped DEF ReadState
  <2> QED BY <1>1, <2>1 DEF ReadState, TypeOK, dbVars, envVars, history
<1>2. CASE ResetAll(a)
  <2>1. handler' \in [Auditors -> Calls]
    <3>1. [handler[a] EXCEPT !.pc = "write"] \in Calls
      BY CallFields DEF Calls
    <3> QED BY <1>2, <3>1, HandlingTyped DEF ResetAll
  <2>2. status' \in [Endpoints -> Statuses]
    BY <1>2, UnknownTyped DEF ResetAll
  <2> QED BY <1>2, <2>1, <2>2 DEF ResetAll, TypeOK, envVars, history
<1>3. CASE WriteAvailability(a)
  <2>1. handler' \in [Auditors -> Calls]
    <3>1. [handler[a] EXCEPT !.pc = "notify", !.mgmt = row.mgmt, !.count = 0] \in Calls
      BY CallFields, RowFields, ZeroTyped DEF Calls
    <3> QED BY <1>3, <3>1, HandlingTyped DEF WriteAvailability
  <2>2. row' \in Rows
    BY <1>3, CallFields DEF WriteAvailability, TypeOK, Rows
  <2>3. triggers' \subseteq {"online", "managed", "identity"} \cup Audited
    BY <1>3 DEF WriteAvailability, TypeOK
  <2> QED BY <1>3, <2>1, <2>2, <2>3 DEF WriteAvailability, TypeOK, envVars, history
<1>4. ASSUME NEW told \in BOOLEAN, NotifyDcorch(a, told) PROVE TypeOK'
  <2>1. handler' \in [Auditors -> Calls]
    BY <1>4, NoneTyped, HandlingTyped DEF NotifyDcorch
  <2>2. aud' \in [Auditors -> Audits]
    BY <1>4, ResumedTyped, AuditTyped DEF NotifyDcorch, TypeOK
  <2>3. dcorch' \in [mgmt : Managements, avail : Availabilities] /\ events' \in Nat
    BY <1>4, CallFields DEF NotifyDcorch, Event, TypeOK
  <2> QED BY <1>4, <2>1, <2>2, <2>3 DEF NotifyDcorch, TypeOK, dbVars, envVars, history
<1> QED BY <1>1, <1>2, <1>3, <1>4 DEF Handler

LEMMA StatusUpdateTyped == TypeOK /\ StatusUpdate => TypeOK'
<1> SUFFICES ASSUME TypeOK, StatusUpdate PROVE TypeOK'
  OBVIOUS
<1>1. ASSUME NEW e \in Endpoints, NEW s \in Statuses, AcceptStatus(e, s)
      PROVE  TypeOK'
  <2>1. inbox' \in [Endpoints -> [Statuses -> Nat]]
    <3>1. inbox[e] \in [Statuses -> Nat] /\ inbox[e][s] \in Nat
      BY DEF TypeOK
    <3>2. inbox[e][s] - 1 \in Nat
      BY <1>1, <3>1 DEF AcceptStatus
    <3>3. [inbox[e] EXCEPT ![s] = inbox[e][s] - 1] \in [Statuses -> Nat]
      BY <3>1, <3>2
    <3> QED BY <1>1, <3>3 DEF AcceptStatus, TypeOK
  <2>2. lock' \in [ep : Endpoints, sync : Statuses] \cup {Unlocked}
    BY <1>1 DEF AcceptStatus, TypeOK
  <2>3. triggers' \subseteq {"online", "managed", "identity"} \cup Audited
    BY <1>1 DEF AcceptStatus, ForcedBy, TypeOK
  <2> QED BY <1>1, <2>1, <2>2, <2>3 DEF AcceptStatus, TypeOK, dbVars, envVars, history
<1>2. CASE WriteStatus
  <2>1. lock.ep \in Endpoints /\ lock.sync \in Statuses
    BY <1>2 DEF WriteStatus, TypeOK
  <2>2. status' \in [Endpoints -> Statuses] /\ lock' = Unlocked
    BY <1>2, <2>1 DEF WriteStatus, TypeOK
  <2>3. triggers' \subseteq {"online", "managed", "identity"} \cup Audited
    BY <1>2 DEF WriteStatus, TypeOK
  <2> QED BY <1>2, <2>2, <2>3 DEF WriteStatus, TypeOK, envVars, history
<1> QED BY <1>1, <1>2 DEF StatusUpdate

LEMMA UpdateTyped ==
  ASSUME TypeOK, NEW q \in Requests, Update(q)
  PROVE  TypeOK'
<1>1. CASE WriteManagement(q)
  <2>1. [request[q] EXCEPT !.pc = "notify", !.avail = row.avail] \in UpdateRequests
    BY RequestFields, RowFields DEF UpdateRequests
  <2>2. request' \in [Requests -> UpdateRequests]
    BY <1>1, <2>1, RequestTyped DEF WriteManagement
  <2>3. row' \in Rows
    BY <1>1, RequestFields DEF WriteManagement, TypeOK, Rows
  <2> QED BY <1>1, <2>2, <2>3 DEF WriteManagement, TypeOK, envVars, history
<1>2. ASSUME NEW told \in BOOLEAN, NotifyUpdate(q, told) PROVE TypeOK'
  <2> DEFINE r == request[q]
  <2>1. [r EXCEPT !.pc = "finish"] \in UpdateRequests
        /\ [r EXCEPT !.pc = "finish", !.to = r.from] \in UpdateRequests
    BY RequestFields DEF UpdateRequests
  <2>2. request' \in [Requests -> UpdateRequests]
    BY <1>2, <2>1, RequestTyped DEF NotifyUpdate
  <2>3. row' \in Rows
    BY <1>2, RequestFields DEF NotifyUpdate, TypeOK, Rows
  <2>4. dcorch' \in [mgmt : Managements, avail : Availabilities] /\ events' \in Nat
    BY <1>2, RequestFields DEF NotifyUpdate, Event, TypeOK
  <2> QED BY <1>2, <2>2, <2>3, <2>4 DEF NotifyUpdate, TypeOK, envVars, history
<1>3. ASSUME NEW lost \in BOOLEAN, FinishUpdate(q, lost) PROVE TypeOK'
  <2>1. request' \in [Requests -> UpdateRequests]
    BY <1>3, NoneTyped, RequestTyped DEF FinishUpdate
  <2>2. status' \in [Endpoints -> Statuses]
    BY <1>3, UnknownTyped DEF FinishUpdate, TypeOK
  <2>3. /\ triggers' \subseteq {"online", "managed", "identity"} \cup Audited
        /\ resetLost' \in BOOLEAN /\ events' \in Nat
    <3>1. /\ triggers' = triggers \/ triggers' = triggers \cup {"managed"}
          /\ resetLost' = resetLost \/ resetLost' = TRUE
          /\ events' = events \/ events' = events + 1
      BY <1>3 DEF FinishUpdate, Event
    <3>2. triggers' \subseteq {"online", "managed", "identity"} \cup Audited
      BY <3>1 DEF TypeOK
    <3>3. resetLost' \in BOOLEAN
      BY <3>1, Zenon DEF TypeOK
    <3>4. events' \in Nat
      BY <3>1 DEF TypeOK
    <3> QED BY <3>2, <3>3, <3>4
  <2> QED BY <1>3, <2>1, <2>2, <2>3 DEF FinishUpdate, TypeOK, envVars
<1> QED BY <1>1, <1>2, <1>3 DEF Update

LEMMA ReportTyped ==
  ASSUME TypeOK, NEW e \in Endpoints, NEW s \in Statuses,
         inbox' = [inbox EXCEPT ![e][s] = @ + 1]
  PROVE  inbox' \in [Endpoints -> [Statuses -> Nat]]
<1>1. inbox[e] \in [Statuses -> Nat] /\ inbox[e][s] + 1 \in Nat
  BY DEF TypeOK
<1>2. [inbox[e] EXCEPT ![s] = inbox[e][s] + 1] \in [Statuses -> Nat]
  BY <1>1
<1> QED BY <1>2 DEF TypeOK

LEMMA OutsideTyped == TypeOK /\ Outside => TypeOK'
<1> SUFFICES ASSUME TypeOK, Outside PROVE TypeOK'
  OBVIOUS
<1>1. ASSUME NEW t \in Audited, CentralChanges(t) PROVE TypeOK'
  <2>1. central' \in [Audited -> Nat] /\ events' \in Nat
    BY <1>1 DEF CentralChanges, Event, TypeOK
  <2>2. inbox' \in [Endpoints -> [Statuses -> Nat]]
    <3>1. inbox' = inbox \/ inbox' = [inbox EXCEPT ![t]["unknown"] = @ + 1]
      BY <1>1 DEF CentralChanges
    <3>2. t \in Endpoints /\ "unknown" \in Statuses /\ inbox \in [Endpoints -> [Statuses -> Nat]]
      BY DEF Endpoints, Statuses, TypeOK
    <3> QED BY <3>1, <3>2, ReportTyped
  <2> QED BY <1>1, <2>1, <2>2 DEF CentralChanges, TypeOK, dbVars, history
<1>2. ASSUME NEW t \in Audited, RemoteChanges(t) PROVE TypeOK'
  <2>1. remote' \in [Audited -> Nat] /\ events' \in Nat
    BY <1>2 DEF RemoteChanges, Event, TypeOK
  <2> QED BY <1>2, <2>1 DEF RemoteChanges, TypeOK, dbVars, history
<1>3. ASSUME NEW r \in {"active", "inactive", "unreachable"}, ReachChanges(r)
      PROVE  TypeOK'
  <2>1. reach' \in {"active", "inactive", "unreachable"} /\ events' \in Nat
    BY <1>3 DEF ReachChanges, Event, TypeOK
  <2> QED BY <1>3, <2>1 DEF ReachChanges, TypeOK, dbVars, history
<1>4. ASSUME NEW e \in Reported, NEW s \in Statuses \ {"unknown"}, OtherReport(e, s)
      PROVE  TypeOK'
  <2>1. inbox' \in [Endpoints -> [Statuses -> Nat]]
    BY <1>4, ReportTyped DEF OtherReport, Endpoints
  <2>2. events' \in Nat
    BY <1>4 DEF OtherReport, Event, TypeOK
  <2> QED BY <1>4, <2>1, <2>2 DEF OtherReport, TypeOK, dbVars, history
<1>5. ASSUME NEW q \in Requests, NEW to \in {"managed", "unmanaged"},
             NEW forced \in BOOLEAN, UpdateSubcloud(q, to, forced)
      PROVE  TypeOK'
  <2>1. [NoRequest EXCEPT !.pc = "write", !.to = to, !.from = row.mgmt] \in UpdateRequests
    BY NoneTyped, RowFields DEF UpdateRequests, Managements
  <2>2. request' \in [Requests -> UpdateRequests] /\ events' \in Nat
    BY <1>5, <2>1, RequestTyped DEF UpdateSubcloud, Event, TypeOK
  <2> QED BY <1>5, <2>2 DEF UpdateSubcloud, TypeOK, dbVars, envVars, history
<1> QED BY <1>1, <1>2, <1>3, <1>4, <1>5 DEF Outside

LEMMA TypesKept == TypeOK /\ [Next]_vars => TypeOK'
<1> SUFFICES ASSUME TypeOK, [Next]_vars PROVE TypeOK'
  OBVIOUS
<1>1. CASE UNCHANGED vars
  BY <1>1 DEF TypeOK, vars, dbVars, envVars, history
<1> QED BY <1>1, OutsideTyped, ManagerTyped, StatusUpdateTyped, WorkerTyped,
           HandlerTyped, UpdateTyped DEF Next

\* The variables keep their types: counts stay within their maximum, every
\* audit, call and request is in one of its states, and a status update holds the
\* lock of an endpoint the subcloud has (audits, state manager, update_subcloud).
THEOREM TypesCorrect == Spec => []TypeOK
BY InitTyped, TypesKept, PTL DEF Spec

(***************************************************************************)
(* An unmanaged subcloud                                                   *)
(***************************************************************************)

\* What the reset of an unmanaged subcloud depends on is left alone.
Undisturbed ==
  /\ row'.mgmt = row.mgmt
  /\ UNCHANGED <<status, lock, request, resetLost>>

LEMMA ResetStays ==
  ASSUME ResetFollows, Undisturbed
  PROVE  ResetFollows'
BY DEF ResetFollows, Undisturbed, ShowsInSync, ResetIsDue

\* Most actions do so.
LEMMA ManagerLeaves == Manager => Undisturbed
<1> SUFFICES ASSUME Manager PROVE Undisturbed
  OBVIOUS
<1>1. ASSUME NEW a \in Auditors, NEW count \in 1 .. 4, NEW elapsed \in BOOLEAN,
             NEW update \in BOOLEAN, AuditPass(a, count, elapsed, update)
      PROVE  Undisturbed
  BY <1>1 DEF AuditPass, Undisturbed, history
<1>2. CASE ExpireAudit
  BY <1>2 DEF ExpireAudit, Undisturbed, history
<1>3. CASE RestartManager
  BY <1>3 DEF RestartManager, Undisturbed, history
<1>4. ASSUME NEW m \in triggers, RequestAudits(m) PROVE Undisturbed
  BY <1>4 DEF RequestAudits, Undisturbed, history
<1>5. ASSUME NEW m \in triggers, ForceAudit(m) PROVE Undisturbed
  BY <1>5 DEF ForceAudit, Undisturbed, dbVars, history
<1> QED BY <1>1, <1>2, <1>3, <1>4, <1>5 DEF Manager

LEMMA WorkerLeaves ==
  ASSUME TypeOK, NEW a \in Auditors, Worker(a)
  PROVE  Undisturbed
<1>1. CASE StartAudit(a)
  BY <1>1 DEF StartAudit, Undisturbed, history
<1>2. CASE Probe(a)
  <2>1. row' = row \/ \E count \in Nat : WriteCount(count)
    <3>1. CountAfter(aud[a].count, Up) \in Nat
      <4>1. aud[a].count \in 0 .. MaxFails /\ Up \in BOOLEAN
        BY AuditFields DEF Up
      <4>2. CountAfter(aud[a].count, Up) \in 0 .. MaxFails
        BY <4>1, CountTyped
      <4> QED BY <4>2, ConstantsTyped
    <3> QED BY <1>2, <3>1, ProbeLeaves
  <2>2. row'.mgmt = row.mgmt
    BY <2>1 DEF WriteCount, TypeOK, Rows
  <2> QED BY <1>2, <2>2 DEF Probe, Undisturbed
<1>3. CASE Call(a)
  BY <1>3 DEF Call, Undisturbed, dbVars, history
<1>4. CASE EndAudit(a)
  BY <1>4 DEF EndAudit, Undisturbed, history
<1>5. CASE AuditDies(a)
  BY <1>5 DEF AuditDies, Undisturbed, dbVars, history
<1>6. ASSUME NEW dies \in BOOLEAN, CallFails(a, dies) PROVE Undisturbed
  BY <1>6 DEF CallFails, Undisturbed, dbVars, history
<1>7. ASSUME NEW failed \in SUBSET Audited, AuditEndpoints(a, failed) PROVE Undisturbed
  BY <1>7 DEF AuditEndpoints, Undisturbed, dbVars, history
<1> QED BY <1>1, <1>2, <1>3, <1>4, <1>5, <1>6, <1>7 DEF Worker

LEMMA HandlerKeepsReset ==
  ASSUME TypeOK, ResetFollows, NEW a \in Auditors, Handler(a)
  PROVE  ResetFollows'
<1>1. CASE ReadState(a)
  BY <1>1, ResetStays DEF ReadState, Undisturbed, dbVars, history
<1>2. CASE ResetAll(a)
  <2>1. ~ShowsInSync'
    BY <1>2 DEF ResetAll, AllUnknown, ShowsInSync, Unlocked
  <2> QED BY <2>1 DEF ResetFollows
<1>3. CASE WriteAvailability(a)
  <2>1. row'.mgmt = row.mgmt
    BY <1>3 DEF WriteAvailability, TypeOK, Rows
  <2> QED BY <1>3, <2>1, ResetStays DEF WriteAvailability, Undisturbed, history
<1>4. ASSUME NEW told \in BOOLEAN, NotifyDcorch(a, told) PROVE ResetFollows'
  BY <1>4, ResetStays DEF NotifyDcorch, Undisturbed, dbVars, history
<1> QED BY <1>1, <1>2, <1>3, <1>4 DEF Handler

\* A report is accepted of a managed subcloud only, or it is not of in-sync; and
\* writing it shows what the lock held.
LEMMA StatusUpdateKeepsReset ==
  TypeOK /\ ResetFollows /\ StatusUpdate => ResetFollows'
<1> SUFFICES ASSUME TypeOK, ResetFollows, StatusUpdate PROVE ResetFollows'
  OBVIOUS
<1>1. ASSUME NEW e \in Endpoints, NEW s \in Statuses, AcceptStatus(e, s)
      PROVE  ResetFollows'
  <2>1. UNCHANGED <<row, status, request, resetLost>>
    BY <1>1 DEF AcceptStatus, dbVars, history
  <2>2. CASE lock' = lock
    BY <2>1, <2>2, ResetStays DEF Undisturbed
  <2>3. CASE lock' = [ep |-> e, sync |-> s] /\ Acceptable(e, s)
    <3>1. CASE row.mgmt = "managed"
      BY <2>1, <3>1 DEF ResetFollows
    <3>2. CASE row.mgmt # "managed"
      <4>1. ~(lock'.sync = "in-sync" /\ lock'.ep # "dc-cert")
        BY <2>3, <3>2 DEF Acceptable
      <4> QED BY <2>1, <4>1 DEF ResetFollows, ShowsInSync, ResetIsDue
    <3> QED BY <3>1, <3>2
  <2> QED BY <1>1, <2>2, <2>3 DEF AcceptStatus
<1>2. CASE WriteStatus
  <2>1. UNCHANGED <<row, request, resetLost>> /\ lock' = Unlocked
    BY <1>2 DEF WriteStatus, history
  <2>2. ShowsInSync' => ShowsInSync
    <3>1. status' = [status EXCEPT ![lock.ep] = lock.sync]
      BY <1>2 DEF WriteStatus
    <3> QED BY <2>1, <3>1 DEF ShowsInSync, Unlocked, TypeOK
  <2> QED BY <2>1, <2>2 DEF ResetFollows, ResetIsDue
<1> QED BY <1>1, <1>2 DEF StatusUpdate

LEMMA UpdateKeepsReset ==
  ASSUME TypeOK, ResetFollows, NEW q \in Requests, Update(q)
  PROVE  ResetFollows'
<1> USE RequestFields
<1>1. CASE WriteManagement(q)
  <2>1. /\ UNCHANGED <<status, lock, resetLost>>
        /\ row'.mgmt = request[q].to
        /\ request'[q].pc = "notify" /\ request'[q].to = request[q].to
    BY <1>1 DEF WriteManagement, Request, TypeOK, Rows, UpdateRequests, history
  <2> QED BY <2>1 DEF ResetFollows, ResetIsDue
<1>2. ASSUME NEW told \in BOOLEAN, NotifyUpdate(q, told) PROVE ResetFollows'
  <2>1. UNCHANGED <<status, lock, resetLost>>
    BY <1>2 DEF NotifyUpdate, history
  <2>2. CASE Request(q, [request[q] EXCEPT !.pc = "finish"]) /\ row' = row
    <3>1. \A p \in Requests : ResetIsDue(p) => ResetIsDue(p)'
      BY <2>2 DEF ResetIsDue, Request, TypeOK, UpdateRequests
    <3> QED BY <2>1, <2>2, <3>1 DEF ResetFollows, ShowsInSync
  <2>3. CASE /\ Request(q, [request[q] EXCEPT !.pc = "finish", !.to = request[q].from])
             /\ row' = [row EXCEPT !.mgmt = request[q].from]
    <3>1. row'.mgmt = request[q].from
      BY <2>3 DEF TypeOK, Rows
    <3>2. request'[q].pc = "finish" /\ request'[q].to = request[q].from
      BY <2>3 DEF Request, TypeOK, UpdateRequests
    <3> QED BY <3>1, <3>2 DEF ResetFollows, ResetIsDue
  <2> QED BY <1>2, <2>2, <2>3 DEF NotifyUpdate
<1>3. ASSUME NEW lost \in BOOLEAN, FinishUpdate(q, lost) PROVE ResetFollows'
  <2>1. UNCHANGED <<row, lock>> /\ Request(q, NoRequest)
    BY <1>3 DEF FinishUpdate
  <2>2. CASE request[q].to = "managed"
    <3>1. status' = status /\ resetLost' = resetLost
      BY <1>3, <2>2 DEF FinishUpdate
    <3>2. \A p \in Requests : ResetIsDue(p) => ResetIsDue(p)'
      BY <2>1, <2>2 DEF ResetIsDue, Request, TypeOK
    <3> QED BY <2>1, <3>1, <3>2 DEF ResetFollows, ShowsInSync
  <2>3. CASE AllUnknown({"dc-cert"}) /\ lock = Unlocked
    BY <2>1, <2>3 DEF AllUnknown, ResetFollows, ShowsInSync, Unlocked
  <2>4. CASE resetLost'
    BY <2>4 DEF ResetFollows
  <2> QED BY <1>3, <2>2, <2>3, <2>4 DEF FinishUpdate
<1> QED BY <1>1, <1>2, <1>3 DEF Update

LEMMA OutsideKeepsReset == TypeOK /\ ResetFollows /\ Outside => ResetFollows'
<1> SUFFICES ASSUME TypeOK, ResetFollows, Outside PROVE ResetFollows'
  OBVIOUS
<1>1. ASSUME NEW q \in Requests, NEW to \in {"managed", "unmanaged"},
             NEW forced \in BOOLEAN, UpdateSubcloud(q, to, forced)
      PROVE  ResetFollows'
  <2>1. UNCHANGED <<row, status, lock, resetLost>>
    BY <1>1 DEF UpdateSubcloud, dbVars, history
  <2>2. \A p \in Requests : ResetIsDue(p) => ResetIsDue(p)'
    BY <1>1 DEF UpdateSubcloud, ResetIsDue, Request, TypeOK
  <2> QED BY <2>1, <2>2 DEF ResetFollows, ShowsInSync
<1>2. CASE \E t \in Audited : CentralChanges(t) \/ RemoteChanges(t)
  BY <1>2, ResetStays DEF CentralChanges, RemoteChanges, Undisturbed, dbVars, history
<1>3. CASE \E r \in {"active", "inactive", "unreachable"} : ReachChanges(r)
  BY <1>3, ResetStays DEF ReachChanges, Undisturbed, dbVars, history
<1>4. CASE \E e \in Reported, s \in Statuses \ {"unknown"} : OtherReport(e, s)
  BY <1>4, ResetStays DEF OtherReport, Undisturbed, dbVars, history
<1> QED BY <1>1, <1>2, <1>3, <1>4 DEF Outside

LEMMA Invariance ==
  /\ Init => IInv
  /\ IInv /\ [Next]_vars => IInv'
<1>1. Init => ResetFollows
  <2> SUFFICES ASSUME Init PROVE ResetFollows
    OBVIOUS
  <2>1. CASE Managed
    <3>1. row.mgmt = "managed"
      BY <2>1 DEF Init
    <3> QED BY <3>1 DEF ResetFollows
  <2>2. CASE ~Managed
    BY <2>2 DEF Init, ResetFollows, ShowsInSync, Unlocked
  <2> QED BY <2>1, <2>2
<1>2. ASSUME IInv, [Next]_vars PROVE ResetFollows'
  <2> USE <1>2 DEF IInv
  <2>1. CASE Outside
    BY <2>1, OutsideKeepsReset
  <2>2. CASE Manager
    BY <2>2, ManagerLeaves, ResetStays
  <2>3. CASE StatusUpdate
    BY <2>3, StatusUpdateKeepsReset
  <2>4. ASSUME NEW a \in Auditors, Worker(a) \/ Handler(a) PROVE ResetFollows'
    BY <2>4, WorkerLeaves, ResetStays, HandlerKeepsReset
  <2>5. ASSUME NEW q \in Requests, Update(q) PROVE ResetFollows'
    BY <2>5, UpdateKeepsReset
  <2>6. CASE UNCHANGED vars
    BY <2>6, ResetStays DEF vars, dbVars, history, Undisturbed
  <2> QED BY <2>1, <2>2, <2>3, <2>4, <2>5, <2>6 DEF Next
<1> QED BY <1>1, <1>2, InitTyped, TypesKept DEF IInv

\* An unmanaged subcloud, no request under way, shows no endpoint but dc-cert
\* in-sync: whatever report was accepted while it was managed, and however many
\* requests have overlapped, the last that wrote "unmanaged" resets after it
\* (update_subcloud, _update_subcloud_endpoint_status).
THEOREM UnmanagedStaysUnknown == Spec => []UnmanagedIsUnknown
<1>1. IInv => UnmanagedIsUnknown
  BY DEF IInv, ResetFollows, UnmanagedIsUnknown, ShowsInSync, ResetIsDue
<1> QED BY <1>1, Invariance, PTL DEF Spec

(***************************************************************************)
(* The requisite failures                                                  *)
(***************************************************************************)

\* An action that neither counts nor begins or reports a probe, and decides no
\* availability.
NothingCounted ==
  /\ row'.avail = row.avail /\ row'.count = row.count /\ misses' = misses
  /\ \A a \in Auditors :
       /\ aud'[a] = aud[a] \/ aud'[a].pc \notin {"probe", "report"}
       /\ handler'[a] = handler[a] \/ handler'[a].pc \notin {"reset", "write"}

LEMMA CountsStay ==
  ASSUME CountsFailures, NothingCounted
  PROVE  CountsFailures'
BY DEF CountsFailures, NothingCounted, StartsAfresh

LEMMA OutsideCountsNothing == Outside => NothingCounted
BY DEF Outside, NothingCounted, CentralChanges, RemoteChanges, ReachChanges,
       OtherReport, UpdateSubcloud, dbVars, envVars, history

LEMMA ManagerCountsNothing == TypeOK /\ Manager => NothingCounted
<1> SUFFICES ASSUME TypeOK, Manager PROVE NothingCounted
  OBVIOUS
<1>1. ASSUME NEW a \in Auditors, NEW count \in 1 .. 4, NEW elapsed \in BOOLEAN,
             NEW update \in BOOLEAN, AuditPass(a, count, elapsed, update)
      PROVE  NothingCounted
  <2>1. UNCHANGED <<row, handler, misses>>
    BY <1>1 DEF AuditPass, history
  <2> DEFINE r == [NoAudit EXCEPT !.pc = "cast", !.data = DataFor(flags')]
  <2>2. r.pc = "cast"
    BY NoneTyped DEF Audits
  <2>3. aud' = [aud EXCEPT ![a] = r]
    BY <1>1 DEF AuditPass, Audit
  <2> HIDE DEF r
  <2> QED BY <2>1, <2>2, <2>3 DEF NothingCounted, TypeOK
<1>2. CASE ExpireAudit
  BY <1>2 DEF ExpireAudit, NothingCounted, history
<1>3. CASE RestartManager
  BY <1>3 DEF RestartManager, NothingCounted, history
<1>4. ASSUME NEW m \in triggers, RequestAudits(m) PROVE NothingCounted
  <2>1. UNCHANGED <<row, aud, handler, misses>>
    BY <1>4 DEF RequestAudits, history
  <2> QED BY <2>1 DEF NothingCounted
<1>5. ASSUME NEW m \in triggers, ForceAudit(m) PROVE NothingCounted
  BY <1>5 DEF ForceAudit, NothingCounted, dbVars, history
<1> QED BY <1>1, <1>2, <1>3, <1>4, <1>5 DEF Manager

LEMMA StatusUpdateCountsNothing == StatusUpdate => NothingCounted
<1>1. ASSUME NEW e \in Endpoints, NEW s \in Statuses, AcceptStatus(e, s)
      PROVE  NothingCounted
  <2>1. UNCHANGED <<row, aud, handler, misses>>
    BY <1>1 DEF AcceptStatus, dbVars, history
  <2> QED BY <2>1 DEF NothingCounted
<1>2. CASE WriteStatus
  <2>1. UNCHANGED <<row, aud, handler, misses>>
    BY <1>2 DEF WriteStatus, history
  <2> QED BY <2>1 DEF NothingCounted
<1> QED BY <1>1, <1>2 DEF StatusUpdate

LEMMA UpdateCountsNothing ==
  ASSUME TypeOK, NEW q \in Requests, Update(q)
  PROVE  NothingCounted
<1>1. UNCHANGED <<aud, handler, misses>>
  BY DEF Update, WriteManagement, NotifyUpdate, FinishUpdate, history
<1>2. row' = row \/ \E m \in Managements : row' = [row EXCEPT !.mgmt = m]
  BY RequestFields DEF Update, WriteManagement, NotifyUpdate, FinishUpdate
<1>3. row'.avail = row.avail /\ row'.count = row.count
  BY <1>2 DEF TypeOK, Rows
<1> QED BY <1>1, <1>3 DEF NothingCounted

\* What the audit that starts reads is what the row counts.
LEMMA StartCounts ==
  ASSUME TypeOK, CountsFailures, NEW a \in Auditors, StartAudit(a)
  PROVE  CountsFailures'
<1> DEFINE r == [aud[a] EXCEPT !.pc = "probe", !.mgmt = row.mgmt,
                   !.avail = row.avail, !.count = row.count, !.asked = flags]
<1>1. r.pc = "probe" /\ r.avail = row.avail /\ r.count = row.count
  BY AuditFields DEF Audits
<1>2. aud' = [aud EXCEPT ![a] = r] /\ UNCHANGED <<row, handler, misses>>
  BY DEF StartAudit, Audit, history
<1> HIDE DEF r
<1>3. row.avail \in {"offline", "online"}
  BY RowFields DEF Availabilities
<1> QED BY <1>1, <1>2, <1>3 DEF CountsFailures, StartsAfresh, TypeOK

\* The call hands on what the audit found: going online, no failure is counted.
LEMMA CallCounts ==
  ASSUME TypeOK, CountsFailures, NEW a \in Auditors, Call(a)
  PROVE  CountsFailures'
<1> DEFINE s == aud[a]
<1>1. UNCHANGED <<row, misses>>
  BY DEF Call, dbVars, history
<1>2. aud' = [aud EXCEPT ![a] = [s EXCEPT !.pc = "wait", !.avail = "offline", !.count = 0]]
  BY DEF Call, Audit
<1>3. \/ s.pc = "state only" /\ Handling(a, [NoCall EXCEPT !.avail = s.avail,
                                   !.count = s.count, !.pc = "read"])
      \/ s.avail = "offline" /\ Handling(a, [NoCall EXCEPT !.avail = s.avail,
                                   !.count = s.count, !.pc = "reset"])
      \/ s.pc = "report" /\ s.avail # "offline"
           /\ Handling(a, [NoCall EXCEPT !.avail = s.avail, !.count = s.count,
                                         !.pc = "write"])
  BY DEF Call
<1>4. [s EXCEPT !.pc = "wait", !.avail = "offline", !.count = 0].pc = "wait"
  BY AuditFields DEF Audits
<1>5. \A pc \in {"read", "reset", "write"} :
        LET h == [NoCall EXCEPT !.avail = s.avail, !.count = s.count, !.pc = pc]
        IN  h.pc = pc /\ h.avail = s.avail /\ h.count = s.count
  BY NoneTyped DEF Calls
<1>6. s.avail \in {"online", "offline"}
  BY AuditFields DEF Availabilities
<1>7. /\ handler'[a].pc = "reset" => handler'[a].avail = "offline"
      /\ handler'[a].pc = "write" /\ handler'[a].avail = "online"
           => handler'[a].count = 0
      /\ \A b \in Auditors \ {a} : handler'[b] = handler[b]
  <2>1. s.pc = "report" /\ s.avail = "online" => s.count = 0
    BY DEF CountsFailures
  <2>2. handler \in [Auditors -> Calls]
    BY DEF TypeOK
  <2> HIDE DEF s
  <2> QED BY <1>3, <1>5, <1>6, <2>1, <2>2 DEF Handling
<1>8. \A b \in Auditors : aud'[b] = aud[b] \/ aud'[b].pc = "wait"
  BY <1>2, <1>4 DEF TypeOK
<1> QED BY <1>1, <1>7, <1>8 DEF CountsFailures, StartsAfresh

\* A probe that comes to a report reports another availability than it had read.
LEMMA ProbeReport ==
  ASSUME TypeOK, NEW a \in Auditors, Probe(a)
  PROVE  LET s == aud[a]
             count == CountAfter(s.count, Up)
             avail == AvailAfter(s.avail, count, Up)
         IN  /\ aud'[a].pc # "probe"
             /\ aud'[a].pc = "report" =>
                  aud'[a].avail = avail /\ aud'[a].count = count /\ avail # s.avail
<1> DEFINE s == aud[a]
           count == CountAfter(s.count, Up)
           avail == AvailAfter(s.avail, count, Up)
<1>3. s \in Audits /\ aud \in [Auditors -> Audits] /\ s.pc = "probe"
      /\ avail \in Availabilities
  BY AuditFields, AvailTyped DEF TypeOK, Probe
<1>4. aud'[a].pc # "probe" /\ (aud'[a].pc = "report" => aud'[a].avail = avail
        /\ aud'[a].count = count /\ avail # s.avail)
  <2>1. [NoAudit EXCEPT !.pc = "end"].pc = "end"
    BY NoneTyped DEF Audits
  <2>2. Onward(s, avail).pc \in {"endpoints", "end"}
    BY <1>3, OnwardTyped
  <2>3. \A c \in Nat, pc \in {"report", "state only"} :
          LET r == Reporting(s, avail, c, pc)
          IN  r.pc = pc /\ r.avail = avail /\ r.count = c
    <3> DEFINE o == Onward(s, avail)
    <3>1. o \in Audits
      BY <1>3, OnwardTyped
    <3> HIDE DEF o
    <3>2. \A c \in Nat, pc \in {"report", "state only"} :
            LET r == [o EXCEPT !.pc = pc, !.then = o.pc, !.avail = avail, !.count = c]
            IN  r.pc = pc /\ r.avail = avail /\ r.count = c
      BY <3>1 DEF Audits
    <3> QED BY <3>2 DEF Reporting, o
  <2>4. \/ Audit(a, [NoAudit EXCEPT !.pc = "end"])
        \/ avail # s.avail /\ Audit(a, Reporting(s, avail, count, "report"))
        \/ Audit(a, Onward(s, avail))
        \/ Audit(a, Reporting(s, avail, 0, "state only"))
    BY ProbeLeaves
  <2>5. count \in Nat
    <3>1. s.count \in 0 .. MaxFails /\ Up \in BOOLEAN
      BY AuditFields DEF Up
    <3>2. count \in 0 .. MaxFails
      BY <3>1, CountTyped
    <3> QED BY <3>2, ConstantsTyped
  <2> HIDE DEF s, count, avail
  <2>6. \A r : Audit(a, r) => aud'[a] = r
    BY <1>3 DEF Audit
  <2>7. 0 \in Nat
    OBVIOUS
  <2>8. CASE Audit(a, [NoAudit EXCEPT !.pc = "end"])
    BY <2>1, <2>6, <2>8
  <2>9. CASE avail # s.avail /\ Audit(a, Reporting(s, avail, count, "report"))
    <3> DEFINE r == Reporting(s, avail, count, "report")
    <3>1. r.pc = "report" /\ r.avail = avail /\ r.count = count
      BY <2>3, <2>5
    <3>2. aud'[a] = r
      BY <2>6, <2>9
    <3> HIDE DEF r
    <3> QED BY <2>9, <3>1, <3>2
  <2>10. CASE Audit(a, Onward(s, avail))
    BY <2>2, <2>6, <2>10
  <2>11. CASE Audit(a, Reporting(s, avail, 0, "state only"))
    BY <2>3, <2>6, <2>7, <2>11
  <2> QED BY <2>4, <2>8, <2>9, <2>10, <2>11
<1> QED BY <1>4

\* The probe of the one auditor: a success leaves no failure counted, a failure
\* is one more since the last success.
LEMMA ProbeCounts ==
  ASSUME OneAuditor, TypeOK, CountsFailures, NEW a \in Auditors, Probe(a)
  PROVE  CountsFailures'
<1> DEFINE s == aud[a]
           count == CountAfter(s.count, Up)
           avail == AvailAfter(s.avail, count, Up)
<1>1. handler' = handler
  BY DEF Probe
<1>2. \A b \in Auditors : b = a
  BY DEF OneAuditor
<1>3. s \in Audits /\ row \in Rows /\ aud \in [Auditors -> Audits]
      /\ s.avail \in {"online", "offline"} /\ s.pc = "probe"
  BY AuditFields DEF TypeOK, Availabilities, Probe
<1>4. aud'[a].pc # "probe" /\ (aud'[a].pc = "report" => aud'[a].avail = avail
        /\ aud'[a].count = count /\ avail # s.avail)
  BY ProbeReport
<1>5. CASE Up
  <2>1. misses' = 0 /\ count = 0 /\ avail = "online"
    BY <1>5 DEF Probe, CountAfter, AvailAfter
  <2>2. row'.avail = "online" => row'.count = 0
    <3>1. CASE row' = row /\ (avail # s.avail \/ count = s.count)
      <4>1. s.avail = "offline" \/ s.count = 0
        BY <1>3, <2>1, <3>1
      <4> QED BY <1>3, <3>1, <4>1 DEF CountsFailures, StartsAfresh
    <3>2. CASE WriteCount(count)
      BY <1>3, <2>1, <3>2 DEF WriteCount, Rows
    <3> QED BY <1>5, <3>1, <3>2, ProbeLeaves
  <2> QED BY <1>1, <1>2, <1>4, <2>1, <2>2 DEF CountsFailures
<1>6. CASE ~Up
  <2>1. misses' # 0
    <3>1. misses' = IF misses < FailsToAlarm THEN misses + 1 ELSE misses
      BY <1>6 DEF Probe
    <3> QED BY <3>1, ConstantsTyped DEF TypeOK
  <2>2. ~(aud'[a].pc = "report" /\ aud'[a].avail = "online")
    <3>1. avail = "online" => s.avail = "online"
      BY <1>6 DEF AvailAfter
    <3> QED BY <1>4, <3>1
  <2> QED BY <1>1, <1>2, <1>4, <2>1, <2>2 DEF CountsFailures
<1> QED BY <1>5, <1>6

LEMMA WorkerCounts ==
  ASSUME OneAuditor, TypeOK, CountsFailures, NEW a \in Auditors, Worker(a)
  PROVE  CountsFailures'
<1>1. ASSUME UNCHANGED <<row, misses>>, NEW r \in Audits, Audit(a, r),
             r.pc \notin {"probe", "report"},
             handler' = handler \/ Handling(a, NoCall)
      PROVE  CountsFailures'
  <2>1. NoCall.pc = "idle"
    BY NoneTyped DEF NoCall
  <2>2. \A b \in Auditors : handler'[b] = handler[b] \/ handler'[b].pc = "idle"
    BY <1>1, <2>1 DEF Handling, TypeOK
  <2>3. \A b \in Auditors : aud'[b] = aud[b] \/ aud'[b].pc \notin {"probe", "report"}
    BY <1>1 DEF Audit, TypeOK
  <2> QED BY <1>1, <2>2, <2>3, CountsStay DEF NothingCounted
<1>2. NoAudit \in Audits /\ NoAudit.pc = "idle"
  BY NoneTyped DEF NoAudit
<1>3. CASE EndAudit(a)
  BY <1>1, <1>2, <1>3 DEF EndAudit, history
<1>4. CASE AuditDies(a)
  BY <1>1, <1>2, <1>4 DEF AuditDies, dbVars, history
<1>5. ASSUME NEW dies \in BOOLEAN, CallFails(a, dies) PROVE CountsFailures'
  <2>1. Resumed(aud[a]) \in Audits /\ Resumed(aud[a]).pc \notin {"probe", "report"}
    BY AuditFields DEF Resumed, Audits
  <2>2. UNCHANGED <<row, misses>> /\ Audit(a, Resumed(aud[a]))
        /\ (handler' = handler \/ Handling(a, NoCall))
    BY <1>5 DEF CallFails, dbVars, history
  <2> QED BY <1>1, <2>1, <2>2
<1>6. ASSUME NEW failed \in SUBSET Audited, AuditEndpoints(a, failed) PROVE CountsFailures'
  <2> DEFINE r == [NoAudit EXCEPT !.pc = "end", !.done = ToCompare(aud[a]) \ failed]
  <2>1. ToCompare(aud[a]) \subseteq Audited
    BY AuditFields, ConstantsAssumption DEF ToCompare, AuditsFor, Types
  <2>2. r \in Audits /\ r.pc = "end"
    BY <2>1, NoneTyped DEF Audits
  <2>3. UNCHANGED <<row, misses, handler>> /\ Audit(a, r)
    BY <1>6 DEF AuditEndpoints, dbVars, history
  <2> HIDE DEF r
  <2> QED BY <1>1, <2>2, <2>3
<1> QED BY <1>3, <1>4, <1>5, <1>6, StartCounts, ProbeCounts, CallCounts DEF Worker

LEMMA HandlerCounts ==
  ASSUME TypeOK, CountsFailures, NEW a \in Auditors, Handler(a)
  PROVE  CountsFailures'
<1> USE CallFields
<1>1. CASE ReadState(a)
  <2> DEFINE r == [handler[a] EXCEPT !.pc = "notify", !.mgmt = row.mgmt]
  <2>1. r.pc = "notify"
    BY DEF Calls
  <2>2. handler' = [handler EXCEPT ![a] = r] /\ UNCHANGED <<row, misses, aud>>
    BY <1>1 DEF ReadState, Handling, dbVars, history
  <2> HIDE DEF r
  <2> QED BY <2>1, <2>2, CountsStay DEF NothingCounted, TypeOK
<1>2. CASE ResetAll(a)
  <2>1. UNCHANGED <<row, misses, aud>>
    BY <1>2 DEF ResetAll, history
  <2>2. handler'[a].avail = handler[a].avail /\ handler'[a].pc = "write"
        /\ \A b \in Auditors \ {a} : handler'[b] = handler[b]
    BY <1>2 DEF ResetAll, Handling, TypeOK, Calls
  <2>3. handler[a].avail = "offline"
    BY <1>2 DEF ResetAll, CountsFailures
  <2> QED BY <2>1, <2>2, <2>3 DEF CountsFailures, StartsAfresh
<1>3. CASE WriteAvailability(a)
  <2>1. UNCHANGED <<misses, aud>>
    BY <1>3 DEF WriteAvailability, history
  <2>2. handler'[a].pc = "notify"
        /\ \A b \in Auditors \ {a} : handler'[b] = handler[b]
    BY <1>3 DEF WriteAvailability, Handling, TypeOK, Calls
  <2>3. row'.avail = handler[a].avail /\ row'.count = handler[a].count
    BY <1>3 DEF WriteAvailability, TypeOK, Rows
  <2>4. row'.avail = "online" => row'.count = 0
    BY <1>3, <2>3 DEF WriteAvailability, CountsFailures
  <2> QED BY <2>1, <2>2, <2>4 DEF CountsFailures, StartsAfresh
<1>4. ASSUME NEW told \in BOOLEAN, NotifyDcorch(a, told) PROVE CountsFailures'
  <2>1. UNCHANGED <<row, misses>>
    BY <1>4 DEF NotifyDcorch, dbVars, history
  <2>2. Resumed(aud[a]).pc \notin {"probe", "report"}
    BY AuditFields DEF Resumed, Audits
  <2>3. \A b \in Auditors : aud'[b] = aud[b] \/ aud'[b].pc \notin {"probe", "report"}
    BY <1>4, <2>2 DEF NotifyDcorch, Audit, TypeOK
  <2>4. NoCall.pc = "idle"
    BY NoneTyped DEF NoCall
  <2>5. \A b \in Auditors : handler'[b] = handler[b] \/ handler'[b].pc = "idle"
    BY <1>4, <2>4 DEF NotifyDcorch, Handling, TypeOK
  <2> QED BY <2>1, <2>3, <2>5, CountsStay DEF NothingCounted
<1> QED BY <1>1, <1>2, <1>3, <1>4 DEF Handler

LEMMA CountsInvariance ==
  ASSUME OneAuditor
  PROVE  /\ Init => CountsFailures
         /\ TypeOK /\ CountsFailures /\ [Next]_vars => CountsFailures'
<1>1. Init => CountsFailures
  <2> SUFFICES ASSUME Init PROVE CountsFailures
    OBVIOUS
  <2>1. row.count = 0
    BY DEF Init
  <2>2. \A a \in Auditors : aud[a].pc = "idle" /\ handler[a].pc = "idle"
    BY DEF Init, NoAudit, NoCall
  <2> QED BY <2>1, <2>2 DEF CountsFailures
<1>2. ASSUME TypeOK, CountsFailures, [Next]_vars PROVE CountsFailures'
  <2>1. CASE UNCHANGED vars
    <3>1. UNCHANGED <<row, aud, handler, misses>>
      BY <2>1 DEF vars, dbVars, history
    <3> QED BY <1>2, <3>1, CountsStay DEF NothingCounted
  <2> QED BY <1>2, <2>1, CountsStay, OutsideCountsNothing, ManagerCountsNothing,
             StatusUpdateCountsNothing, WorkerCounts, HandlerCounts,
             UpdateCountsNothing DEF Next
<1> QED BY <1>1, <1>2

\* Only the probe of an audit comes to a report.
LEMMA OnlyProbeReports ==
  ASSUME TypeOK, [Next]_vars, NEW a \in Auditors,
         aud[a].pc = "probe", aud'[a].pc = "report"
  PROVE  Probe(a)
<1> USE CallFields, AuditFields
<1>1. CASE aud' = aud
  BY <1>1
<1>2. ASSUME NEW b \in Auditors, NEW r \in Audits, Audit(b, r), r.pc # "report"
      PROVE  FALSE
  BY <1>2 DEF Audit, TypeOK
<1>3. NoAudit \in Audits /\ NoAudit.pc = "idle"
  BY NoneTyped DEF NoAudit
<1>4. CASE Manager
  <2>1. NothingCounted
    BY <1>4, ManagerCountsNothing
  <2> QED BY <2>1 DEF NothingCounted
<1>5. CASE Outside \/ StatusUpdate \/ \E q \in Requests : Update(q)
  <2>1. NothingCounted
    BY <1>5, OutsideCountsNothing, StatusUpdateCountsNothing, UpdateCountsNothing
  <2> QED BY <2>1 DEF NothingCounted
<1>6. ASSUME NEW b \in Auditors, Handler(b) PROVE FALSE
  <2>1. Resumed(aud[b]) \in Audits /\ Resumed(aud[b]).pc # "report"
    BY DEF Resumed, Audits
  <2>2. aud' = aud \/ Audit(b, Resumed(aud[b]))
    BY <1>6 DEF Handler, ReadState, ResetAll, WriteAvailability, NotifyDcorch
  <2> QED BY <1>1, <1>2, <2>1, <2>2
<1>7. ASSUME NEW b \in Auditors, Worker(b) PROVE Probe(a)
  <2>1. Resumed(aud[b]) \in Audits /\ Resumed(aud[b]).pc # "report"
    BY DEF Resumed, Audits
  <2>2. \A b2 \in Auditors : b2 # b => aud'[b2] = aud[b2]
    <3>1. Probe(b) => \E r : Audit(b, r)
      BY ProbeLeaves, Zenon
    <3>2. \E r : Audit(b, r)
      BY <1>7, <3>1, Zenon DEF Worker, StartAudit, Call, EndAudit, AuditDies,
         CallFails, AuditEndpoints
    <3> QED BY <3>2 DEF Audit, TypeOK
  <2>3. b = a
    BY <2>2
  <2>4. \/ aud[a].pc # "probe" \/ Probe(b) \/ Audit(a, NoAudit)
    BY <1>7, <2>3 DEF Worker, StartAudit, Call, EndAudit, AuditDies, CallFails,
       AuditEndpoints
  <2> QED BY <1>2, <1>3, <2>3, <2>4
<1>8. CASE UNCHANGED vars
  BY <1>8, <1>1 DEF vars
<1> QED BY <1>4, <1>5, <1>6, <1>7, <1>8 DEF Next

\* An online subcloud is decided to be offline by the last of the requisite
\* number of failures in a row, also when a handler of an earlier call writes its
\* availability late: with one audit at a time and the code's limit of two
\* failures (_audit_subcloud, "Do not set offline until we have failed audit the
\* requisite number of times").
THEOREM OfflineAfterFailures ==
  ASSUME OneAuditor, LimitOfTwo
  PROVE  Spec => RequisiteFailures
<1>1. ASSUME TypeOK, CountsFailures, [Next]_vars, NEW a \in Auditors,
             aud[a].pc = "probe", aud'[a].pc = "report", aud'[a].avail = "offline"
      PROVE  misses' >= FailsToAlarm
  <2> DEFINE s == aud[a]
             count == CountAfter(s.count, Up)
             avail == AvailAfter(s.avail, count, Up)
  <2>1. Probe(a)
    BY <1>1, OnlyProbeReports
  <2>2. avail # s.avail /\ avail = "offline"
    BY <1>1, <2>1, ProbeReport
  <2>3. ~Up /\ s.avail = "online" /\ count >= FailsToAlarm
    <3>1. ~Up /\ ~(s.avail = "online" /\ count < FailsToAlarm)
      BY <2>2 DEF AvailAfter
    <3>2. s.avail = "online"
      BY <1>1, <2>2, AuditFields DEF Availabilities
    <3>3. count \in 0 .. MaxFails
      <4>1. s.count \in 0 .. MaxFails /\ Up \in BOOLEAN
        BY <1>1, AuditFields DEF Up
      <4> QED BY <4>1, CountTyped
    <3> QED BY <3>1, <3>2, <3>3, ConstantsTyped
  <2>4. s.count + 1 >= FailsToAlarm /\ s.count \in Nat
    <3>1. s.count \in 0 .. MaxFails
      BY <1>1, AuditFields
    <3>2. count <= s.count + 1
      BY <2>3, <3>1, ConstantsTyped DEF CountAfter
    <3>3. count \in Int
      BY <3>1, <2>3, ConstantsTyped DEF CountAfter
    <3> QED BY <2>3, <3>1, <3>2, <3>3, ConstantsTyped
  <2>5. misses \in 0 .. FailsToAlarm /\ (s.count # 0 => misses # 0)
    BY <1>1, <2>3 DEF CountsFailures, StartsAfresh, TypeOK
  <2>6. misses' = IF misses < FailsToAlarm THEN misses + 1 ELSE misses
    BY <2>1, <2>3 DEF Probe
  <2> QED BY <2>4, <2>5, <2>6, LimitOfTwo, ConstantsTyped DEF LimitOfTwo
<1>2. TypeOK /\ CountsFailures /\ [Next]_vars =>
        [\A a \in Auditors :
           aud[a].pc = "probe" /\ aud'[a].pc = "report" /\ aud'[a].avail = "offline"
             => misses' >= FailsToAlarm]_vars
  BY <1>1
<1> QED BY <1>2, InitTyped, TypesKept, CountsInvariance, PTL
        DEF Spec, RequisiteFailures
=================================================================================
