-------------------------- MODULE SyncRequestsProofs --------------------------
(***************************************************************************)
(* Theorems about SyncRequests, for every number of subclouds, proxies,    *)
(* changes, requests, retries and failures.                                *)
(***************************************************************************)
EXTENDS SyncRequests, WellFoundedInduction, TLAPS

(* Ids are natural numbers.                                                *)
LEMMA IdsAreNaturals == Ids \subseteq Nat
BY ConstantsAssumption DEF ConstantsAssumption, Ids

(* First picks the least element of a nonempty set of ids.                 *)
LEMMA FirstIsLeast ==
  ASSUME NEW S \in SUBSET Ids, S # {}
  PROVE  First(S) \in S /\ \A y \in S : First(S) <= y
<1>1. PICK x \in S : \A y \in S : ~ (<<y, x>> \in OpToRel(<, Nat))
  BY IdsAreNaturals, NatLessThanWellFounded, WFMin
<1>2. ASSUME NEW y \in S
      PROVE  x <= y
  <2>1. <<y, x>> \in Nat \X Nat
    BY IdsAreNaturals
  <2>2. ~ (y < x)
    BY <2>1, <1>1, Zenon DEF OpToRel
  <2> QED
    BY IdsAreNaturals, <2>2
<1> QED
  BY <1>2 DEF First

-------------------------------------------------------------------------------
(* Types.                                                                  *)

LEMMA LocalsTypes ==
  /\ NoSync \in Syncs
  /\ NoAudit \in Audits
  /\ NoChange \in Changes
  /\ NoRequest \in Requests
BY DEF NoSync, Syncs, SyncLabels, NoAudit, Audits, AuditLabels, NoChange, Changes,
       NoRequest, Requests

LEMMA LocalsTyped ==
  ASSUME TypeOK, NEW g \in Engines, NEW e \in Endpoints
  PROVE  syncer[g][e] \in Syncs /\ auditor[g][e] \in Audits /\ have[e] \in {0} \cup Ids
<1>1. syncer[g][e] \in Syncs
  BY DEF TypeOK
<1>2. auditor[g][e] \in Audits
  BY DEF TypeOK
<1>3. have[e] \in {0} \cup Ids
  BY DEF TypeOK
<1> QED
  BY <1>1, <1>2, <1>3

(* The locals of a sync and of an audit stay within their types.           *)
LEMMA SyncMoves ==
  ASSUME TypeOK, NEW g \in Engines, NEW e \in Endpoints
  PROVE  /\ \A s \in Syncs : Synced(g, e, s) => syncer' \in [Engines -> [Endpoints -> Syncs]]
         /\ \A l \in SyncLabels :
              /\ SyncGoto(g, e, l) => syncer' \in [Engines -> [Endpoints -> Syncs]]
              /\ SyncEnds(g, e, l) => syncer' \in [Engines -> [Endpoints -> Syncs]]
<1>1. ASSUME NEW s \in Syncs, Synced(g, e, s)
      PROVE  syncer' \in [Engines -> [Endpoints -> Syncs]]
  BY <1>1 DEF TypeOK, Synced
<1>2. ASSUME NEW l \in SyncLabels, SyncGoto(g, e, l)
      PROVE  syncer' \in [Engines -> [Endpoints -> Syncs]]
  <2>1. syncer[g][e] \in Syncs
    BY LocalsTyped
  <2>2. [syncer[g][e] EXCEPT !.pc = l] \in Syncs
    BY <2>1 DEF Syncs
  <2> QED
    BY <1>2, <2>2 DEF TypeOK, SyncGoto
<1>3. ASSUME NEW l \in SyncLabels, SyncEnds(g, e, l)
      PROVE  syncer' \in [Engines -> [Endpoints -> Syncs]]
  <2>1. [NoSync EXCEPT !.pc = l] \in Syncs
    BY LocalsTypes DEF Syncs
  <2> QED
    BY <1>1, <1>3, <2>1 DEF SyncEnds
<1> QED
  BY <1>1, <1>2, <1>3

LEMMA AuditMoves ==
  ASSUME TypeOK, NEW g \in Engines, NEW e \in Endpoints
  PROVE  /\ \A a \in Audits : Audited(g, e, a) => auditor' \in [Engines -> [Endpoints -> Audits]]
         /\ \A l \in AuditLabels :
              /\ AuditGoto(g, e, l) => auditor' \in [Engines -> [Endpoints -> Audits]]
              /\ AuditEnds(g, e, l) => auditor' \in [Engines -> [Endpoints -> Audits]]
<1>1. ASSUME NEW a \in Audits, Audited(g, e, a)
      PROVE  auditor' \in [Engines -> [Endpoints -> Audits]]
  BY <1>1 DEF TypeOK, Audited
<1>2. ASSUME NEW l \in AuditLabels, AuditGoto(g, e, l)
      PROVE  auditor' \in [Engines -> [Endpoints -> Audits]]
  <2>1. auditor[g][e] \in Audits
    BY LocalsTyped
  <2>2. [auditor[g][e] EXCEPT !.pc = l] \in Audits
    BY <2>1 DEF Audits
  <2> QED
    BY <1>2, <2>2 DEF TypeOK, AuditGoto
<1>3. ASSUME NEW l \in AuditLabels, AuditEnds(g, e, l)
      PROVE  auditor' \in [Engines -> [Endpoints -> Audits]]
  <2>1. [NoAudit EXCEPT !.pc = l] \in Audits
    BY LocalsTypes DEF Audits
  <2> QED
    BY <1>1, <1>3, <2>1 DEF AuditEnds
<1> QED
  BY <1>1, <1>2, <1>3

(* Rows stay requests when one is added or its state is saved.             *)
LEMMA RowsMove ==
  ASSUME TypeOK
  PROVE  /\ \A e \in Endpoints, v \in Nat : Enqueue(e, v) => rows' \in [Ids -> Requests]
         /\ \A i, s : SaveState(i, s) /\ rows[i].state \in PendingStates /\ s \in RequestStates =>
              rows' \in [Ids -> Requests] /\ auditor' \in [Engines -> [Endpoints -> Audits]]
<1>1. ASSUME NEW e \in Endpoints, NEW v \in Nat, Enqueue(e, v)
      PROVE  rows' \in [Ids -> Requests]
  <2>1. [ep |-> e, val |-> v, state |-> "queued"] \in Requests
    BY DEF Requests, RequestStates, PendingStates
  <2> QED
    BY <1>1, <2>1 DEF TypeOK, Enqueue
<1>2. ASSUME NEW i, NEW s \in RequestStates, SaveState(i, s), rows[i].state \in PendingStates
      PROVE  rows' \in [Ids -> Requests] /\ auditor' \in [Engines -> [Endpoints -> Audits]]
  <2>1. rows' \in [Ids -> Requests]
    <3>1. CASE i \in Ids
      <4>1. [rows[i] EXCEPT !.state = s] \in Requests
        <5>1. rows[i] \in Requests \ {NoRequest}
          BY <1>2, <3>1 DEF TypeOK, NoRequest, PendingStates
        <5> QED
          BY <5>1 DEF Requests
      <4> QED
        BY <1>2, <3>1, <4>1 DEF TypeOK, SaveState
    <3>2. CASE i \notin Ids
      BY <1>2, <3>2 DEF TypeOK, SaveState
    <3> QED
      BY <3>1, <3>2
  <2>2. ASSUME NEW g \in Engines, NEW e \in Endpoints
        PROVE  [auditor[g][e] EXCEPT !.old = @ \ {i}] \in Audits
    <3>1. auditor[g][e] \in Audits
      BY LocalsTyped
    <3> QED
      BY <3>1 DEF Audits
  <2>3. auditor' \in [Engines -> [Endpoints -> Audits]]
    BY <1>2, <2>2 DEF SaveState, Touch
  <2> QED
    BY <2>1, <2>3
<1> QED
  BY <1>1, <1>2

(* A sync that tries a request has one to try.                             *)
HasRequest ==
  \A g \in Engines, e \in Endpoints :
    syncer[g][e].pc \in {"apply", "save"} => syncer[g][e].todo # {}

LEMMA SaveTypes ==
  ASSUME TypeOK, NEW g \in Engines, NEW e \in Endpoints, NEW state, NEW s \in Syncs,
         FailingSave(g, e, state, s),
         rows[First(syncer[g][e].todo)].state \in PendingStates => state \in RequestStates
  PROVE  /\ syncer' \in [Engines -> [Endpoints -> Syncs]]
         /\ rows' \in [Ids -> Requests]
         /\ auditor' \in [Engines -> [Endpoints -> Audits]]
<1> DEFINE i == First(syncer[g][e].todo)
<1>1. CASE rows[i].state \in PendingStates
  <2>1. SaveState(i, state) /\ Synced(g, e, s)
    BY <1>1 DEF FailingSave
  <2> QED
    BY <1>1, <2>1, RowsMove, SyncMoves
<1>2. CASE rows[i].state \notin PendingStates
  <2>1. SyncEnds(g, e, "broken") /\ UNCHANGED <<rows, auditor>>
    BY <1>2 DEF FailingSave
  <2> QED
    BY <2>1, SyncMoves DEF SyncLabels, TypeOK
<1> QED
  BY <1>1, <1>2

(* Every step keeps the types.                                             *)
LEMMA TypeStep ==
  ASSUME TypeOK, HasRequest, [Next]_vars
  PROVE  TypeOK'
<1>1. ASSUME NEW p \in Proxies, Change(p)
      PROVE  TypeOK'
  <2>1. [pc |-> "enqueue", val |-> master + 1, left |-> Endpoints] \in Changes
    BY DEF Changes, TypeOK
  <2> QED
    BY <1>1, <2>1 DEF Change, TypeOK, dataVars, statusVars, engineVars
<1>2. ASSUME NEW p \in Proxies, NEW e \in Endpoints, ProxyEnqueue(p, e)
      PROVE  TypeOK'
  <2>1. proxy[p] \in Changes
    BY DEF TypeOK
  <2>2. Onward(proxy[p], e, "notify") \in Changes
    BY <2>1, LocalsTypes DEF Onward, Changes
  <2>3. proxy[p].val \in Nat
    BY <2>1 DEF Changes
  <2>4. rows' \in [Ids -> Requests]
    BY <1>2, <2>3, RowsMove DEF ProxyEnqueue
  <2> QED
    BY <1>2, <2>2, <2>4 DEF ProxyEnqueue, TypeOK, dataVars, statusVars, engineVars
<1>3. ASSUME NEW p \in Proxies, NEW e \in Endpoints, Notify(p, e)
      PROVE  TypeOK'
  <2>1. proxy[p] \in Changes
    BY DEF TypeOK
  <2>2. Onward(proxy[p], e, "idle") \in Changes
    BY <2>1, LocalsTypes DEF Onward, Changes
  <2> QED
    BY <1>3, <2>2 DEF Notify, TypeOK, dataVars, statusVars, engineVars
<1>4. ASSUME NEW p \in Proxies, ProxyDies(p)
      PROVE  TypeOK'
  BY <1>4, LocalsTypes DEF ProxyDies, Fault, TypeOK, dataVars, statusVars, engineVars
<1>5. ASSUME NEW g \in Engines, NEW e \in Endpoints, StartSync(g, e)
      PROVE  TypeOK'
  <2>1. syncer' \in [Engines -> [Endpoints -> Syncs]]
    <3>1. [NoSync EXCEPT !.pc = "begin"] \in Syncs
      BY LocalsTypes DEF Syncs, SyncLabels
    <3> QED
      BY <1>5, <3>1, SyncMoves DEF StartSync
  <2> QED
    BY <1>5, <2>1 DEF StartSync, TypeOK, dataVars, statusVars, engineVars
<1>6. ASSUME NEW g \in Engines, NEW e \in Endpoints, ReleaseSync(g, e)
      PROVE  TypeOK'
  BY <1>6 DEF ReleaseSync, TypeOK, dataVars, statusVars, engineVars
<1>7. ASSUME NEW g \in Engines, NEW e \in Endpoints, BeginSync(g, e)
      PROVE  TypeOK'
  <2>1. syncer' \in [Engines -> [Endpoints -> Syncs]]
    BY <1>7, SyncMoves DEF BeginSync, SyncLabels
  <2> QED
    BY <1>7, <2>1 DEF BeginSync, TypeOK, dataVars, statusVars, engineVars
<1>8. ASSUME NEW g \in Engines, NEW e \in Endpoints, ListRequests(g, e)
      PROVE  TypeOK'
  <2>1. syncer' \in [Engines -> [Endpoints -> Syncs]]
    <3>1. syncer[g][e] \in Syncs /\ Pending(e) \subseteq Ids
      BY DEF TypeOK, Pending
    <3>2. [syncer[g][e] EXCEPT !.todo = Pending(e) \ Failed,
                               !.pc = IF Pending(e) = {} THEN "report in"
                                      ELSE "report out"] \in Syncs
      BY <3>1 DEF Syncs, SyncLabels
    <3> QED
      BY <1>8, <3>2, SyncMoves DEF ListRequests
  <2> QED
    BY <1>8, <2>1 DEF ListRequests, TypeOK, dataVars, statusVars, engineVars
<1>9. ASSUME NEW g \in Engines, NEW e \in Endpoints, ReportOutOfSync(g, e)
      PROVE  TypeOK'
  <2>1. syncer' \in [Engines -> [Endpoints -> Syncs]]
    BY <1>9, SyncMoves DEF ReportOutOfSync, SyncLabels
  <2> QED
    BY <1>9, <2>1 DEF ReportOutOfSync, TypeOK, dataVars, statusVars, engineVars, Report
<1>10. ASSUME NEW g \in Engines, NEW e \in Endpoints, NextRequest(g, e)
      PROVE  TypeOK'
  <2> DEFINE s == syncer[g][e]
             i == First(s.todo)
  <2>1. s \in Syncs
    BY LocalsTyped
  <2>2. CASE s.todo = {} \/ ~Enabled(e)
    <3>1. [s EXCEPT !.pc = "relist", !.todo = {}, !.tries = 0] \in Syncs
      BY <2>1 DEF Syncs, SyncLabels
    <3> QED
      BY <1>10, <2>2, <3>1, SyncMoves DEF NextRequest, TypeOK, dataVars, statusVars, engineVars
  <2>3. CASE ~ (s.todo = {} \/ ~Enabled(e)) /\ rows[i].state \in PendingStates
    <3>1. SaveState(i, "in-progress") /\ SyncGoto(g, e, "apply")
      BY <1>10, <2>3 DEF NextRequest
    <3>2. rows' \in [Ids -> Requests] /\ auditor' \in [Engines -> [Endpoints -> Audits]]
      BY <2>3, <3>1, RowsMove DEF RequestStates, PendingStates
    <3>3. syncer' \in [Engines -> [Endpoints -> Syncs]]
      BY <3>1, SyncMoves DEF SyncLabels
    <3> QED
      BY <1>10, <3>2, <3>3 DEF NextRequest, TypeOK, dataVars, statusVars, engineVars
  <2>4. CASE ~ (s.todo = {} \/ ~Enabled(e)) /\ rows[i].state \notin PendingStates
    <3>1. [s EXCEPT !.todo = @ \ {i}] \in Syncs
      BY <2>1 DEF Syncs
    <3> QED
      BY <1>10, <2>4, <3>1, SyncMoves DEF NextRequest, TypeOK, dataVars, statusVars, engineVars
  <2> QED
    BY <2>2, <2>3, <2>4
<1>11. ASSUME NEW g \in Engines, NEW e \in Endpoints, ApplyRequest(g, e)
      PROVE  TypeOK'
  <2>1. syncer[g][e] \in Syncs /\ syncer[g][e].todo # {}
    BY <1>11 DEF TypeOK, HasRequest, ApplyRequest
  <2>2. First(syncer[g][e].todo) \in Ids
    BY <2>1, FirstIsLeast DEF Syncs
  <2>3. syncer' \in [Engines -> [Endpoints -> Syncs]]
    BY <1>11, SyncMoves DEF ApplyRequest, SyncLabels
  <2> QED
    BY <1>11, <2>2, <2>3 DEF ApplyRequest, TypeOK, dataVars, statusVars, engineVars
<1>12. ASSUME NEW g \in Engines, NEW e \in Endpoints, CompleteRequest(g, e)
      PROVE  TypeOK'
  <2> DEFINE s == syncer[g][e]
             i == First(s.todo)
  <2>1. s \in Syncs
    BY LocalsTyped
  <2>2. [s EXCEPT !.pc = "next", !.todo = @ \ {i}, !.tries = 0] \in Syncs
    BY <2>1 DEF Syncs, SyncLabels
  <2>3. syncer' \in [Engines -> [Endpoints -> Syncs]]
    BY <1>12, <2>2, SyncMoves DEF CompleteRequest
  <2>4. rows' \in [Ids -> Requests] /\ auditor' \in [Engines -> [Endpoints -> Audits]]
    <3>1. CASE rows[i].state \in PendingStates
      <4>1. SaveState(i, "completed")
        BY <1>12, <3>1 DEF CompleteRequest
      <4> QED
        BY <3>1, <4>1, RowsMove DEF RequestStates
    <3>2. CASE rows[i].state \notin PendingStates
      BY <1>12, <3>2 DEF CompleteRequest, TypeOK
    <3> QED
      BY <3>1, <3>2
  <2> QED
    BY <1>12, <2>3, <2>4 DEF CompleteRequest, TypeOK, dataVars, statusVars, engineVars
<1>13. ASSUME NEW g \in Engines, NEW e \in Endpoints, RequestTimesOut(g, e)
      PROVE  TypeOK'
  <2> DEFINE s == syncer[g][e]
             i == First(s.todo)
             t == IF s.tries + 1 < MaxRetry THEN [s EXCEPT !.tries = @ + 1]
                  ELSE [s EXCEPT !.pc = "relist", !.todo = {}, !.tries = 0]
  <2>1. s \in Syncs /\ s.todo # {}
    BY <1>13 DEF TypeOK, HasRequest, RequestTimesOut
  <2>2. i \in Ids
    BY <2>1, FirstIsLeast DEF Syncs
  <2>3. t \in Syncs
    <3>1. [s EXCEPT !.tries = @ + 1] \in Syncs
      BY <2>1 DEF Syncs
    <3>2. [s EXCEPT !.pc = "relist", !.todo = {}, !.tries = 0] \in Syncs
      BY <2>1 DEF Syncs, SyncLabels
    <3> QED
      BY <3>1, <3>2
  <2>4. rows[i].state \in PendingStates => rows[i].state \in RequestStates
    BY DEF RequestStates
  <2>5. FailingSave(g, e, rows[i].state, t)
    BY <1>13 DEF RequestTimesOut
  <2>6. /\ syncer' \in [Engines -> [Endpoints -> Syncs]]
        /\ rows' \in [Ids -> Requests]
        /\ auditor' \in [Engines -> [Endpoints -> Audits]]
    BY <2>3, <2>4, <2>5, SaveTypes
  <2>7. have' \in [Endpoints -> {0} \cup Ids]
    BY <1>13, <2>2 DEF RequestTimesOut, TypeOK
  <2>8. faults' \in Nat
    BY <1>13 DEF RequestTimesOut, TryFails, Fault, NoFault, TypeOK
  <2> QED
    BY <1>13, <2>6, <2>7, <2>8 DEF RequestTimesOut, TypeOK, dataVars, statusVars, engineVars
<1>14. ASSUME NEW g \in Engines, NEW e \in Endpoints, RequestFails(g, e)
      PROVE  TypeOK'
  <2> DEFINE s == syncer[g][e]
             i == First(s.todo)
             on == [s EXCEPT !.pc = "next", !.todo = @ \ {i}, !.tries = 0]
             again == [s EXCEPT !.tries = @ + 1]
             aborted == [on EXCEPT !.aborted = TRUE]
  <2>1. s \in Syncs
    BY LocalsTyped
  <2>2. on \in Syncs /\ again \in Syncs
    <3>1. on \in Syncs
      BY <2>1 DEF Syncs, SyncLabels
    <3>2. again \in Syncs
      BY <2>1 DEF Syncs
    <3> QED
      BY <3>1, <3>2
  <2>3. aborted \in Syncs
    BY <2>2 DEF Syncs
  <2>4. \E t \in Syncs : FailingSave(g, e, "failed", t)
    <3>1. \/ FailingSave(g, e, "failed", IF s.tries + 1 = MaxRetry THEN on ELSE again)
          \/ FailingSave(g, e, "failed", on)
          \/ FailingSave(g, e, "failed", aborted)
      BY <1>14 DEF RequestFails
    <3>2. (IF s.tries + 1 = MaxRetry THEN on ELSE again) \in Syncs
      BY <2>2
    <3> HIDE DEF on, again, aborted
    <3> QED
      BY <3>1, <3>2, <2>2, <2>3
  <2>5. /\ syncer' \in [Engines -> [Endpoints -> Syncs]]
        /\ rows' \in [Ids -> Requests]
        /\ auditor' \in [Engines -> [Endpoints -> Audits]]
    BY <2>4, SaveTypes DEF RequestStates, PendingStates
  <2>6. faults' \in Nat
    BY <1>14 DEF RequestFails, TryFails, Fault, NoFault, TypeOK
  <2> QED
    BY <1>14, <2>5, <2>6 DEF RequestFails, TypeOK, dataVars, statusVars, engineVars
<1>15. ASSUME NEW g \in Engines, NEW e \in Endpoints, ListAgain(g, e)
      PROVE  TypeOK'
  <2>1. syncer' \in [Engines -> [Endpoints -> Syncs]]
    BY <1>15, SyncMoves DEF ListAgain, SyncLabels
  <2> QED
    BY <1>15, <2>1 DEF ListAgain, TypeOK, dataVars, statusVars, engineVars
<1>16. ASSUME NEW g \in Engines, NEW e \in Endpoints, ReportInSync(g, e)
      PROVE  TypeOK'
  <2>1. syncer' \in [Engines -> [Endpoints -> Syncs]]
    BY <1>16, SyncMoves DEF ReportInSync, SyncLabels
  <2> QED
    BY <1>16, <2>1 DEF ReportInSync, TypeOK, dataVars, statusVars, engineVars, Report
<1>17. ASSUME NEW g \in Engines, NEW e \in Endpoints, SyncBreaks(g, e)
      PROVE  TypeOK'
  <2>1. syncer' \in [Engines -> [Endpoints -> Syncs]]
    BY <1>17, SyncMoves DEF SyncBreaks, SyncLabels
  <2>2. faults' \in Nat
    <3>1. faults \in Nat
      BY DEF TypeOK
    <3>2. Fault
      BY <1>17 DEF SyncBreaks
    <3> QED
      BY <3>1, <3>2 DEF Fault
  <2> QED
    BY <1>17, <2>1, <2>2 DEF SyncBreaks, TypeOK, dataVars, statusVars
<1>18. ASSUME NEW g \in Engines, NEW e \in Endpoints, EndSync(g, e)
      PROVE  TypeOK'
  <2>1. syncer' \in [Engines -> [Endpoints -> Syncs]]
    BY <1>18, SyncMoves DEF EndSync, SyncLabels
  <2> QED
    BY <1>18, <2>1 DEF EndSync, TypeOK, dataVars, statusVars, engineVars
<1>19. ASSUME NEW g \in Engines, NEW e \in Endpoints, StartAudit(g, e)
      PROVE  TypeOK'
  <2>1. auditor' \in [Engines -> [Endpoints -> Audits]]
    <3>1. [NoAudit EXCEPT !.pc = "begin"] \in Audits
      BY LocalsTypes DEF Audits, AuditLabels
    <3> QED
      BY <1>19, <3>1, AuditMoves DEF StartAudit
  <2> QED
    BY <1>19, <2>1 DEF StartAudit, TypeOK, dataVars, statusVars, engineVars
<1>20. ASSUME NEW g \in Engines, NEW e \in Endpoints, ReleaseAudit(g, e)
      PROVE  TypeOK'
  BY <1>20 DEF ReleaseAudit, TypeOK, dataVars, statusVars, engineVars
<1>21. ASSUME NEW g \in Engines, NEW e \in Endpoints, BeginAudit(g, e)
      PROVE  TypeOK'
  <2>1. auditor' \in [Engines -> [Endpoints -> Audits]]
    BY <1>21, AuditMoves DEF BeginAudit, AuditLabels
  <2> QED
    BY <1>21, <2>1 DEF BeginAudit, TypeOK, dataVars, statusVars, engineVars
<1>22. ASSUME NEW g \in Engines, NEW e \in Endpoints, ReadFailed(g, e)
      PROVE  TypeOK'
  <2>1. auditor' \in [Engines -> [Endpoints -> Audits]]
    <3>1. auditor[g][e] \in Audits /\ Failed \subseteq Ids
      BY DEF TypeOK, Failed
    <3>2. [auditor[g][e] EXCEPT !.old = Failed, !.pc = "pending"] \in Audits
      BY <3>1 DEF Audits, AuditLabels
    <3> QED
      BY <1>22, <3>2, AuditMoves DEF ReadFailed, AuditLabels
  <2> QED
    BY <1>22, <2>1 DEF ReadFailed, TypeOK, dataVars, statusVars, engineVars
<1>23. ASSUME NEW g \in Engines, NEW e \in Endpoints, ReadPending(g, e)
      PROVE  TypeOK'
  <2>1. auditor' \in [Engines -> [Endpoints -> Audits]]
    <3>1. auditor[g][e] \in Audits
      BY LocalsTyped
    <3> DEFINE b == Pending(e) \ Failed # {}
    <3>2. b \in BOOLEAN
      OBVIOUS
    <3>3. Audited(g, e, [auditor[g][e] EXCEPT !.busy = b, !.pc = "fetch"])
      BY <1>23 DEF ReadPending
    <3> HIDE DEF b
    <3>4. [auditor[g][e] EXCEPT !.busy = b, !.pc = "fetch"] \in Audits
      BY <3>1, <3>2 DEF Audits, AuditLabels
    <3> QED
      BY <3>3, <3>4, AuditMoves
  <2> QED
    BY <1>23, <2>1 DEF ReadPending, TypeOK, dataVars, statusVars, engineVars
<1>24. ASSUME NEW g \in Engines, NEW e \in Endpoints, FetchSubcloud(g, e)
      PROVE  TypeOK'
  <2>1. auditor' \in [Engines -> [Endpoints -> Audits]]
    <3>1. auditor[g][e] \in Audits /\ Value(e) \in Nat
      BY DEF TypeOK, Value, Requests, NoRequest
    <3>2. [auditor[g][e] EXCEPT !.val = Value(e), !.pc = "master"] \in Audits
      BY <3>1 DEF Audits, AuditLabels
    <3> QED
      BY <1>24, <3>2, AuditMoves DEF FetchSubcloud
  <2> QED
    BY <1>24, <2>1 DEF FetchSubcloud, TypeOK, dataVars, statusVars, engineVars
<1>25. ASSUME NEW g \in Engines, NEW e \in Endpoints, CompareMaster(g, e)
      PROVE  TypeOK'
  <2> DEFINE a == auditor[g][e]
             cached == IF cache[g] = {} THEN {master} ELSE cache[g]
             missing(m) == m # a.val /\ ~a.busy
             b(m) == [a EXCEPT !.pc = IF missing(m) THEN "schedule" ELSE "later",
                               !.found = a.busy \/ missing(m),
                               !.busy = FALSE,
                               !.val = IF missing(m) THEN m ELSE 0]
  <2>1. a \in Audits
    BY LocalsTyped
  <2>2. cached \subseteq Nat
    BY DEF TypeOK
  <2>3. ASSUME NEW m \in cached
        PROVE  b(m) \in Audits
    <3>1. m \in Nat
      BY <2>2
    <3>2. missing(m) \in BOOLEAN /\ (a.busy \/ missing(m)) \in BOOLEAN
      OBVIOUS
    <3> HIDE DEF missing
    <3> QED
      BY <2>1, <3>1, <3>2 DEF Audits, AuditLabels
  <2>4. PICK m \in cached : Audited(g, e, b(m))
    BY <1>25 DEF CompareMaster
  <2>5. auditor' \in [Engines -> [Endpoints -> Audits]]
    BY <2>3, <2>4, AuditMoves
  <2> QED
    BY <1>25, <2>2, <2>5 DEF CompareMaster, TypeOK, dataVars, statusVars, engineVars
<1>26. ASSUME NEW g \in Engines, NEW e \in Endpoints, ScheduleWork(g, e)
      PROVE  TypeOK'
  <2>1. auditor[g][e] \in Audits
    BY LocalsTyped
  <2>2. auditor[g][e].val \in Nat
    BY <2>1 DEF Audits
  <2>3. [auditor[g][e] EXCEPT !.pc = "later", !.val = 0] \in Audits
    BY <2>1 DEF Audits, AuditLabels
  <2>4. rows' \in [Ids -> Requests]
    BY <1>26, <2>2, RowsMove DEF ScheduleWork
  <2>5. auditor' \in [Engines -> [Endpoints -> Audits]]
    BY <1>26, <2>3, AuditMoves DEF ScheduleWork
  <2> QED
    BY <1>26, <2>4, <2>5 DEF ScheduleWork, TypeOK, dataVars, statusVars, engineVars
<1>27. ASSUME NEW g \in Engines, NEW e \in Endpoints, AuditReturns(g, e)
      PROVE  TypeOK'
  <2>1. auditor' \in [Engines -> [Endpoints -> Audits]]
    BY <1>27, AuditMoves DEF AuditReturns, AuditLabels
  <2> QED
    BY <1>27, <2>1 DEF AuditReturns, TypeOK, dataVars, statusVars, engineVars, Fault, NoFault
<1>28. ASSUME NEW g \in Engines, NEW e \in Endpoints, AuditSkips(g, e)
      PROVE  TypeOK'
  <2>1. auditor' \in [Engines -> [Endpoints -> Audits]]
    <3>1. auditor[g][e] \in Audits
      BY LocalsTyped
    <3>2. [auditor[g][e] EXCEPT !.pc = "later", !.busy = FALSE, !.val = 0] \in Audits
      BY <3>1 DEF Audits, AuditLabels
    <3> QED
      BY <1>28, <3>2, AuditMoves DEF AuditSkips
  <2> QED
    BY <1>28, <2>1 DEF AuditSkips, TypeOK, dataVars, statusVars, engineVars, Fault
<1>29. ASSUME NEW g \in Engines, NEW e \in Endpoints, DropFailed(g, e)
      PROVE  TypeOK'
  <2>1. auditor[g][e] \in Audits
    BY LocalsTyped
  <2>2. [auditor[g][e] EXCEPT !.old = {}, !.pc = "findings"] \in Audits
    BY <2>1 DEF Audits, AuditLabels
  <2>3. auditor' \in [Engines -> [Endpoints -> Audits]]
    BY <1>29, <2>2, AuditMoves DEF DropFailed
  <2>4. ASSUME NEW i \in Failed
        PROVE  [rows[i] EXCEPT !.state = "dropped"] \in Requests
    <3>1. rows[i] \in Requests \ {NoRequest}
      BY DEF TypeOK, Failed, NoRequest
    <3> QED
      BY <3>1 DEF Requests, RequestStates
  <2>5. rows' \in [Ids -> Requests]
    BY <1>29, <2>4 DEF DropFailed, TypeOK
  <2> QED
    BY <1>29, <2>3, <2>5 DEF DropFailed, TypeOK, dataVars, statusVars, engineVars
<1>30. ASSUME NEW g \in Engines, NEW e \in Endpoints, ReportFindings(g, e)
      PROVE  TypeOK'
  <2>1. auditor' \in [Engines -> [Endpoints -> Audits]]
    <3>1. auditor[g][e] \in Audits
      BY LocalsTyped
    <3>2. [auditor[g][e] EXCEPT !.pc = "flag", !.found = FALSE] \in Audits
      BY <3>1 DEF Audits, AuditLabels
    <3> QED
      BY <1>30, <3>2, AuditMoves DEF ReportFindings
  <2> QED
    BY <1>30, <2>1 DEF ReportFindings, TypeOK, dataVars, statusVars, engineVars
<1>31. ASSUME NEW g \in Engines, NEW e \in Endpoints, RequestSync(g, e)
      PROVE  TypeOK'
  <2>1. auditor' \in [Engines -> [Endpoints -> Audits]]
    BY <1>31, AuditMoves DEF RequestSync, AuditLabels
  <2> QED
    BY <1>31, <2>1 DEF RequestSync, TypeOK, dataVars, statusVars, engineVars
<1>32. ASSUME NEW g \in Engines, NEW e \in Endpoints, AuditBreaks(g, e)
      PROVE  TypeOK'
  <2>1. auditor' \in [Engines -> [Endpoints -> Audits]]
    BY <1>32, AuditMoves DEF AuditBreaks, AuditLabels
  <2> QED
    BY <1>32, <2>1 DEF AuditBreaks, TypeOK, dataVars, statusVars, engineVars, Fault
<1>33. ASSUME NEW g \in Engines, NEW e \in Endpoints, EndAudit(g, e)
      PROVE  TypeOK'
  <2>1. auditor' \in [Engines -> [Endpoints -> Audits]]
    BY <1>33, AuditMoves DEF EndAudit, AuditLabels
  <2> QED
    BY <1>33, <2>1 DEF EndAudit, TypeOK, dataVars, statusVars, engineVars
<1>34. ASSUME NEW e \in Endpoints, Outage(e)
      PROVE  TypeOK'
  BY <1>34 DEF Outage, Fault, TypeOK, dataVars, statusVars, engineVars
<1>35. ASSUME NEW e \in Endpoints, Recover(e)
      PROVE  TypeOK'
  BY <1>35 DEF Recover, TypeOK, dataVars, statusVars, engineVars
<1>36. ASSUME NEW g \in Engines, Restart(g)
      PROVE  TypeOK'
  BY <1>36, LocalsTypes DEF Restart, Fault, TypeOK, dataVars, statusVars, engineVars
<1>37. ASSUME PurgeLocks
      PROVE  TypeOK'
  BY <1>37 DEF PurgeLocks, TypeOK, dataVars, statusVars, engineVars
<1>38. CASE UNCHANGED vars
  BY <1>38 DEF vars, TypeOK, dataVars, statusVars, engineVars
<1> QED
  BY <1>1, <1>2, <1>3, <1>4, <1>5, <1>6, <1>7, <1>8, <1>9, <1>10, <1>11,
     <1>12, <1>13, <1>14, <1>15, <1>16, <1>17, <1>18, <1>19, <1>20, <1>21,
     <1>22, <1>23, <1>24, <1>25, <1>26, <1>27, <1>28, <1>29, <1>30, <1>31,
     <1>32, <1>33, <1>34, <1>35, <1>36, <1>37, <1>38
     DEF Next, ProxyProgress, SyncProgress, AuditProgress

(* How the locals of one sync change, and nobody else's.                   *)
LEMMA SyncFrame ==
  ASSUME TypeOK, NEW g \in Engines, NEW e \in Endpoints
  PROVE  /\ \A s : Synced(g, e, s) =>
              /\ syncer'[g][e] = s
              /\ \A h \in Engines, f \in Endpoints :
                   h # g \/ f # e => syncer'[h][f] = syncer[h][f]
         /\ \A l : SyncGoto(g, e, l) => Synced(g, e, [syncer[g][e] EXCEPT !.pc = l])
         /\ \A l : SyncEnds(g, e, l) => Synced(g, e, [NoSync EXCEPT !.pc = l])
<1>1. ASSUME NEW s, Synced(g, e, s)
      PROVE  /\ syncer'[g][e] = s
             /\ \A h \in Engines, f \in Endpoints :
                  h # g \/ f # e => syncer'[h][f] = syncer[h][f]
  BY <1>1 DEF Synced, TypeOK
<1>2. ASSUME NEW l, SyncGoto(g, e, l)
      PROVE  Synced(g, e, [syncer[g][e] EXCEPT !.pc = l])
  BY <1>2 DEF SyncGoto, Synced
<1>3. ASSUME NEW l, SyncEnds(g, e, l)
      PROVE  Synced(g, e, [NoSync EXCEPT !.pc = l])
  BY <1>3 DEF SyncEnds
<1> QED
  BY <1>1, <1>2, <1>3

(* What a failing save does to the sync.                                   *)
LEMMA SaveSyncs ==
  ASSUME NEW g, NEW e, NEW state, NEW s, FailingSave(g, e, state, s)
  PROVE  Synced(g, e, s) \/ Synced(g, e, [NoSync EXCEPT !.pc = "broken"])
BY DEF FailingSave, SyncEnds

(* A sync with nothing read, at any label.                                  *)
LEMMA NoSyncs ==
  /\ NoSync.pc = "idle"
  /\ \A l : [NoSync EXCEPT !.pc = l].pc = l
BY DEF NoSync

(* Every step leaves a sync that tries a request something to try.         *)
LEMMA HasRequestStep ==
  ASSUME TypeOK, HasRequest, [Next]_vars
  PROVE  HasRequest'
<1>1. ASSUME NEW g \in Engines, NEW e \in Endpoints, NEW s, Synced(g, e, s),
             s.pc \in {"apply", "save"} => s.todo # {}
      PROVE  HasRequest'
  BY <1>1, SyncFrame DEF HasRequest
<1>2. ASSUME NEW g \in Engines, NEW e \in Endpoints,
             NEW l \in SyncLabels \ {"apply", "save"},
             SyncGoto(g, e, l) \/ SyncEnds(g, e, l)
      PROVE  HasRequest'
  <2>1. CASE SyncGoto(g, e, l)
    <3> DEFINE s == [syncer[g][e] EXCEPT !.pc = l]
    <3>1. syncer[g][e] \in Syncs
      BY LocalsTyped
    <3>2. s.pc \notin {"apply", "save"}
      BY <3>1 DEF Syncs
    <3>3. Synced(g, e, s)
      BY <2>1, SyncFrame
    <3> HIDE DEF s
    <3> QED
      BY <1>1, <3>2, <3>3
  <2>2. CASE SyncEnds(g, e, l)
    <3> DEFINE s == [NoSync EXCEPT !.pc = l]
    <3>1. s.pc \notin {"apply", "save"}
      BY NoSyncs
    <3>2. Synced(g, e, s)
      BY <2>2, SyncFrame
    <3> HIDE DEF s
    <3> QED
      BY <1>1, <3>1, <3>2
  <2> QED
    BY <1>2, <2>1, <2>2
<1>3. ASSUME UNCHANGED syncer
      PROVE  HasRequest'
  BY <1>3 DEF HasRequest
<1>4. ASSUME NEW p \in Proxies, Change(p)
      PROVE  HasRequest'
  BY <1>4, <1>3 DEF Change, engineVars
<1>5. ASSUME NEW p \in Proxies, NEW e \in Endpoints, ProxyEnqueue(p, e)
      PROVE  HasRequest'
  BY <1>5, <1>3 DEF ProxyEnqueue, engineVars
<1>6. ASSUME NEW p \in Proxies, NEW e \in Endpoints, Notify(p, e)
      PROVE  HasRequest'
  BY <1>6, <1>3 DEF Notify, engineVars
<1>7. ASSUME NEW p \in Proxies, ProxyDies(p)
      PROVE  HasRequest'
  BY <1>7, <1>3 DEF ProxyDies, engineVars
<1>8. ASSUME NEW g \in Engines, NEW e \in Endpoints, StartSync(g, e)
      PROVE  HasRequest'
  <2>1. Synced(g, e, [NoSync EXCEPT !.pc = "begin"])
    BY <1>8 DEF StartSync
  <2> QED
    BY <1>1, <2>1, NoSyncs
<1>9. ASSUME NEW g \in Engines, NEW e \in Endpoints, ReleaseSync(g, e)
      PROVE  HasRequest'
  BY <1>9, <1>3 DEF ReleaseSync
<1>10. ASSUME NEW g \in Engines, NEW e \in Endpoints, BeginSync(g, e)
      PROVE  HasRequest'
  BY <1>10, <1>2 DEF BeginSync, SyncLabels
<1>11. ASSUME NEW g \in Engines, NEW e \in Endpoints, ListRequests(g, e)
      PROVE  HasRequest'
  <2> DEFINE t == [syncer[g][e] EXCEPT !.todo = Pending(e) \ Failed,
                                      !.pc = IF Pending(e) = {} THEN "report in"
                                             ELSE "report out"]
  <2>1. Synced(g, e, t)
    BY <1>11 DEF ListRequests
  <2>2. syncer[g][e] \in Syncs
    BY LocalsTyped
  <2>3. t.pc \in {"report in", "report out"}
    BY <2>2 DEF Syncs
  <2> QED
    BY <1>1, <2>1, <2>3
<1>12. ASSUME NEW g \in Engines, NEW e \in Endpoints, ReportOutOfSync(g, e)
      PROVE  HasRequest'
  BY <1>12, <1>2 DEF ReportOutOfSync, SyncLabels
<1>13. ASSUME NEW g \in Engines, NEW e \in Endpoints, NextRequest(g, e)
      PROVE  HasRequest'
  <2> DEFINE s == syncer[g][e]
             i == First(s.todo)
  <2>1. s \in Syncs
    BY LocalsTyped
  <2>2. s.pc = "next"
    BY <1>13 DEF NextRequest
  <2>3. CASE s.todo = {} \/ ~Enabled(e)
    <3>1. [s EXCEPT !.pc = "relist", !.todo = {}, !.tries = 0].pc = "relist"
      BY <2>1 DEF Syncs
    <3> QED
      BY <1>13, <1>1, <2>3, <3>1 DEF NextRequest
  <2>4. CASE s.todo # {} /\ Enabled(e) /\ rows[i].state \in PendingStates
    <3>1. Synced(g, e, [s EXCEPT !.pc = "apply"])
      BY <1>13, <2>4, SyncFrame DEF NextRequest
    <3>2. [s EXCEPT !.pc = "apply"].todo # {}
      BY <2>1, <2>4 DEF Syncs
    <3> QED
      BY <1>1, <3>1, <3>2
  <2>5. CASE s.todo # {} /\ Enabled(e) /\ rows[i].state \notin PendingStates
    <3>1. [s EXCEPT !.todo = @ \ {i}].pc = "next"
      BY <2>1, <2>2 DEF Syncs
    <3> QED
      BY <1>13, <1>1, <2>5, <3>1 DEF NextRequest
  <2> QED
    BY <2>3, <2>4, <2>5
<1>14. ASSUME NEW g \in Engines, NEW e \in Endpoints, ApplyRequest(g, e)
      PROVE  HasRequest'
  <2>1. syncer[g][e] \in Syncs
    BY LocalsTyped
  <2> DEFINE s == [syncer[g][e] EXCEPT !.pc = "save"]
  <2>2. s.todo # {}
    BY <1>14, <2>1 DEF ApplyRequest, HasRequest, Syncs
  <2>3. Synced(g, e, s)
    BY <1>14, SyncFrame DEF ApplyRequest
  <2> HIDE DEF s
  <2> QED
    BY <1>1, <2>2, <2>3
<1>15. ASSUME NEW g \in Engines, NEW e \in Endpoints, CompleteRequest(g, e)
      PROVE  HasRequest'
  <2> DEFINE s == syncer[g][e]
  <2>1. s \in Syncs
    BY LocalsTyped
  <2>2. [s EXCEPT !.pc = "next", !.todo = @ \ {First(s.todo)}, !.tries = 0].pc = "next"
    BY <2>1 DEF Syncs
  <2> QED
    BY <1>15, <1>1, <2>2 DEF CompleteRequest
<1>16. ASSUME NEW g \in Engines, NEW e \in Endpoints, RequestTimesOut(g, e)
      PROVE  HasRequest'
  <2> DEFINE s == syncer[g][e]
             t == IF s.tries + 1 < MaxRetry THEN [s EXCEPT !.tries = @ + 1]
                  ELSE [s EXCEPT !.pc = "relist", !.todo = {}, !.tries = 0]
  <2>1. s \in Syncs /\ s.todo # {}
    BY <1>16 DEF TypeOK, HasRequest, RequestTimesOut
  <2>2. t.pc = "relist" \/ t.todo = s.todo
    BY <2>1 DEF Syncs
  <2>3. Synced(g, e, t) \/ Synced(g, e, [NoSync EXCEPT !.pc = "broken"])
    BY <1>16, SaveSyncs DEF RequestTimesOut
  <2> HIDE DEF t
  <2> QED
    BY <1>1, <2>1, <2>2, <2>3, NoSyncs
<1>17. ASSUME NEW g \in Engines, NEW e \in Endpoints, RequestFails(g, e)
      PROVE  HasRequest'
  <2> DEFINE s == syncer[g][e]
             i == First(s.todo)
             on == [s EXCEPT !.pc = "next", !.todo = @ \ {i}, !.tries = 0]
             again == [s EXCEPT !.tries = @ + 1]
             aborted == [on EXCEPT !.aborted = TRUE]
  <2>1. s \in Syncs /\ s.todo # {}
    BY <1>17 DEF TypeOK, HasRequest, RequestFails
  <2>2. on.pc = "next" /\ again.todo = s.todo /\ aborted.pc = "next"
    BY <2>1 DEF Syncs
  <2>3. \/ FailingSave(g, e, "failed", IF s.tries + 1 = MaxRetry THEN on ELSE again)
        \/ FailingSave(g, e, "failed", on)
        \/ FailingSave(g, e, "failed", aborted)
    BY <1>17 DEF RequestFails
  <2> HIDE DEF on, again, aborted
  <2>4. \E t \in {on, again, aborted, [NoSync EXCEPT !.pc = "broken"]} : Synced(g, e, t)
    BY <2>3, SaveSyncs
  <2> QED
    BY <1>1, <2>1, <2>2, <2>4, NoSyncs
<1>18. ASSUME NEW g \in Engines, NEW e \in Endpoints, ListAgain(g, e)
      PROVE  HasRequest'
  BY <1>18, <1>2 DEF ListAgain, SyncLabels
<1>19. ASSUME NEW g \in Engines, NEW e \in Endpoints, ReportInSync(g, e)
      PROVE  HasRequest'
  BY <1>19, <1>2 DEF ReportInSync, SyncLabels
<1>20. ASSUME NEW g \in Engines, NEW e \in Endpoints, SyncBreaks(g, e)
      PROVE  HasRequest'
  BY <1>20, <1>2 DEF SyncBreaks, SyncLabels
<1>21. ASSUME NEW g \in Engines, NEW e \in Endpoints, EndSync(g, e)
      PROVE  HasRequest'
  BY <1>21, <1>2 DEF EndSync, SyncLabels
<1>22. ASSUME NEW g \in Engines, NEW e \in Endpoints, StartAudit(g, e)
      PROVE  HasRequest'
  BY <1>22, <1>3 DEF StartAudit
<1>23. ASSUME NEW g \in Engines, NEW e \in Endpoints, ReleaseAudit(g, e)
      PROVE  HasRequest'
  BY <1>23, <1>3 DEF ReleaseAudit
<1>24. ASSUME NEW g \in Engines, NEW e \in Endpoints, BeginAudit(g, e)
      PROVE  HasRequest'
  BY <1>24, <1>3 DEF BeginAudit
<1>25. ASSUME NEW g \in Engines, NEW e \in Endpoints, ReadFailed(g, e)
      PROVE  HasRequest'
  BY <1>25, <1>3 DEF ReadFailed
<1>26. ASSUME NEW g \in Engines, NEW e \in Endpoints, ReadPending(g, e)
      PROVE  HasRequest'
  BY <1>26, <1>3 DEF ReadPending
<1>27. ASSUME NEW g \in Engines, NEW e \in Endpoints, FetchSubcloud(g, e)
      PROVE  HasRequest'
  BY <1>27, <1>3 DEF FetchSubcloud
<1>28. ASSUME NEW g \in Engines, NEW e \in Endpoints, CompareMaster(g, e)
      PROVE  HasRequest'
  BY <1>28, <1>3 DEF CompareMaster
<1>29. ASSUME NEW g \in Engines, NEW e \in Endpoints, ScheduleWork(g, e)
      PROVE  HasRequest'
  BY <1>29, <1>3 DEF ScheduleWork
<1>30. ASSUME NEW g \in Engines, NEW e \in Endpoints, AuditReturns(g, e)
      PROVE  HasRequest'
  BY <1>30, <1>3 DEF AuditReturns
<1>31. ASSUME NEW g \in Engines, NEW e \in Endpoints, AuditSkips(g, e)
      PROVE  HasRequest'
  BY <1>31, <1>3 DEF AuditSkips
<1>32. ASSUME NEW g \in Engines, NEW e \in Endpoints, DropFailed(g, e)
      PROVE  HasRequest'
  BY <1>32, <1>3 DEF DropFailed
<1>33. ASSUME NEW g \in Engines, NEW e \in Endpoints, ReportFindings(g, e)
      PROVE  HasRequest'
  BY <1>33, <1>3 DEF ReportFindings
<1>34. ASSUME NEW g \in Engines, NEW e \in Endpoints, RequestSync(g, e)
      PROVE  HasRequest'
  BY <1>34, <1>3 DEF RequestSync
<1>35. ASSUME NEW g \in Engines, NEW e \in Endpoints, AuditBreaks(g, e)
      PROVE  HasRequest'
  BY <1>35, <1>3 DEF AuditBreaks
<1>36. ASSUME NEW g \in Engines, NEW e \in Endpoints, EndAudit(g, e)
      PROVE  HasRequest'
  BY <1>36, <1>3 DEF EndAudit
<1>37. ASSUME NEW e \in Endpoints, Outage(e)
      PROVE  HasRequest'
  BY <1>37, <1>3 DEF Outage, engineVars
<1>38. ASSUME NEW e \in Endpoints, Recover(e)
      PROVE  HasRequest'
  BY <1>38, <1>3 DEF Recover, engineVars
<1>39. ASSUME NEW g \in Engines, Restart(g)
      PROVE  HasRequest'
  BY <1>39, NoSyncs DEF Restart, HasRequest, TypeOK
<1>40. ASSUME PurgeLocks
      PROVE  HasRequest'
  BY <1>40, <1>3 DEF PurgeLocks
<1>41. CASE UNCHANGED vars
  BY <1>41, <1>3 DEF vars, engineVars
<1> QED
  BY <1>4, <1>5, <1>6, <1>7, <1>8, <1>9, <1>10, <1>11, <1>12, <1>13,
     <1>14, <1>15, <1>16, <1>17, <1>18, <1>19, <1>20, <1>21, <1>22, <1>23,
     <1>24, <1>25, <1>26, <1>27, <1>28, <1>29, <1>30, <1>31, <1>32, <1>33,
     <1>34, <1>35, <1>36, <1>37, <1>38, <1>39, <1>40, <1>41
     DEF Next, ProxyProgress, SyncProgress, AuditProgress

THEOREM TypesCorrect == Spec => []TypeOK
<1>1. Init => TypeOK /\ HasRequest
  <2> SUFFICES ASSUME Init
               PROVE  TypeOK /\ HasRequest
    OBVIOUS
  <2>1. TypeOK
    BY LocalsTypes DEF Init, TypeOK
  <2>2. HasRequest
    BY NoSyncs DEF Init, HasRequest
  <2> QED
    BY <2>1, <2>2
<1>2. TypeOK /\ HasRequest /\ [Next]_vars => TypeOK' /\ HasRequest'
  BY TypeStep, HasRequestStep
<1> QED
  BY <1>1, <1>2, PTL DEF Spec

-------------------------------------------------------------------------------
(* The order of the requests.                                              *)

(* The requests still to be tried.                                         *)
Waiting(e) ==
  {i \in Ids : rows[i].ep = e /\ rows[i].state \in {"queued", "in-progress"}}

InUse(i) == rows[i] # NoRequest

(* Ids are handed out in order.                                            *)
Dense == \A i, j \in Ids : InUse(j) /\ i < j => InUse(i)

(* Nothing that waits is older than what the subcloud has.                 *)
EndpointOrder(e) ==
  /\ have[e] # 0 => InUse(have[e])
  /\ \A i \in Waiting(e) : have[e] <= i

(* From its first read on a sync has everything that waits on its list, or *)
(* behind it, and nothing on it is older than what the subcloud has.       *)
Trying(g, e) == syncer[g][e].pc \in {"report out", "next", "apply", "save"}

SyncOrder(g, e) == Trying(g, e) =>
  /\ \A i \in syncer[g][e].todo : InUse(i) /\ rows[i].ep = e /\ have[e] <= i
  /\ \A j \in Waiting(e) : \/ j \in syncer[g][e].todo
                           \/ \A i \in syncer[g][e].todo : i < j

InOrder ==
  /\ Dense
  /\ \A e \in Endpoints : EndpointOrder(e)
  /\ \A g \in Engines, e \in Endpoints : SyncOrder(g, e)

SingleEngine == \A g, h \in Engines : g = h

OrderInv == TypeOK /\ HasRequest /\ InOrder

(* What waits is what a sync puts on its list.                             *)
LEMMA WaitingIsListed ==
  ASSUME NEW e
  PROVE  Waiting(e) = Pending(e) \ Failed
BY DEF Waiting, Pending, Failed, PendingStates

(* A step of the sync of one endpoint keeps the order when it keeps the    *)
(* rows of the others, and the order at its own.                           *)
LEMMA OrderFrame ==
  ASSUME OrderInv, SingleEngine, NEW g \in Engines, NEW e \in Endpoints,
         NEW s, Synced(g, e, s),
         \A i \in Ids : (InUse(i))' <=> InUse(i),
         \A i \in Ids : rows'[i].ep = rows[i].ep,
         \A f \in Endpoints \ {e} : have'[f] = have[f] /\ (Waiting(f))' = Waiting(f),
         EndpointOrder(e)', SyncOrder(g, e)'
  PROVE  InOrder'
<1>1. Dense'
  BY DEF OrderInv, InOrder, Dense
<1>2. ASSUME NEW f \in Endpoints, f # e
      PROVE  EndpointOrder(f)'
  <2>1. EndpointOrder(f) /\ have[f] \in {0} \cup Ids
    BY DEF OrderInv, InOrder, TypeOK
  <2> QED
    BY <1>2, <2>1 DEF EndpointOrder
<1>3. ASSUME NEW f \in Endpoints, f # e
      PROVE  SyncOrder(g, f)'
  <2>1. SyncOrder(g, f) /\ syncer'[g][f] = syncer[g][f] /\ syncer[g][f].todo \subseteq Ids
    BY <1>3, SyncFrame DEF OrderInv, InOrder, TypeOK, Syncs
  <2> QED
    BY <1>3, <2>1 DEF SyncOrder, Trying
<1> QED
  BY <1>1, <1>2, <1>3 DEF InOrder, SingleEngine

(* A sync that tries nothing any more has no order to keep.                *)
LEMMA OrderEnds ==
  ASSUME OrderInv, SingleEngine, NEW g \in Engines, NEW e \in Endpoints,
         NEW s, Synced(g, e, s), s.pc \notin {"report out", "next", "apply", "save"},
         UNCHANGED <<rows, have>>
  PROVE  InOrder'
<1>1. syncer'[g][e].pc \notin {"report out", "next", "apply", "save"}
  BY SyncFrame DEF OrderInv
<1>2. SyncOrder(g, e)'
  BY <1>1 DEF SyncOrder, Trying
<1>3. EndpointOrder(e)'
  BY DEF OrderInv, InOrder, EndpointOrder, Waiting, InUse
<1>4. \A f \in Endpoints : (Waiting(f))' = Waiting(f)
  BY DEF Waiting
<1>5. \A i \in Ids : (InUse(i))' <=> InUse(i)
  BY DEF InUse
<1> QED
  BY <1>2, <1>3, <1>4, <1>5, OrderFrame

(* A step of nothing that the order speaks of.                              *)
LEMMA OrderStays ==
  ASSUME OrderInv, UNCHANGED <<rows, have, syncer>>
  PROVE  InOrder'
BY DEF OrderInv, InOrder, Dense, EndpointOrder, SyncOrder, Trying, Waiting, InUse

(* A new row comes after all that are in use.                              *)
LEMMA EnqueueOrder ==
  ASSUME OrderInv, NEW f \in Endpoints, NEW v, Enqueue(f, v), UNCHANGED <<have, syncer>>
  PROVE  InOrder'
<1> DEFINE unused == {i \in Ids : rows[i] = NoRequest}
           k == First(unused)
           new == [ep |-> f, val |-> v, state |-> "queued"]
<1>1. k \in Ids /\ ~InUse(k) /\ \A i \in Ids : ~InUse(i) => k <= i
  BY FirstIsLeast DEF Enqueue, InUse
<1>2. rows' = [rows EXCEPT ![k] = new]
  BY DEF Enqueue
<1> HIDE DEF k
<1>3. \A i \in Ids : InUse(i) => i < k
  BY <1>1, IdsAreNaturals DEF OrderInv, InOrder, Dense
<1>4. \A i \in Ids : (InUse(i))' <=> InUse(i) \/ i = k
  <2>1. new # NoRequest
    BY DEF NoRequest
  <2> QED
    BY <1>1, <1>2, <2>1 DEF InUse, OrderInv, TypeOK
<1>5. \A i \in Ids : i # k => rows'[i] = rows[i]
  BY <1>2 DEF OrderInv, TypeOK
<1>6. Dense'
  <2> SUFFICES ASSUME NEW i \in Ids, NEW j \in Ids, InUse(j)', i < j
               PROVE  InUse(i)'
    BY DEF Dense
  <2>1. CASE j = k
    BY <1>1, <1>4, <2>1, IdsAreNaturals
  <2>2. CASE j # k
    BY <1>4, <2>2 DEF OrderInv, InOrder, Dense
  <2> QED
    BY <2>1, <2>2
<1>7. ASSUME NEW e \in Endpoints
      PROVE  (Waiting(e))' \subseteq Waiting(e) \cup {k}
  BY <1>5 DEF Waiting
<1>8. ASSUME NEW e \in Endpoints
      PROVE  EndpointOrder(e)'
  <2>1. have' = have /\ have[e] \in {0} \cup Ids
    BY DEF OrderInv, TypeOK
  <2>2. have[e] # 0 => InUse(have[e])
    BY DEF OrderInv, InOrder, EndpointOrder
  <2>3. \A i \in Waiting(e) : have[e] <= i
    BY DEF OrderInv, InOrder, EndpointOrder
  <2>4. have[e] <= k
    <3>1. CASE have[e] = 0
      BY <1>1, <3>1, IdsAreNaturals
    <3>2. CASE have[e] \in Ids /\ have[e] < k
      <4>1. k \in Nat /\ have[e] \in Nat
        BY <1>1, <3>2, IdsAreNaturals
      <4> QED
        BY <3>2, <4>1
    <3> QED
      BY <1>3, <2>1, <2>2, <3>1, <3>2
  <2>5. (have[e] # 0 => InUse(have[e]))'
    BY <1>4, <2>1, <2>2
  <2>6. (\A i \in Waiting(e) : have[e] <= i)'
    BY <1>7, <2>1, <2>3, <2>4
  <2> QED
    BY <2>5, <2>6 DEF EndpointOrder
<1>9. ASSUME NEW g \in Engines, NEW e \in Endpoints
      PROVE  SyncOrder(g, e)'
  <2>1. SyncOrder(g, e) /\ syncer[g][e].todo \subseteq Ids
    BY DEF OrderInv, InOrder, TypeOK, Syncs
  <2> SUFFICES ASSUME Trying(g, e)
               PROVE  /\ \A i \in syncer[g][e].todo :
                            InUse(i)' /\ rows'[i].ep = e /\ have[e] <= i
                      /\ \A j \in (Waiting(e))' : \/ j \in syncer[g][e].todo
                                                  \/ \A i \in syncer[g][e].todo : i < j
    BY DEF SyncOrder, Trying
  <2>2. \A i \in syncer[g][e].todo : InUse(i) /\ rows[i].ep = e /\ have[e] <= i /\ i # k
    BY <1>1, <2>1 DEF SyncOrder
  <2>3. \A i \in syncer[g][e].todo : InUse(i)' /\ rows'[i].ep = e /\ have[e] <= i
    BY <1>4, <1>5, <2>1, <2>2
  <2>4. \A i \in syncer[g][e].todo : i < k
    BY <1>3, <2>1, <2>2
  <2>5. \A j \in (Waiting(e))' : \/ j \in syncer[g][e].todo
                                 \/ \A i \in syncer[g][e].todo : i < j
    BY <1>7, <2>1, <2>4 DEF SyncOrder
  <2> QED
    BY <2>3, <2>5
<1> QED
  BY <1>6, <1>8, <1>9 DEF InOrder

(* Saving the state of a row moves this row alone, and keeps it in use.    *)
LEMMA SavedRows ==
  ASSUME TypeOK, NEW i \in Ids, rows[i].state \in PendingStates,
         NEW s \in RequestStates, SaveState(i, s)
  PROVE  /\ \A j \in Ids : (InUse(j))' <=> InUse(j)
         /\ \A j \in Ids : rows'[j].ep = rows[j].ep
         /\ \A j \in Ids : j # i => rows'[j] = rows[j]
         /\ rows'[i].state = s
<1>1. rows[i] \in Requests \ {NoRequest}
  BY DEF TypeOK, NoRequest, PendingStates
<1>2. rows'[i] = [rows[i] EXCEPT !.state = s] /\ \A j \in Ids : j # i => rows'[j] = rows[j]
  BY DEF SaveState, TypeOK
<1>3. rows'[i].ep = rows[i].ep /\ rows'[i].state = s
  BY <1>1, <1>2 DEF Requests
<1>4. rows'[i] # NoRequest
  BY <1>3 DEF NoRequest, RequestStates, PendingStates
<1> QED
  BY <1>1, <1>2, <1>3, <1>4 DEF InUse

(* Dropping failed requests keeps what waits.                              *)
LEMMA DropOrder ==
  ASSUME OrderInv, NEW g \in Engines, NEW e \in Endpoints, DropFailed(g, e)
  PROVE  InOrder'
<1> DEFINE drop == auditor[g][e].old \cap Failed
<1>1. \A i \in Ids : rows'[i] = IF i \in drop THEN [rows[i] EXCEPT !.state = "dropped"]
                               ELSE rows[i]
  BY DEF DropFailed
<1>2. ASSUME NEW i \in Ids
      PROVE  /\ rows'[i].ep = rows[i].ep
             /\ InUse(i)' <=> InUse(i)
             /\ rows'[i].state \in {"queued", "in-progress"}
                  <=> rows[i].state \in {"queued", "in-progress"}
  <2>1. CASE i \in drop
    <3>1. rows[i] \in Requests \ {NoRequest} /\ rows[i].state = "failed"
      BY <2>1 DEF OrderInv, TypeOK, Failed, NoRequest
    <3>2. rows'[i].ep = rows[i].ep /\ rows'[i].state = "dropped"
      BY <1>1, <2>1, <3>1 DEF Requests
    <3>3. rows'[i] # NoRequest
      BY <3>2 DEF NoRequest
    <3> QED
      BY <3>1, <3>2, <3>3 DEF InUse
  <2>2. CASE i \notin drop
    BY <1>1, <2>2 DEF InUse
  <2> QED
    BY <2>1, <2>2
<1>3. have' = have /\ syncer' = syncer
  BY DEF DropFailed
<1>4. \A f \in Endpoints : (Waiting(f))' = Waiting(f)
  BY <1>2 DEF Waiting
<1>5. Dense'
  BY <1>2 DEF OrderInv, InOrder, Dense
<1>6. ASSUME NEW f \in Endpoints
      PROVE  EndpointOrder(f)'
  <2>1. EndpointOrder(f) /\ have[f] \in {0} \cup Ids
    BY DEF OrderInv, InOrder, TypeOK
  <2> QED
    BY <1>2, <1>3, <1>4, <2>1 DEF EndpointOrder
<1>7. ASSUME NEW h \in Engines, NEW f \in Endpoints
      PROVE  SyncOrder(h, f)'
  <2>1. SyncOrder(h, f) /\ syncer[h][f].todo \subseteq Ids
    BY DEF OrderInv, InOrder, TypeOK, Syncs
  <2> QED
    BY <1>2, <1>3, <1>4, <2>1 DEF SyncOrder, Trying
<1> QED
  BY <1>5, <1>6, <1>7 DEF InOrder

(* The list that a sync reads.                                             *)
LEMMA ListOrder ==
  ASSUME OrderInv, SingleEngine, NEW g \in Engines, NEW e \in Endpoints, ListRequests(g, e)
  PROVE  InOrder'
<1> DEFINE t == [syncer[g][e] EXCEPT !.todo = Pending(e) \ Failed,
                                     !.pc = IF Pending(e) = {} THEN "report in"
                                            ELSE "report out"]
<1>1. Synced(g, e, t)
  BY DEF ListRequests
<1>2. syncer[g][e] \in Syncs
  BY LocalsTyped DEF OrderInv
<1>3. t.todo = Waiting(e)
  BY <1>2, WaitingIsListed DEF Syncs
<1> HIDE DEF t
<1>4. UNCHANGED <<rows, have>>
  BY DEF ListRequests, dataVars
<1>5. syncer'[g][e].todo = Waiting(e) /\ (Waiting(e))' = Waiting(e)
  BY <1>1, <1>3, <1>4, SyncFrame DEF OrderInv, Waiting
<1>6. \A i \in Waiting(e) : InUse(i) /\ rows[i].ep = e /\ have[e] <= i
  <2>1. \A i \in Waiting(e) : rows[i].ep = e /\ InUse(i)
    BY DEF Waiting, InUse, NoRequest
  <2> QED
    BY <2>1 DEF OrderInv, InOrder, EndpointOrder
<1>7. SyncOrder(g, e)'
  BY <1>4, <1>5, <1>6 DEF SyncOrder, InUse
<1>8. EndpointOrder(e)'
  BY <1>4 DEF OrderInv, InOrder, EndpointOrder, Waiting, InUse
<1>9. /\ \A i \in Ids : (InUse(i))' <=> InUse(i)
      /\ \A f \in Endpoints : (Waiting(f))' = Waiting(f)
  BY <1>4 DEF InUse, Waiting
<1> QED
  BY <1>1, <1>4, <1>7, <1>8, <1>9, OrderFrame

(* A sync that goes on with its list, the rows and the subcloud being as   *)
(* they are, but for requests it leaves behind that do not wait.           *)
LEMMA OrderGoesOn ==
  ASSUME OrderInv, SingleEngine, NEW g \in Engines, NEW e \in Endpoints,
         Trying(g, e), NEW s, Synced(g, e, s),
         s.todo \subseteq syncer[g][e].todo,
         \A j \in Waiting(e) \cap (syncer[g][e].todo \ s.todo) : FALSE,
         UNCHANGED <<rows, have>>
  PROVE  InOrder'
<1>1. SyncOrder(g, e)
  BY DEF OrderInv, InOrder
<1>2. syncer'[g][e].todo = s.todo
  BY SyncFrame DEF OrderInv
<1>3. /\ \A f \in Endpoints : (Waiting(f))' = Waiting(f)
      /\ \A i : (InUse(i))' <=> InUse(i)
  BY DEF Waiting, InUse
<1>4. SyncOrder(g, e)'
  BY <1>1, <1>2, <1>3 DEF SyncOrder
<1>5. EndpointOrder(e)'
  BY DEF OrderInv, InOrder, EndpointOrder, Waiting, InUse
<1> QED
  BY <1>3, <1>4, <1>5, OrderFrame

(* For the leaves that the order of two ids is all there is to.             *)
LEMMA LessIsAtMost == \A m, n \in Nat : m < n => m <= n
OBVIOUS

(* A request that is saved by the sync that has it on its list.            *)
LEMMA OrderSaved ==
  ASSUME OrderInv, SingleEngine, NEW g \in Engines, NEW e \in Endpoints,
         Trying(g, e), NEW i \in syncer[g][e].todo, rows[i].state \in PendingStates,
         NEW state \in RequestStates, SaveState(i, state),
         NEW s, Synced(g, e, s),
         \A j \in syncer[g][e].todo : i <= j,
         have'[e] \in {have[e], i}, \A f \in Endpoints \ {e} : have'[f] = have[f],
         \/ s.todo = syncer[g][e].todo
         \/ s.todo = syncer[g][e].todo \ {i} /\ state \notin {"queued", "in-progress"}
         \/ s.pc \notin {"report out", "next", "apply", "save"}
  PROVE  InOrder'
<1>1. /\ SyncOrder(g, e)
      /\ EndpointOrder(e)
      /\ syncer[g][e].todo \subseteq Ids
      /\ have[e] \in {0} \cup Ids
  <2>1. SyncOrder(g, e) /\ EndpointOrder(e)
    BY DEF OrderInv, InOrder
  <2>2. syncer[g][e] \in Syncs /\ have[e] \in {0} \cup Ids
    BY LocalsTyped DEF OrderInv
  <2>3. syncer[g][e].todo \subseteq Ids
    BY <2>2 DEF Syncs
  <2> QED
    BY <2>1, <2>2, <2>3
<1>2. \A j \in syncer[g][e].todo : InUse(j) /\ rows[j].ep = e /\ have[e] <= j
  BY <1>1 DEF SyncOrder
<1>3. /\ \A j \in Ids : (InUse(j))' <=> InUse(j)
      /\ \A j \in Ids : rows'[j].ep = rows[j].ep
      /\ \A j \in Ids : j # i => rows'[j] = rows[j]
      /\ rows'[i].state = state
  BY <1>1, SavedRows DEF OrderInv
<1>4. \A f \in Endpoints \ {e} : have'[f] = have[f] /\ (Waiting(f))' = Waiting(f)
  <2> SUFFICES ASSUME NEW f \in Endpoints \ {e}
               PROVE  have'[f] = have[f] /\ (Waiting(f))' = Waiting(f)
    OBVIOUS
  <2>1. (Waiting(f))' = Waiting(f)
    BY <1>1, <1>2, <1>3 DEF Waiting
  <2> QED
    BY <2>1
<1>5. (Waiting(e))' \subseteq Waiting(e) \cup {i}
  BY <1>3 DEF Waiting
<1>6. \A j \in Waiting(e) : i <= j
  <2> SUFFICES ASSUME NEW j \in Waiting(e)
               PROVE  i <= j
    OBVIOUS
  <2>1. i \in Nat /\ j \in Nat
    BY <1>1, IdsAreNaturals DEF Waiting
  <2>2. j \in syncer[g][e].todo \/ i < j
    BY <1>1 DEF SyncOrder
  <2>3. CASE j \in syncer[g][e].todo
    BY <2>3
  <2> QED
    BY <2>1, <2>2, <2>3, LessIsAtMost, Zenon
<1>7. have'[e] = have[e] \/ have'[e] = i
  OBVIOUS
<1>8. EndpointOrder(e)'
  <2>1. (have[e] # 0 => InUse(have[e]))'
    <3>1. CASE have'[e] = have[e]
      <4>1. have[e] # 0 => InUse(have[e]) /\ have[e] \in Ids
        BY <1>1 DEF EndpointOrder
      <4> QED
        BY <1>3, <3>1, <4>1
    <3>2. CASE have'[e] = i
      BY <1>1, <1>2, <1>3, <3>2
    <3> QED
      BY <1>7, <3>1, <3>2
  <2>2. \A j \in Waiting(e) \cup {i} : have[e] <= j /\ i <= j
    BY <1>1, <1>2, <1>6 DEF EndpointOrder, Ids
  <2>3. (\A j \in Waiting(e) : have[e] <= j)'
    BY <1>5, <1>7, <2>2
  <2> QED
    BY <2>1, <2>3 DEF EndpointOrder
<1>9. SyncOrder(g, e)'
  <2>1. syncer'[g][e] = s
    BY SyncFrame DEF OrderInv
  <2>2. CASE s.pc \notin {"report out", "next", "apply", "save"}
    BY <2>1, <2>2 DEF SyncOrder, Trying
  <2>3. CASE \/ s.todo = syncer[g][e].todo
             \/ s.todo = syncer[g][e].todo \ {i} /\ state \notin {"queued", "in-progress"}
    <3>1. \A j \in s.todo : InUse(j)' /\ rows'[j].ep = e /\ have'[e] <= j
      <4>1. \A j \in s.todo : j \in Ids /\ InUse(j) /\ rows[j].ep = e /\ have[e] <= j /\ i <= j
        BY <1>1, <1>2, <2>3
      <4> QED
        BY <1>3, <1>7, <4>1
    <3>2. i \in (Waiting(e))' => i \in s.todo
      BY <1>3, <2>3 DEF Waiting
    <3>3. ASSUME NEW j \in (Waiting(e))', j \notin s.todo
          PROVE  \A k \in s.todo : k < j
      <4>1. j # i /\ j \in Waiting(e)
        BY <1>5, <3>2, <3>3
      <4>2. j \notin syncer[g][e].todo
        BY <2>3, <3>3, <4>1
      <4> QED
        BY <1>1, <2>3, <4>1, <4>2 DEF SyncOrder
    <3> QED
      BY <2>1, <3>1, <3>3 DEF SyncOrder
  <2> QED
    BY <2>2, <2>3
<1> QED
  BY <1>3, <1>4, <1>8, <1>9, OrderFrame

(* A request that reaches the subcloud, or may have, the rows being as they *)
(* are.                                                                    *)
LEMMA OrderApplied ==
  ASSUME OrderInv, SingleEngine, NEW g \in Engines, NEW e \in Endpoints,
         Trying(g, e), NEW i \in syncer[g][e].todo,
         NEW s, Synced(g, e, s), UNCHANGED rows,
         \A j \in syncer[g][e].todo : i <= j,
         have'[e] \in {have[e], i}, \A f \in Endpoints \ {e} : have'[f] = have[f],
         \/ s.todo = syncer[g][e].todo
         \/ s.pc \notin {"report out", "next", "apply", "save"}
  PROVE  InOrder'
<1>1. SyncOrder(g, e) /\ EndpointOrder(e)
  BY DEF OrderInv, InOrder
<1>2. syncer[g][e].todo \subseteq Ids
  <2>1. syncer[g][e] \in Syncs
    BY LocalsTyped DEF OrderInv
  <2> QED
    BY <2>1 DEF Syncs
<1>3. /\ \A f \in Endpoints : (Waiting(f))' = Waiting(f)
      /\ \A j \in Ids : (InUse(j))' <=> InUse(j)
  BY DEF Waiting, InUse
<1>4. \A j \in syncer[g][e].todo : InUse(j) /\ rows[j].ep = e /\ have[e] <= j
  BY <1>1 DEF SyncOrder
<1>5. \A j \in Waiting(e) : i <= j
  <2> SUFFICES ASSUME NEW j \in Waiting(e)
               PROVE  i <= j
    OBVIOUS
  <2>1. i \in Nat /\ j \in Nat
    BY <1>2, IdsAreNaturals DEF Waiting
  <2>2. j \in syncer[g][e].todo \/ i < j
    BY <1>1 DEF SyncOrder
  <2>3. CASE j \in syncer[g][e].todo
    BY <2>3
  <2> QED
    BY <2>1, <2>2, <2>3, LessIsAtMost, Zenon
<1>6. EndpointOrder(e)'
  <2>1. (have[e] # 0 => InUse(have[e]))'
    <3>1. CASE have'[e] = have[e]
      <4>1. have[e] # 0 => InUse(have[e])
        BY <1>1 DEF EndpointOrder
      <4> QED
        BY <3>1, <4>1 DEF InUse
    <3>2. CASE have'[e] = i
      <4>1. InUse(i)
        BY <1>4
      <4> QED
        BY <3>2, <4>1 DEF InUse
    <3> QED
      BY <3>1, <3>2
  <2>2. \A j \in Waiting(e) : have[e] <= j /\ i <= j
    BY <1>1, <1>5 DEF EndpointOrder
  <2>3. (\A j \in Waiting(e) : have[e] <= j)'
    BY <1>3, <2>2
  <2> QED
    BY <2>1, <2>3 DEF EndpointOrder
<1>7. SyncOrder(g, e)'
  <2>1. syncer'[g][e] = s
    BY SyncFrame DEF OrderInv
  <2>2. CASE s.pc \notin {"report out", "next", "apply", "save"}
    BY <2>1, <2>2 DEF SyncOrder, Trying
  <2>3. CASE s.todo = syncer[g][e].todo
    <3>1. \A j \in s.todo : InUse(j)' /\ rows'[j].ep = e /\ have'[e] <= j
      BY <1>2, <1>3, <1>4, <2>3
    <3>2. \A j \in (Waiting(e))' : \/ j \in s.todo
                                   \/ \A k \in s.todo : k < j
      BY <1>1, <1>3, <2>3 DEF SyncOrder
    <3> QED
      BY <2>1, <3>1, <3>2 DEF SyncOrder
  <2> QED
    BY <2>2, <2>3
<1> QED
  BY <1>3, <1>6, <1>7, OrderFrame

(* The request that a sync takes first.                                    *)
LEMMA EarliestOnList ==
  ASSUME TypeOK, NEW g \in Engines, NEW e \in Endpoints, syncer[g][e].todo # {}
  PROVE  /\ First(syncer[g][e].todo) \in syncer[g][e].todo
         /\ First(syncer[g][e].todo) \in Ids
         /\ \A j \in syncer[g][e].todo : First(syncer[g][e].todo) <= j
<1>1. syncer[g][e] \in Syncs
  BY LocalsTyped
<1>2. syncer[g][e].todo \in SUBSET Ids
  BY <1>1 DEF Syncs
<1> QED
  BY <1>2, FirstIsLeast

(* A sync that goes to a label at which it tries nothing.                  *)
LEMMA OrderLeaves ==
  ASSUME OrderInv, SingleEngine, NEW g \in Engines, NEW e \in Endpoints,
         NEW l \in SyncLabels \ {"report out", "next", "apply", "save"},
         SyncGoto(g, e, l) \/ SyncEnds(g, e, l),
         UNCHANGED <<rows, have>>
  PROVE  InOrder'
<1> DEFINE s == [syncer[g][e] EXCEPT !.pc = l]
           t == [NoSync EXCEPT !.pc = l]
<1>1. s.pc = l /\ t.pc = l
  <2>1. syncer[g][e] \in Syncs
    BY LocalsTyped DEF OrderInv
  <2> QED
    BY <2>1, NoSyncs DEF Syncs
<1>2. Synced(g, e, s) \/ Synced(g, e, t)
  BY SyncFrame DEF OrderInv
<1> HIDE DEF s, t
<1> QED
  BY <1>1, <1>2, OrderEnds

(* Reporting, before the first request is tried.                           *)
LEMMA ReportOrder ==
  ASSUME OrderInv, SingleEngine, NEW g \in Engines, NEW e \in Endpoints,
         ReportOutOfSync(g, e)
  PROVE  InOrder'
<1>1. UNCHANGED <<rows, have>>
  BY DEF ReportOutOfSync, dataVars
<1>2. CASE SyncEnds(g, e, "end")
  BY <1>1, <1>2, OrderLeaves DEF SyncLabels
<1>3. CASE SyncGoto(g, e, "next")
  <2> DEFINE s == [syncer[g][e] EXCEPT !.pc = "next"]
  <2>1. syncer[g][e] \in Syncs
    BY LocalsTyped DEF OrderInv
  <2>2. s.todo = syncer[g][e].todo
    BY <2>1 DEF Syncs
  <2>3. Synced(g, e, s)
    BY <1>3, SyncFrame DEF OrderInv
  <2>4. Trying(g, e)
    BY DEF ReportOutOfSync, Trying
  <2> HIDE DEF s
  <2> QED
    BY <1>1, <2>2, <2>3, <2>4, OrderGoesOn
<1> QED
  BY <1>2, <1>3 DEF ReportOutOfSync

(* Marking the first request, or passing it over.                           *)
LEMMA NextOrder ==
  ASSUME OrderInv, SingleEngine, NEW g \in Engines, NEW e \in Endpoints,
         NextRequest(g, e)
  PROVE  InOrder'
<1> DEFINE s == syncer[g][e]
           i == First(s.todo)
<1>1. s \in Syncs /\ TypeOK
  BY DEF OrderInv, TypeOK
<1>2. have' = have /\ Trying(g, e)
  BY DEF NextRequest, Trying
<1>3. CASE s.todo = {} \/ ~Enabled(e)
  <2> DEFINE t == [s EXCEPT !.pc = "relist", !.todo = {}, !.tries = 0]
  <2>1. Synced(g, e, t) /\ UNCHANGED rows
    BY <1>3 DEF NextRequest
  <2>2. t.pc = "relist"
    BY <1>1 DEF Syncs
  <2> HIDE DEF t
  <2> QED
    BY <1>2, <2>1, <2>2, OrderEnds
<1>4. CASE s.todo # {} /\ Enabled(e) /\ rows[i].state \in PendingStates
  <2> DEFINE t == [s EXCEPT !.pc = "apply"]
  <2>1. SaveState(i, "in-progress") /\ SyncGoto(g, e, "apply")
    BY <1>4 DEF NextRequest
  <2>2. Synced(g, e, t)
    BY <1>1, <2>1, SyncFrame
  <2>3. t.todo = s.todo
    BY <1>1 DEF Syncs
  <2>4. i \in s.todo /\ \A j \in s.todo : i <= j
    BY <1>1, <1>4, EarliestOnList
  <2>5. "in-progress" \in RequestStates
    BY DEF RequestStates, PendingStates
  <2> HIDE DEF t, i
  <2> QED
    BY <1>2, <1>4, <2>1, <2>2, <2>3, <2>4, <2>5, OrderSaved
<1>5. CASE s.todo # {} /\ Enabled(e) /\ rows[i].state \notin PendingStates
  <2> DEFINE t == [s EXCEPT !.todo = @ \ {i}]
  <2>1. Synced(g, e, t) /\ UNCHANGED rows
    BY <1>5 DEF NextRequest
  <2>2. t.todo = s.todo \ {i}
    BY <1>1 DEF Syncs
  <2>3. i \notin Waiting(e)
    BY <1>5 DEF Waiting, PendingStates
  <2> HIDE DEF t, i
  <2> QED
    BY <1>2, <2>1, <2>2, <2>3, OrderGoesOn
<1> QED
  BY <1>3, <1>4, <1>5

(* The first request reaches the subcloud.                                  *)
LEMMA ApplyOrder ==
  ASSUME OrderInv, SingleEngine, NEW g \in Engines, NEW e \in Endpoints,
         ApplyRequest(g, e)
  PROVE  InOrder'
<1> DEFINE i == First(syncer[g][e].todo)
           t == [syncer[g][e] EXCEPT !.pc = "save"]
<1>1. syncer[g][e] \in Syncs /\ TypeOK
  BY DEF OrderInv, TypeOK
<1>2. Trying(g, e) /\ syncer[g][e].todo # {}
  BY DEF OrderInv, HasRequest, ApplyRequest, Trying
<1>3. i \in syncer[g][e].todo /\ \A j \in syncer[g][e].todo : i <= j
  BY <1>1, <1>2, EarliestOnList
<1>4. t.todo = syncer[g][e].todo
  BY <1>1 DEF Syncs
<1>5. Synced(g, e, t)
  BY <1>1, SyncFrame DEF ApplyRequest
<1>6. have'[e] \in {have[e], i} /\ \A f \in Endpoints \ {e} : have'[f] = have[f]
  BY <1>1 DEF ApplyRequest, TypeOK
<1>7. UNCHANGED rows
  BY DEF ApplyRequest
<1> HIDE DEF i, t
<1> QED
  BY <1>2, <1>3, <1>4, <1>5, <1>6, <1>7, OrderApplied

(* The first request is completed.                                          *)
LEMMA CompleteOrder ==
  ASSUME OrderInv, SingleEngine, NEW g \in Engines, NEW e \in Endpoints,
         CompleteRequest(g, e)
  PROVE  InOrder'
<1> DEFINE s == syncer[g][e]
           i == First(s.todo)
           t == [s EXCEPT !.pc = "next", !.todo = @ \ {i}, !.tries = 0]
<1>1. s \in Syncs /\ TypeOK
  BY DEF OrderInv, TypeOK
<1>2. Trying(g, e) /\ s.todo # {}
  BY DEF OrderInv, HasRequest, CompleteRequest, Trying
<1>3. i \in s.todo /\ \A j \in s.todo : i <= j
  BY <1>1, <1>2, EarliestOnList
<1>4. t.todo = s.todo \ {i}
  BY <1>1 DEF Syncs
<1>5. Synced(g, e, t) /\ UNCHANGED have
  BY DEF CompleteRequest
<1>6. CASE rows[i].state \in PendingStates
  <2>1. SaveState(i, "completed")
    BY <1>6 DEF CompleteRequest
  <2>2. "completed" \in RequestStates
    BY DEF RequestStates
  <2> HIDE DEF i, t
  <2> QED
    BY <1>2, <1>3, <1>4, <1>5, <1>6, <2>1, <2>2, OrderSaved
<1>7. CASE rows[i].state \notin PendingStates
  <2>1. UNCHANGED rows
    BY <1>7 DEF CompleteRequest
  <2>2. i \notin Waiting(e)
    BY <1>7 DEF Waiting, PendingStates
  <2> HIDE DEF i, t
  <2> QED
    BY <1>2, <1>4, <1>5, <2>1, <2>2, OrderGoesOn
<1> QED
  BY <1>6, <1>7

(* The first request times out, and may have reached the subcloud.          *)
LEMMA TimeoutOrder ==
  ASSUME OrderInv, SingleEngine, NEW g \in Engines, NEW e \in Endpoints,
         RequestTimesOut(g, e)
  PROVE  InOrder'
<1> DEFINE s == syncer[g][e]
           i == First(s.todo)
           again == [s EXCEPT !.tries = @ + 1]
           out == [s EXCEPT !.pc = "relist", !.todo = {}, !.tries = 0]
           t == IF s.tries + 1 < MaxRetry THEN again ELSE out
           broken == [NoSync EXCEPT !.pc = "broken"]
<1>1. s \in Syncs /\ TypeOK
  BY DEF OrderInv, TypeOK
<1>2. Trying(g, e) /\ s.todo # {}
  BY DEF OrderInv, HasRequest, RequestTimesOut, Trying
<1>3. i \in s.todo /\ \A j \in s.todo : i <= j
  BY <1>1, <1>2, EarliestOnList
<1>4. again.todo = s.todo /\ out.pc = "relist"
  BY <1>1 DEF Syncs
<1>5. have'[e] \in {have[e], i} /\ \A f \in Endpoints \ {e} : have'[f] = have[f]
  BY <1>1 DEF RequestTimesOut, TypeOK
<1>6. CASE rows[i].state \in PendingStates
  <2>1. SaveState(i, rows[i].state) /\ Synced(g, e, t)
    BY <1>6 DEF RequestTimesOut, FailingSave
  <2>2. rows[i].state \in RequestStates
    BY <1>6 DEF RequestStates
  <2>3. t.todo = s.todo \/ t.pc \notin {"report out", "next", "apply", "save"}
    BY <1>4
  <2> HIDE DEF i, t
  <2> QED
    BY <1>2, <1>3, <1>5, <1>6, <2>1, <2>2, <2>3, OrderSaved
<1>7. CASE rows[i].state \notin PendingStates
  <2>1. Synced(g, e, broken) /\ UNCHANGED rows
    BY <1>7 DEF RequestTimesOut, FailingSave, SyncEnds
  <2>2. broken.pc = "broken"
    BY NoSyncs
  <2> HIDE DEF i, broken
  <2> QED
    BY <1>2, <1>3, <1>5, <2>1, <2>2, OrderApplied
<1> QED
  BY <1>6, <1>7

(* The first request fails, and waits no more.                              *)
LEMMA FailOrder ==
  ASSUME OrderInv, SingleEngine, NEW g \in Engines, NEW e \in Endpoints,
         RequestFails(g, e)
  PROVE  InOrder'
<1> DEFINE s == syncer[g][e]
           i == First(s.todo)
           on == [s EXCEPT !.pc = "next", !.todo = @ \ {i}, !.tries = 0]
           again == [s EXCEPT !.tries = @ + 1]
           aborted == [on EXCEPT !.aborted = TRUE]
<1>1. s \in Syncs /\ TypeOK
  BY DEF OrderInv, TypeOK
<1>2. Trying(g, e) /\ s.todo # {} /\ have' = have
  BY DEF OrderInv, HasRequest, RequestFails, Trying
<1>3. i \in s.todo /\ \A j \in s.todo : i <= j
  BY <1>1, <1>2, EarliestOnList
<1>4. on.todo = s.todo \ {i} /\ again.todo = s.todo /\ aborted.todo = s.todo \ {i}
  BY <1>1 DEF Syncs
<1>5. \E t \in {on, again, aborted} : FailingSave(g, e, "failed", t)
  <2>1. \/ FailingSave(g, e, "failed", IF s.tries + 1 = MaxRetry THEN on ELSE again)
        \/ FailingSave(g, e, "failed", on)
        \/ FailingSave(g, e, "failed", aborted)
    BY DEF RequestFails
  <2> HIDE DEF on, again, aborted
  <2> QED
    BY <2>1
<1>6. PICK t \in {on, again, aborted} : FailingSave(g, e, "failed", t)
  BY <1>5
<1>7. t.todo = s.todo \/ t.todo = s.todo \ {i}
  BY <1>4
<1>8. "failed" \in RequestStates
  BY DEF RequestStates, PendingStates
<1> HIDE DEF on, again, aborted
<1>9. CASE rows[i].state \in PendingStates
  <2>1. SaveState(i, "failed") /\ Synced(g, e, t)
    BY <1>6, <1>9 DEF FailingSave
  <2> HIDE DEF i
  <2> QED
    BY <1>2, <1>3, <1>7, <1>8, <1>9, <2>1, OrderSaved
<1>10. CASE rows[i].state \notin PendingStates
  <2>1. SyncEnds(g, e, "broken") /\ UNCHANGED rows
    BY <1>6, <1>10 DEF FailingSave
  <2> QED
    BY <1>2, <2>1, OrderLeaves DEF SyncLabels
<1> QED
  BY <1>9, <1>10

(* The syncs of the engine end.                                             *)
LEMMA RestartOrder ==
  ASSUME OrderInv, SingleEngine, NEW g \in Engines, Restart(g)
  PROVE  InOrder'
<1>1. UNCHANGED <<rows, have>>
  BY DEF Restart, dataVars
<1>2. \A e \in Endpoints : syncer'[g][e] = NoSync
  BY DEF Restart, OrderInv, TypeOK
<1>3. \A h \in Engines, e \in Endpoints : SyncOrder(h, e)'
  BY <1>2, NoSyncs DEF SyncOrder, Trying, SingleEngine
<1>4. Dense' /\ \A e \in Endpoints : EndpointOrder(e)'
  BY <1>1 DEF OrderInv, InOrder, Dense, EndpointOrder, Waiting, InUse
<1> QED
  BY <1>3, <1>4 DEF InOrder

(* Every step of a single engine keeps the order.                          *)
LEMMA OrderStep ==
  ASSUME OrderInv, SingleEngine, [Next]_vars
  PROVE  InOrder'
<1>1. ASSUME NEW p \in Proxies, Change(p)
      PROVE  InOrder'
  BY <1>1, OrderStays DEF Change, dataVars, statusVars, engineVars
<1>2. ASSUME NEW p \in Proxies, NEW e \in Endpoints, ProxyEnqueue(p, e)
      PROVE  InOrder'
  BY <1>2, EnqueueOrder DEF ProxyEnqueue, engineVars
<1>3. ASSUME NEW p \in Proxies, NEW e \in Endpoints, Notify(p, e)
      PROVE  InOrder'
  BY <1>3, OrderStays DEF Notify, dataVars, statusVars, engineVars
<1>4. ASSUME NEW p \in Proxies, ProxyDies(p)
      PROVE  InOrder'
  BY <1>4, OrderStays DEF ProxyDies, dataVars, statusVars, engineVars
<1>5. ASSUME NEW g \in Engines, NEW e \in Endpoints, StartSync(g, e)
      PROVE  InOrder'
  BY <1>5, NoSyncs, OrderEnds DEF StartSync, dataVars
<1>6. ASSUME NEW g \in Engines, NEW e \in Endpoints, ReleaseSync(g, e)
      PROVE  InOrder'
  BY <1>6, OrderStays DEF ReleaseSync, dataVars, statusVars, engineVars
<1>7. ASSUME NEW g \in Engines, NEW e \in Endpoints, BeginSync(g, e)
      PROVE  InOrder'
  BY <1>7, OrderLeaves DEF BeginSync, dataVars, SyncLabels
<1>8. ASSUME NEW g \in Engines, NEW e \in Endpoints, ListRequests(g, e)
      PROVE  InOrder'
  BY <1>8, ListOrder
<1>9. ASSUME NEW g \in Engines, NEW e \in Endpoints, ReportOutOfSync(g, e)
      PROVE  InOrder'
  BY <1>9, ReportOrder
<1>10. ASSUME NEW g \in Engines, NEW e \in Endpoints, NextRequest(g, e)
      PROVE  InOrder'
  BY <1>10, NextOrder
<1>11. ASSUME NEW g \in Engines, NEW e \in Endpoints, ApplyRequest(g, e)
      PROVE  InOrder'
  BY <1>11, ApplyOrder
<1>12. ASSUME NEW g \in Engines, NEW e \in Endpoints, CompleteRequest(g, e)
      PROVE  InOrder'
  BY <1>12, CompleteOrder
<1>13. ASSUME NEW g \in Engines, NEW e \in Endpoints, RequestTimesOut(g, e)
      PROVE  InOrder'
  BY <1>13, TimeoutOrder
<1>14. ASSUME NEW g \in Engines, NEW e \in Endpoints, RequestFails(g, e)
      PROVE  InOrder'
  BY <1>14, FailOrder
<1>15. ASSUME NEW g \in Engines, NEW e \in Endpoints, ListAgain(g, e)
      PROVE  InOrder'
  BY <1>15, OrderLeaves DEF ListAgain, dataVars, SyncLabels
<1>16. ASSUME NEW g \in Engines, NEW e \in Endpoints, ReportInSync(g, e)
      PROVE  InOrder'
  BY <1>16, OrderLeaves DEF ReportInSync, dataVars, SyncLabels
<1>17. ASSUME NEW g \in Engines, NEW e \in Endpoints, SyncBreaks(g, e)
      PROVE  InOrder'
  BY <1>17, OrderLeaves DEF SyncBreaks, dataVars, SyncLabels
<1>18. ASSUME NEW g \in Engines, NEW e \in Endpoints, EndSync(g, e)
      PROVE  InOrder'
  BY <1>18, OrderLeaves DEF EndSync, dataVars, SyncLabels
<1>19. ASSUME NEW g \in Engines, NEW e \in Endpoints, StartAudit(g, e)
      PROVE  InOrder'
  BY <1>19, OrderStays DEF StartAudit, dataVars, statusVars, engineVars
<1>20. ASSUME NEW g \in Engines, NEW e \in Endpoints, ReleaseAudit(g, e)
      PROVE  InOrder'
  BY <1>20, OrderStays DEF ReleaseAudit, dataVars, statusVars, engineVars
<1>21. ASSUME NEW g \in Engines, NEW e \in Endpoints, BeginAudit(g, e)
      PROVE  InOrder'
  BY <1>21, OrderStays DEF BeginAudit, dataVars, statusVars, engineVars
<1>22. ASSUME NEW g \in Engines, NEW e \in Endpoints, ReadFailed(g, e)
      PROVE  InOrder'
  BY <1>22, OrderStays DEF ReadFailed, dataVars, statusVars, engineVars
<1>23. ASSUME NEW g \in Engines, NEW e \in Endpoints, ReadPending(g, e)
      PROVE  InOrder'
  BY <1>23, OrderStays DEF ReadPending, dataVars, statusVars, engineVars
<1>24. ASSUME NEW g \in Engines, NEW e \in Endpoints, FetchSubcloud(g, e)
      PROVE  InOrder'
  BY <1>24, OrderStays DEF FetchSubcloud, dataVars, statusVars, engineVars
<1>25. ASSUME NEW g \in Engines, NEW e \in Endpoints, CompareMaster(g, e)
      PROVE  InOrder'
  BY <1>25, OrderStays DEF CompareMaster, dataVars, statusVars, engineVars
<1>26. ASSUME NEW g \in Engines, NEW e \in Endpoints, ScheduleWork(g, e)
      PROVE  InOrder'
  BY <1>26, EnqueueOrder DEF ScheduleWork
<1>27. ASSUME NEW g \in Engines, NEW e \in Endpoints, AuditReturns(g, e)
      PROVE  InOrder'
  BY <1>27, OrderStays DEF AuditReturns, dataVars, statusVars, engineVars
<1>28. ASSUME NEW g \in Engines, NEW e \in Endpoints, AuditSkips(g, e)
      PROVE  InOrder'
  BY <1>28, OrderStays DEF AuditSkips, dataVars, statusVars, engineVars
<1>29. ASSUME NEW g \in Engines, NEW e \in Endpoints, DropFailed(g, e)
      PROVE  InOrder'
  BY <1>29, DropOrder
<1>30. ASSUME NEW g \in Engines, NEW e \in Endpoints, ReportFindings(g, e)
      PROVE  InOrder'
  BY <1>30, OrderStays DEF ReportFindings, dataVars, statusVars, engineVars
<1>31. ASSUME NEW g \in Engines, NEW e \in Endpoints, RequestSync(g, e)
      PROVE  InOrder'
  BY <1>31, OrderStays DEF RequestSync, dataVars, statusVars, engineVars
<1>32. ASSUME NEW g \in Engines, NEW e \in Endpoints, AuditBreaks(g, e)
      PROVE  InOrder'
  BY <1>32, OrderStays DEF AuditBreaks, dataVars, statusVars, engineVars
<1>33. ASSUME NEW g \in Engines, NEW e \in Endpoints, EndAudit(g, e)
      PROVE  InOrder'
  BY <1>33, OrderStays DEF EndAudit, dataVars, statusVars, engineVars
<1>34. ASSUME NEW e \in Endpoints, Outage(e)
      PROVE  InOrder'
  BY <1>34, OrderStays DEF Outage, dataVars, statusVars, engineVars
<1>35. ASSUME NEW e \in Endpoints, Recover(e)
      PROVE  InOrder'
  BY <1>35, OrderStays DEF Recover, dataVars, statusVars, engineVars
<1>36. ASSUME NEW g \in Engines, Restart(g)
      PROVE  InOrder'
  BY <1>36, RestartOrder
<1>37. ASSUME PurgeLocks
      PROVE  InOrder'
  BY <1>37, OrderStays DEF PurgeLocks, dataVars, statusVars, engineVars
<1>38. CASE UNCHANGED vars
  BY <1>38, OrderStays DEF vars, dataVars, engineVars
<1> QED
  BY <1>1, <1>2, <1>3, <1>4, <1>5, <1>6, <1>7, <1>8, <1>9, <1>10,
     <1>11, <1>12, <1>13, <1>14, <1>15, <1>16, <1>17, <1>18, <1>19,
     <1>20, <1>21, <1>22, <1>23, <1>24, <1>25, <1>26, <1>27, <1>28,
     <1>29, <1>30, <1>31, <1>32, <1>33, <1>34, <1>35, <1>36, <1>37,
     <1>38
     DEF Next, ProxyProgress, SyncProgress, AuditProgress

(* No step takes the subcloud back to an older request.                    *)
LEMMA HaveGrows ==
  ASSUME OrderInv, [Next]_vars, NEW e \in Endpoints
  PROVE  have'[e] >= have[e]
<1>1. have[e] \in Nat /\ TypeOK
  <2>1. have[e] \in {0} \cup Ids
    BY DEF OrderInv, TypeOK
  <2>2. CASE have[e] = 0
    BY <2>2 DEF OrderInv
  <2>3. CASE have[e] \in Ids
    BY <2>3, IdsAreNaturals DEF OrderInv
  <2> QED
    BY <2>1, <2>2, <2>3
<1>2. ASSUME NEW g \in Engines, NEW f \in Endpoints,
             ApplyRequest(g, f) \/ RequestTimesOut(g, f)
      PROVE  have'[e] >= have[e]
  <2> DEFINE i == First(syncer[g][f].todo)
  <2>1. Trying(g, f) /\ syncer[g][f].todo # {}
    BY <1>2 DEF OrderInv, HasRequest, ApplyRequest, RequestTimesOut, Trying
  <2>2. i \in syncer[g][f].todo /\ i \in Ids
    BY <1>1, <2>1, EarliestOnList
  <2>3. have[f] <= i /\ i \in Nat
    BY <2>1, <2>2, IdsAreNaturals DEF OrderInv, InOrder, SyncOrder
  <2>4. have'[e] = have[e] \/ (e = f /\ have'[e] = i)
    <3> HIDE DEF i
    <3>1. have' = have \/ have' = [have EXCEPT ![f] = i]
      BY <1>2 DEF ApplyRequest, RequestTimesOut, i
    <3> QED
      BY <1>1, <3>1 DEF TypeOK
  <2> HIDE DEF i
  <2> QED
    BY <1>1, <2>3, <2>4
<1>3. CASE UNCHANGED have
  BY <1>1, <1>3
<1>4. \/ UNCHANGED have
      \/ \E g \in Engines, f \in Endpoints : ApplyRequest(g, f) \/ RequestTimesOut(g, f)
  <2>1. ASSUME NEW p \in Proxies, Change(p) \/ ProxyProgress(p) \/ ProxyDies(p)
        PROVE  UNCHANGED have
    BY <2>1 DEF Change, ProxyProgress, ProxyEnqueue, Notify, ProxyDies
  <2>2. ASSUME NEW g \in Engines, NEW f \in Endpoints, SyncProgress(g, f)
        PROVE  UNCHANGED have \/ ApplyRequest(g, f) \/ RequestTimesOut(g, f)
    BY <2>2 DEF SyncProgress, BeginSync, ListRequests, ReportOutOfSync, NextRequest,
                CompleteRequest, RequestFails, ListAgain, ReportInSync, EndSync, dataVars
  <2>3. ASSUME NEW g \in Engines, NEW f \in Endpoints, AuditProgress(g, f)
        PROVE  UNCHANGED have
    BY <2>3 DEF AuditProgress, BeginAudit, ReadFailed, ReadPending, FetchSubcloud,
                CompareMaster, ScheduleWork, DropFailed, ReportFindings, RequestSync,
                EndAudit, dataVars
  <2>4. ASSUME NEW g \in Engines, NEW f \in Endpoints,
               \/ StartSync(g, f) \/ ReleaseSync(g, f) \/ SyncBreaks(g, f)
               \/ StartAudit(g, f) \/ ReleaseAudit(g, f) \/ AuditReturns(g, f)
               \/ AuditSkips(g, f) \/ AuditBreaks(g, f)
        PROVE  UNCHANGED have
    BY <2>4 DEF StartSync, ReleaseSync, SyncBreaks, StartAudit, ReleaseAudit, AuditReturns,
                AuditSkips, AuditBreaks, dataVars
  <2>5. ASSUME \/ \E f \in Endpoints : Outage(f) \/ Recover(f)
               \/ \E g \in Engines : Restart(g)
               \/ PurgeLocks \/ UNCHANGED vars
        PROVE  UNCHANGED have
    BY <2>5 DEF Outage, Recover, Restart, PurgeLocks, vars, dataVars
  <2> QED
    BY <2>1, <2>2, <2>3, <2>4, <2>5 DEF Next
<1> QED
  BY <1>2, <1>3, <1>4

(* With a single engine, the requests of every endpoint reach the subcloud *)
(* in the order in which they were made.                                   *)
THEOREM RequestsInOrder ==
  ASSUME SingleEngine
  PROVE  Spec => AppliedInOrder
<1>1. Init => OrderInv
  <2> SUFFICES ASSUME Init
               PROVE  OrderInv
    OBVIOUS
  <2>1. TypeOK
    BY LocalsTypes DEF Init, TypeOK
  <2>2. HasRequest
    BY NoSyncs DEF Init, HasRequest
  <2>3. InOrder
    BY NoSyncs DEF Init, InOrder, Dense, EndpointOrder, SyncOrder, Trying, Waiting, InUse,
                   NoRequest
  <2> QED
    BY <2>1, <2>2, <2>3 DEF OrderInv
<1>2. OrderInv /\ [Next]_vars => OrderInv'
  BY TypeStep, HasRequestStep, OrderStep DEF OrderInv
<1>3. OrderInv /\ [Next]_vars => [\A e \in Endpoints : have'[e] >= have[e]]_vars
  BY HaveGrows
<1> QED
  BY <1>1, <1>2, <1>3, PTL DEF Spec, AppliedInOrder

===============================================================================
