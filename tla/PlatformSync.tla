------------------------------ MODULE PlatformSync ------------------------------
(***************************************************************************)
(* dcorch, the platform endpoint: one resource type of sysinv - the name   *)
(* servers, the user sysadmin, the fernet keys or the certificates - as    *)
(* the proxy, the rotation of keys, the sync thread of a subcloud and its  *)
(* audit keep it the same as in the system controller.  Name servers, user *)
(* and keys exist once, everywhere, and are modified; certificates are     *)
(* created and deleted.                                                     *)
(*                                                                         *)
(* Locks, the states of requests and several engines are SyncRequests'     *)
(* matter.                                                                 *)
(***************************************************************************)
EXTENDS Integers, Sequences, FiniteSets, SequencesExt

CONSTANTS
  Kinds,          \* resource types considered; a "file" is none of dcorch's
  TrustedCAs,     \* signatures of certificates of type ssl_ca
  OpenstackCAs,   \* and of type openstack_ca
  MaxChanges,     \* bound on the changes in the system controller
  MaxPlatformFaults  \* bound on failures, changes made in the subcloud itself and
                  \* audits of other subclouds

VARIABLES
  kind,      \* the resource type followed; the others do not touch it
  master,    \* per resource: its value in the system controller
  site,      \* per resource: its value in the subcloud
  row,       \* the uuid of the subcloud's name servers and user
  expired,   \* certificates past their expiry date
  proxy,     \* the request about to be enqueued, or none
  queue,     \* the subcloud's orch_requests, queued or in progress
  thread,    \* the sync thread: what it does with the first of them
  tracked,   \* the resource table of dcorch
  mapped,    \* per resource: its id in subcloud_resource
  audit,     \* the audit thread and what it has read
  cache,     \* master_resources_dict: at most one list
  keysSent,  \* the initial sync is through with the keys
  changes, platformFaults

masterVars == <<master, expired, changes>>
siteVars == <<site, row>>
dcorchVars == <<tracked, mapped>>
auditVars == <<audit, cache>>
platformVars == <<kind, masterVars, siteVars, dcorchVars, auditVars, proxy, queue,
                  thread, keysSent, platformFaults>>

Certificates == TrustedCAs \cup OpenstackCAs

\* What there is one of is known by the name "keys".
Names == Certificates \cup {"keys"}

\* SYSINV_MODIFY_RESOURCES
ModifyResources == {"idns", "iuser", "fernet_repo"}

ASSUME PlatformAssumption ==
  /\ Kinds \subseteq ModifyResources \cup {"certificate", "file"}
  /\ TrustedCAs \cap OpenstackCAs = {} /\ "keys" \notin Certificates
  /\ IsFiniteSet(Certificates)
  /\ {MaxChanges, MaxPlatformFaults} \subseteq Nat

\* A value is the change that wrote it; one of the subcloud's own is Foreign.
Absent == 0
Foreign == -1
Values == Foreign..(MaxChanges + 1)

RsrcOf(k) == IF k = "certificate" THEN Certificates ELSE {"keys"}
Rsrcs == RsrcOf(kind)

Request(op, n, value) == [op |-> op, of |-> n, value |-> value]
NoRequest == Request("none", "keys", Absent)

\* The id under which a resource is in the subcloud: the uuid of a row that a
\* new installation makes anew, a signature, or the constant "keys".
SiteId(uuid) == IF kind \in {"idns", "iuser"} THEN uuid ELSE "same"

Nothing == [n \in Names |-> Absent]

NoAudit == [pc |-> "look", busy |-> {}, seen |-> Nothing, row |-> "none", list |-> Nothing]

PlatformInit ==
  /\ kind \in Kinds
  /\ master = [n \in Names |-> IF kind # "certificate" /\ n = "keys" THEN 1 ELSE Absent]
  /\ site = [n \in Names |-> IF kind # "certificate" /\ n = "keys" THEN Foreign ELSE Absent]
  /\ row = "first"
  /\ expired = {}
  /\ proxy = NoRequest
  /\ queue = <<>>
  /\ thread = "idle"
  /\ tracked = {}
  /\ mapped = [n \in Names |-> "none"]
  /\ audit = NoAudit
  /\ cache = {}
  /\ keysSent = FALSE
  /\ changes = 0 /\ platformFaults = 0

PlatformFault ==
  /\ platformFaults < MaxPlatformFaults
  /\ platformFaults' = platformFaults + 1

-------------------------------------------------------------------------------
(* The system controller, the proxy before its sysinv and the rotation of  *)
(* its keys.                                                               *)

Changed(n, value, request) ==
  /\ proxy = NoRequest
  /\ changes < MaxChanges
  /\ changes' = changes + 1
  /\ master' = [master EXCEPT ![n] = value]
  /\ proxy' = request
  /\ UNCHANGED <<kind, expired, siteVars, dcorchVars, auditVars, queue, thread,
                 keysSent, platformFaults>>

\* A client changes the name servers or the user.
Modify ==
  /\ kind \in {"idns", "iuser"}
  /\ Changed("keys", changes + 2, Request("patch", "keys", changes + 2))

\* rotate_fernet_keys: the new keys are read, and a PUT is scheduled.
RotateFernetKeys ==
  /\ kind = "fernet_repo"
  /\ Changed("keys", changes + 2, Request("put", "keys", changes + 2))

InstallCertificate(c) ==
  /\ kind = "certificate" /\ master[c] = Absent
  /\ Changed(c, 1, Request("post", c, 1))

UninstallCertificate(c) ==
  /\ kind = "certificate" /\ master[c] # Absent
  /\ Changed(c, Absent, Request("delete", c, Absent))

CertificateExpires(c) ==
  /\ c \in Certificates \ expired /\ master[c] # Absent
  /\ changes < MaxChanges
  /\ changes' = changes + 1
  /\ expired' = expired \cup {c}
  /\ UNCHANGED <<kind, master, siteVars, dcorchVars, auditVars, proxy, queue, thread,
                 keysSent, platformFaults>>

WrongEnqueue ==
  /\ proxy # NoRequest
  /\ queue' = Append(queue, proxy)
  /\ proxy' = NoRequest
  /\ UNCHANGED <<kind, masterVars, siteVars, dcorchVars, auditVars, thread, keysSent,
                 platformFaults>>

\* enqueue_work: the resource is tracked from now on.
Enqueue ==
  /\ proxy # NoRequest
  /\ queue' = Append(queue, proxy)
  /\ tracked' = tracked \cup {proxy.of}
  /\ proxy' = NoRequest
  /\ UNCHANGED <<kind, masterVars, siteVars, mapped, auditVars, thread, keysSent,
                 platformFaults>>

\* The body of the request that installs a certificate cannot be made JSON, with
\* Python 3; the keys cannot be read; the proxy dies.
EnqueueFails ==
  /\ proxy # NoRequest
  /\ (proxy.op = "post" /\ UNCHANGED platformFaults) \/ PlatformFault
  /\ proxy' = NoRequest
  /\ UNCHANGED <<kind, masterVars, siteVars, dcorchVars, auditVars, queue, thread,
                 keysSent>>

-------------------------------------------------------------------------------
(* distribute_keys: the keys for a subcloud in its initial sync.           *)

DistributeKeys ==
  /\ ~keysSent
  /\ keysSent' = TRUE
  /\ site' = IF kind = "fernet_repo" THEN [site EXCEPT !["keys"] = master["keys"]] ELSE site
  /\ UNCHANGED <<kind, masterVars, row, dcorchVars, auditVars, proxy, queue, thread,
                 platformFaults>>

\* The initial sync goes on without.
KeysNotSent ==
  /\ ~keysSent
  /\ PlatformFault
  /\ keysSent' = TRUE
  /\ UNCHANGED <<kind, masterVars, siteVars, dcorchVars, auditVars, proxy, queue,
                 thread>>

-------------------------------------------------------------------------------
(* The sync thread: sync_platform_resource, for the first request.         *)

request == Head(queue)

Handling(k, ops) ==
  /\ keysSent
  /\ kind = k
  /\ queue # <<>>
  /\ request.op \in ops
  /\ thread = "idle"

Finish ==
  /\ queue' = Tail(queue)
  /\ thread' = "idle"

GoOn(pc) ==
  /\ thread' = pc
  /\ UNCHANGED queue

\* What the subcloud has already is not written again.
Write(value) == site' = [site EXCEPT !["keys"] = value]

SyncIdns ==
  /\ Handling("idns", {"patch", "put"})
  /\ Write(request.value)
  /\ GoOn("save")
  /\ UNCHANGED mapped

SyncIuser ==
  /\ Handling("iuser", {"patch", "put"})
  /\ Write(request.value)
  /\ GoOn("save")
  /\ UNCHANGED mapped

UpdateFernetRepo ==
  /\ Handling("fernet_repo", {"patch", "put"})
  /\ Write(request.value)
  /\ GoOn("save")
  /\ UNCHANGED mapped

\* The file that has all the trusted certificates of the system controller.
SharedFile == {c \in TrustedCAs : master[c] # Absent}

\* What is installed is the content of the file, whichever certificate is
\* asked for; a request of a client has no expiry date and is nothing.  There
\* is no file for openstack_ca: the mapping is made, then the handler fails.
CreateCertificate ==
  /\ Handling("certificate", {"post", "create"})
  /\ LET c == request.of
         ends == request.op = "post" \/ c \in expired
     IN \/ /\ ends \/ (c \in TrustedCAs /\ SharedFile = {})
           /\ Finish
           /\ UNCHANGED <<site, mapped>>
        \/ /\ ~ends /\ c \in OpenstackCAs
           /\ Finish
           /\ mapped' = [mapped EXCEPT ![c] = "same"]
           /\ UNCHANGED site
        \/ /\ ~ends /\ c \in TrustedCAs /\ SharedFile # {}
           /\ site' = [n \in Names |-> IF n \in SharedFile THEN 1 ELSE site[n]]
           /\ GoOn("save")
           /\ UNCHANGED mapped

\* By the signature it is mapped to; it may be gone already.
DeleteCertificate ==
  /\ Handling("certificate", {"delete"})
  /\ IF mapped[request.of] = "none" THEN Finish /\ UNCHANGED site
     ELSE /\ site' = [site EXCEPT ![request.of] = Absent]
          /\ GoOn("unmap")
  /\ UNCHANGED mapped

Save ==
  /\ thread = "save"
  /\ mapped' = [mapped EXCEPT ![request.of] = SiteId(row)]
  /\ Finish
  /\ UNCHANGED site

Unmap ==
  /\ thread = "unmap"
  /\ mapped' = [mapped EXCEPT ![request.of] = "none"]
  /\ Finish
  /\ UNCHANGED site

PlatformSyncStep ==
  /\ \/ SyncIdns \/ SyncIuser \/ UpdateFernetRepo
     \/ CreateCertificate \/ DeleteCertificate
     \/ Save \/ Unmap
  /\ UNCHANGED <<kind, masterVars, row, tracked, auditVars, proxy, keysSent,
                 platformFaults>>

\* The exceptions of sync_platform_resource: the request is tried again, now or
\* in a later sync, or it has failed for good.
SyncFails ==
  /\ keysSent /\ queue # <<>>
  /\ PlatformFault
  /\ thread' = "idle"
  /\ queue' = Tail(queue) \/ (thread # "idle" /\ UNCHANGED queue)
  /\ UNCHANGED <<kind, masterVars, siteVars, dcorchVars, auditVars, proxy, keysSent>>

-------------------------------------------------------------------------------
(* The audit thread.                                                       *)

\* The resources with requests, and what the subcloud has.
GetSubcloudResources ==
  /\ keysSent
  /\ audit.pc = "look"
  /\ audit' = [NoAudit EXCEPT !.pc = "fetch", !.seen = site, !.row = row,
                              !.busy = {queue[j].of : j \in 1..Len(queue)}]
  /\ UNCHANGED <<kind, masterVars, siteVars, dcorchVars, cache, proxy, queue, thread,
                 keysSent, platformFaults>>

\* What the system controller has, unless an audit has asked for it already.
GetMasterResources ==
  /\ audit.pc = "fetch"
  /\ cache' = IF cache = {} THEN {master} ELSE cache
  /\ audit' = [audit EXCEPT !.pc = "compare",
                            !.list = CHOOSE list \in cache' : TRUE]
  /\ UNCHANGED <<kind, masterVars, siteVars, dcorchVars, proxy, queue, thread,
                 keysSent, platformFaults>>

WrongSameResource(n) == mapped[n] = SiteId(audit.row)

\* same_dns, same_user, same_fernet_key, same_certificate, for the resource of
\* the subcloud that has the id mapped to.
SameResource(n) ==
  /\ mapped[n] = SiteId(audit.row)
  /\ audit.list[n] = audit.seen[n]

\* audit_action: what is missing is modified, or created;
ToSend ==
  {Request(IF kind \in ModifyResources THEN "patch" ELSE "create", n, audit.list[n]) :
     n \in {m \in Rsrcs \ audit.busy :
              audit.list[m] # Absent /\ ~(m \in tracked /\ SameResource(m))}}

\* a certificate is extra when it is mapped, whether or not it is still there.
ToRemove ==
  {Request("delete", n, Absent) :
     n \in {m \in tracked \ audit.busy : audit.list[m] = Absent /\ mapped[m] # "none"}}

AuditCompare ==
  /\ audit.pc = "compare"
  /\ queue' = queue \o SetToSeq(ToSend \cup ToRemove)
  /\ tracked' = tracked \cup {r.of : r \in ToSend}
  /\ audit' = NoAudit
  /\ cache' = {}
  /\ UNCHANGED <<kind, masterVars, siteVars, mapped, proxy, thread, keysSent,
                 platformFaults>>

AuditStep == GetSubcloudResources \/ GetMasterResources \/ AuditCompare

\* A sysinv that does not answer ends the audit; its list stays in the cache.
AuditFails ==
  /\ audit.pc # "look"
  /\ PlatformFault
  /\ audit' = NoAudit
  /\ UNCHANGED <<kind, masterVars, siteVars, dcorchVars, cache, proxy, queue, thread,
                 keysSent>>

\* The audit of another subcloud asks for the list, or is through.
OtherAudit ==
  /\ PlatformFault
  /\ cache' = IF cache = {} THEN {master} ELSE {}
  /\ UNCHANGED <<kind, masterVars, siteVars, dcorchVars, audit, proxy, queue, thread,
                 keysSent>>

-------------------------------------------------------------------------------
(* What happens in the subcloud without dcorch.                            *)

LocalChange(n) ==
  /\ n \in Rsrcs
  /\ PlatformFault
  /\ site' = [site EXCEPT ![n] = IF kind # "certificate" THEN Foreign ELSE 1 - @]
  /\ UNCHANGED <<kind, masterVars, row, dcorchVars, auditVars, proxy, queue, thread,
                 keysSent>>

\* It is installed again; an initial sync follows.
Reinstalled ==
  /\ row = "first" /\ thread = "idle"
  /\ PlatformFault
  /\ row' = "second"
  /\ site' = [n \in Names |-> IF site[n] = Absent \/ kind = "certificate" THEN Absent ELSE Foreign]
  /\ keysSent' = FALSE
  /\ UNCHANGED <<kind, masterVars, dcorchVars, auditVars, proxy, queue, thread>>

MasterChange ==
  \/ Modify \/ RotateFernetKeys
  \/ \E c \in Certificates :
       InstallCertificate(c) \/ UninstallCertificate(c) \/ CertificateExpires(c)

PlatformFailure ==
  \/ EnqueueFails \/ KeysNotSent \/ SyncFails \/ AuditFails \/ OtherAudit \/ Reinstalled
  \/ \E n \in Names : LocalChange(n)

PlatformNext ==
  MasterChange \/ Enqueue \/ DistributeKeys \/ PlatformSyncStep \/ AuditStep \/ PlatformFailure

-------------------------------------------------------------------------------
Requests ==
  [op : {"none", "post", "put", "patch", "create", "delete"}, of : Names, value : Values]

PlatformTypeOK ==
  /\ master \in [Names -> Values] /\ site \in [Names -> Values]
  /\ row \in {"first", "second"}
  /\ expired \subseteq Certificates
  /\ proxy \in Requests
  /\ \A j \in 1..Len(queue) : queue[j] \in Requests /\ queue[j].of \in tracked
  /\ thread \in {"idle", "save", "unmap"}
  /\ queue = <<>> => thread = "idle"
  /\ mapped \in [Names -> {"none", "same", "first", "second"}]
  /\ \A n \in Names : mapped[n] # "none" => n \in tracked
  /\ audit.pc \in {"look", "fetch", "compare"}
  /\ Cardinality(cache) <= 1

\* The subcloud has what the system controller has, save certificates of a type
\* there is no file for or that have expired, and no certificate that dcorch
\* gave it and the system controller no longer has.
PlatformInStep ==
  IF kind \in ModifyResources THEN site["keys"] = master["keys"]
  ELSE \A c \in Certificates :
         /\ master[c] # Absent /\ c \in TrustedCAs \ expired => site[c] # Absent
         /\ mapped[c] # "none" /\ site[c] # Absent => master[c] # Absent

\* When changes and failures come to an end, audits bring the subcloud into
\* step for good, whatever has been left of requests that failed, stale lists,
\* mappings to a row that is gone, keys that never came.
PlatformConverges == <>[]PlatformInStep
===============================================================================
