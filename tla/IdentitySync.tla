------------------------------ MODULE IdentitySync ------------------------------
(***************************************************************************)
(* dcorch, the identity endpoint: the users, groups, projects, roles, role *)
(* assignments and token revocation events of one subcloud's keystone are  *)
(* kept the same as those of the system controller, their ids included.    *)
(* The initial sync gives what both have by name the id of the system      *)
(* controller; after it the sync thread applies one request after the      *)
(* other through the subcloud's dcdbsync service or keystone, and the      *)
(* audit thread compares the two keystones and enqueues what is missing,   *)
(* differs or is extra.  subcloud_resource maps a resource of the system   *)
(* controller to the one of the subcloud.                                  *)
(*                                                                         *)
(* An action is a remote call or database access with the computation up   *)
(* to the next one.  Locks, the states of the requests and several engines *)
(* are SyncRequests' matter; when the initial sync runs, and that it runs   *)
(* again for a subcloud managed again, is InitialSync's.                   *)
(***************************************************************************)
EXTENDS Integers, Sequences, FiniteSets, SequencesExt

CONSTANTS
  Users, Groups, Projects, Roles,   \* names, of one type each; those the audit
                                    \* filters out (dcdbsync, ...) are not among them
  Events,         \* audit ids of token revocation events
  ServiceUsers,   \* admin, sysinv, dcmanager: deployed with the id of the
                  \* system controller, but with data of their own
  Deployed,       \* the names both keystones have to begin with
  DeployedGrants, \* <<project, actor, role>>: role assignments among those
  MasterIds,      \* the ids keystone of the system controller gives out
  MaxChanges,     \* bound on the changes of clients
  MaxFaults       \* bound on failures, changes made in the subcloud itself and
                  \* audits of other subclouds that leave their lists behind

VARIABLES
  master,    \* per name: the record in the system controller's keystone
  grants,    \* its role assignments, <<project, actor, role>> by name and id
  spent,     \* the ids it has given out
  site,      \* per name: the record in the subcloud's keystone
  held,      \* its role assignments
  proxy,     \* the request the API proxy is about to enqueue, or none
  queue,     \* the subcloud's orch_requests, queued or in progress
  sync,      \* the sync thread: what it does with the first of them
  tracked,   \* the resource table of dcorch
  mapped,    \* the subcloud_resource table
  audit,     \* the audit thread: the type it is at and what it has read
  cache,     \* master_resources_dict, by type
  initial,   \* the type the initial sync is at, "done" when it is over
  changes,   \* changes of clients so far
  faults     \* failures and the like so far

masterVars == <<master, grants, spent, changes>>
siteVars == <<site, held>>
dcorchVars == <<tracked, mapped>>
auditVars == <<audit, cache>>
vars == <<masterVars, siteVars, dcorchVars, auditVars, proxy, queue, sync,
          initial, faults>>

Names == Users \cup Groups \cup Projects \cup Roles \cup Events

\* audit_resources, in the order of the audit.
Types == <<"users", "groups", "projects", "roles", "assignments", "events">>

TypeNames == [users |-> Users, groups |-> Groups, projects |-> Projects,
              roles |-> Roles, events |-> Events]

ASSUME ConstantsAssumption ==
  /\ ServiceUsers \subseteq Users \cap Deployed
  /\ Deployed \subseteq Users \cup Groups \cup Projects \cup Roles
  /\ DeployedGrants \subseteq Projects \X (Users \cup Groups) \X Roles
  /\ \A t \in DeployedGrants : {t[1], t[2], t[3]} \subseteq Deployed
  /\ \A s, t \in DOMAIN TypeNames : s # t => TypeNames[s] \cap TypeNames[t] = {}
  /\ {MaxChanges, MaxFaults} \subseteq Nat
  /\ MasterIds # {} /\ {"own", "none"} \cap MasterIds = {}
  /\ IsFiniteSet(Names) /\ IsFiniteSet(MasterIds)

Ids == MasterIds \cup {"own"}

\* How a resource is known: by name and id, or a role assignment by the three
\* resources it is between.
Keys(N) == N \X Ids
Triples == Keys(Projects) \X Keys(Users \cup Groups) \X Keys(Roles)

OfType(k, type) ==
  k \in IF type = "assignments" THEN Triples ELSE Keys(TypeNames[type])

\* Every attribute but name and id: the client's change that wrote it last, or
\* Foreign for what the subcloud has from elsewhere.
Foreign == -1
Data == Foreign..MaxChanges

Gone == [id |-> "none", data |-> 0]

Has(table, k) == table[k[1]] # Gone /\ table[k[1]].id = k[2]

KeyOf(table, n) == <<n, table[n].id>>

\* A request, of the resource with the key; a PUT is to the one of the subcloud
\* with the id "at", a PATCH sets the data.
Request(op, k) == [op |-> op, key |-> k, at |-> "none", data |-> 0]
NoRequest == Request("none", <<>>)

NoSync == [pc |-> "idle", rec |-> Gone]
NoLists == [t \in {} |-> {}]
NoAudit == [type |-> 1, pc |-> "look", busy |-> {}, seen |-> {}]

Between(table, t) == <<KeyOf(table, t[1]), KeyOf(table, t[2]), KeyOf(table, t[3])>>

\* A subcloud has been deployed, with accounts of its own.
Init ==
  /\ \E i \in MasterIds :
       /\ master = [n \in Names |->
                      IF n \in Deployed THEN [id |-> i, data |-> 0] ELSE Gone]
       /\ site = [n \in Names |->
                    IF n \notin Deployed THEN Gone
                    ELSE [id |-> IF n \in ServiceUsers THEN i ELSE "own",
                          data |-> Foreign]]
  /\ grants = {Between(master, t) : t \in DeployedGrants}
  /\ held = {Between(site, t) : t \in DeployedGrants}
  /\ spent = {KeyOf(master, n) : n \in Deployed}
  /\ proxy = NoRequest
  /\ queue = <<>>
  /\ sync = NoSync
  /\ tracked = {} /\ mapped = {}
  /\ audit = NoAudit
  /\ cache = NoLists
  /\ initial = "users"
  /\ changes = 0 /\ faults = 0

Fault ==
  /\ faults < MaxFaults
  /\ faults' = faults + 1

-------------------------------------------------------------------------------
(* The system controller: keystone, and the API proxy before it.           *)

Change(request) ==
  /\ proxy = NoRequest
  /\ changes < MaxChanges
  /\ changes' = changes + 1
  /\ proxy' = request
  /\ UNCHANGED <<siteVars, dcorchVars, auditVars, queue, sync, initial, faults>>

\* A request to create a resource, or to revoke a token: its id is in the
\* response.
Create(n, i) ==
  /\ master[n] = Gone
  /\ <<n, i>> \notin spent
  /\ master' = [master EXCEPT ![n] = [id |-> i, data |-> changes + 1]]
  /\ spent' = spent \cup {<<n, i>>}
  /\ UNCHANGED grants
  /\ Change(Request("post", <<n, i>>))

\* A request to change one; a user that changes the password is one too, and a
\* change of a group's members becomes a PUT of the group.
Edit(n, op) ==
  /\ master[n] # Gone
  /\ n \notin Events
  /\ op = "put" => n \in Groups
  /\ master' = [master EXCEPT ![n] = [id |-> @.id, data |-> changes + 1]]
  /\ UNCHANGED <<grants, spent>>
  /\ Change([op |-> op, key |-> KeyOf(master, n), at |-> master[n].id,
             data |-> changes + 1])

Without(assignments, k) == {t \in assignments : k \notin {t[1], t[2], t[3]}}

\* A request to delete one: keystone deletes its role assignments with it.
Destroy(n) ==
  /\ master[n] # Gone
  /\ n \notin Events
  /\ master' = [master EXCEPT ![n] = Gone]
  /\ grants' = Without(grants, KeyOf(master, n))
  /\ UNCHANGED spent
  /\ Change(Request("delete", KeyOf(master, n)))

\* A grant is a PUT that the proxy turns into a POST, a revocation a DELETE.
Grant(t) ==
  /\ \A j \in 1..3 : Has(master, t[j])
  /\ t \notin grants
  /\ grants' = grants \cup {t}
  /\ UNCHANGED <<master, spent>>
  /\ Change(Request("post", t))

Revoke(t) ==
  /\ t \in grants
  /\ grants' = grants \ {t}
  /\ UNCHANGED <<master, spent>>
  /\ Change(Request("delete", t))

\* enqueue_work: the resource is tracked from now on.
Enqueue ==
  /\ proxy # NoRequest
  /\ queue' = Append(queue, proxy)
  /\ tracked' = tracked \cup {proxy.key}
  /\ proxy' = NoRequest
  /\ UNCHANGED <<masterVars, siteVars, mapped, auditVars, sync, initial, faults>>

\* The proxy dies, or cannot enqueue, after keystone has answered.
ProxyDies ==
  /\ proxy # NoRequest
  /\ Fault
  /\ proxy' = NoRequest
  /\ UNCHANGED <<masterVars, siteVars, dcorchVars, auditVars, queue, sync, initial>>

-------------------------------------------------------------------------------
(* dcdbsync in the subcloud writes the records of the system controller    *)
(* into keystone's tables, around keystone.  Where that changes an id, the *)
(* role assignments that refer to it follow.                               *)

Moved(k, old, new) == IF k = old THEN new ELSE k

WrongUserFollows(old, new) == held

\* user_update and group_update: actor_id in the table of assignments.
UserFollows(old, new) == {<<t[1], Moved(t[2], old, new), t[3]>> : t \in held}

GroupFollows(old, new) == {<<t[1], Moved(t[2], old, new), t[3]>> : t \in held}

\* project_update: target_id.
ProjectFollows(old, new) == {<<Moved(t[1], old, new), t[2], t[3]>> : t \in held}

\* role_update: role_id.
RoleFollows(old, new) == {<<t[1], t[2], Moved(t[3], old, new)>> : t \in held}

-------------------------------------------------------------------------------
(* initial_sync.  Some account of every type but the groups always exists. *)

\* The resources of a name both have that are to be made those of the system
\* controller: the ids differ, or it is a service user's.
Differing(type) ==
  {n \in TypeNames[type] :
     /\ master[n] # Gone /\ site[n] # Gone /\ site[n] # master[n]
     /\ site[n].id # master[n].id \/ n \in ServiceUsers}

\* One update after the other, and on to the next type.
InitialOf(type, Follows(_, _), next) ==
  /\ initial = type
  /\ \/ \E n \in Differing(type) :
          /\ site' = [site EXCEPT ![n] = master[n]]
          /\ held' = Follows(KeyOf(site, n), KeyOf(master, n))
          /\ UNCHANGED initial
     \/ /\ Differing(type) = {}
        /\ initial' = next
        /\ UNCHANGED siteVars
  /\ UNCHANGED <<masterVars, dcorchVars, auditVars, proxy, queue, sync, faults>>

InitialUsers == InitialOf("users", UserFollows, "groups")
InitialGroups == InitialOf("groups", GroupFollows, "projects")
InitialProjects == InitialOf("projects", ProjectFollows, "roles")
InitialRoles == InitialOf("roles", RoleFollows, "done")

InitialFails ==
  /\ initial \notin {"users", "done"}
  /\ Fault
  /\ initial' = "users"
  /\ UNCHANGED <<masterVars, siteVars, dcorchVars, auditVars, proxy, queue, sync>>

-------------------------------------------------------------------------------
(* The sync thread: the handler of the first request, by its operation.  A *)
(* CREATE of the audit is a POST.                                          *)

request == Head(queue)

Handling(type, op, pc) ==
  /\ initial = "done"
  /\ queue # <<>>
  /\ OfType(request.key, type)
  /\ request.op = op
  /\ sync.pc = pc

Mapping(k) == {m \in mapped : m.of = k}

WrongFinish == queue' = Tail(queue) /\ UNCHANGED sync

\* The request is over: completed, or failed and then not tried again.
Finish ==
  /\ queue' = Tail(queue)
  /\ sync' = NoSync

GoOn(pc, rec) ==
  /\ sync' = [pc |-> pc, rec |-> rec]
  /\ UNCHANGED queue

\* post and put: the record as the system controller has it by now.
Fetch(type) ==
  /\ Handling(type, "post", "idle") \/ Handling(type, "put", "idle")
  /\ IF Has(master, request.key) THEN GoOn("push", master[request.key[1]]) ELSE Finish
  /\ UNCHANGED siteVars

\* post: the subcloud's dcdbsync inserts it, which a name that is taken fails.
Insert(type) ==
  /\ Handling(type, "post", "push")
  /\ LET n == request.key[1]
     IN IF site[n] = Gone \/ type = "events"
        THEN site' = [site EXCEPT ![n] = sync.rec] /\ GoOn("save", Gone)
        ELSE UNCHANGED site /\ Finish
  /\ UNCHANGED held

\* put: dcdbsync updates the rows of the id given and returns those of the new
\* id, also when an earlier try had done it already.
Amend(type, Follows(_, _)) ==
  /\ Handling(type, "put", "push")
  /\ LET n == request.key[1]
     IN IF Has(site, <<n, request.at>>)
        THEN /\ site' = [site EXCEPT ![n] = sync.rec]
             /\ held' = Follows(KeyOf(site, n), <<n, sync.rec.id>>)
             /\ GoOn("save", Gone)
        ELSE /\ UNCHANGED siteVars
             /\ IF Has(site, request.key) THEN GoOn("save", Gone) ELSE Finish

\* patch: through keystone, of the resource mapped; without one it is nothing.
Patch(type) ==
  /\ Handling(type, "patch", "idle")
  /\ site' = [n \in Names |->
                IF site[n] # Gone /\ [of |-> request.key, is |-> KeyOf(site, n)] \in mapped
                THEN [id |-> site[n].id, data |-> request.data] ELSE site[n]]
  /\ UNCHANGED held
  /\ Finish

\* delete: through keystone, of the resource mapped, which may be gone.
Delete(type) ==
  /\ Handling(type, "delete", "idle")
  /\ IF Mapping(request.key) = {} THEN UNCHANGED siteVars /\ Finish
     ELSE /\ \E m \in Mapping(request.key) :
               IF Has(site, m.is)
               THEN /\ site' = [site EXCEPT ![m.is[1]] = Gone]
                    /\ held' = Without(held, KeyOf(site, m.is[1]))
               ELSE UNCHANGED siteVars
          /\ GoOn("unmap", Gone)

\* The handlers of a type: post_, put_, patch_ and delete_ of it.
Handlers(type, Follows(_, _)) ==
  /\ Fetch(type) \/ Insert(type) \/ Amend(type, Follows) \/ Patch(type) \/ Delete(type)
  /\ UNCHANGED <<masterVars, dcorchVars, auditVars, proxy, initial, faults>>

SyncUsers == Handlers("users", UserFollows)
SyncGroups == Handlers("groups", GroupFollows)
SyncProjects == Handlers("projects", ProjectFollows)
SyncRoles == Handlers("roles", RoleFollows)

\* Granted through keystone, when project, actor and role are there.
PostAssignment ==
  /\ Handling("assignments", "post", "idle")
  /\ IF \A j \in 1..3 : Has(site, request.key[j])
     THEN held' = held \cup {request.key} /\ GoOn("save", Gone)
     ELSE UNCHANGED held /\ Finish
  /\ UNCHANGED <<masterVars, site, dcorchVars, auditVars, proxy, initial, faults>>

DeleteAssignment ==
  /\ Handling("assignments", "delete", "idle")
  /\ held' = held \ {m.is : m \in Mapping(request.key)}
  /\ IF Mapping(request.key) = {} THEN Finish ELSE GoOn("unmap", Gone)
  /\ UNCHANGED <<masterVars, site, dcorchVars, auditVars, proxy, initial, faults>>

PostEvent ==
  /\ Fetch("events") \/ Insert("events")
  /\ UNCHANGED <<masterVars, dcorchVars, auditVars, proxy, initial, faults>>

\* persist_db_subcloud_resource: one row per resource, made or corrected.
Persist(k, is) == mapped' = (mapped \ Mapping(k)) \cup {[of |-> k, is |-> is]}

Save ==
  /\ sync.pc = "save"
  /\ Persist(request.key, request.key)
  /\ Finish
  /\ UNCHANGED <<masterVars, siteVars, tracked, auditVars, proxy, initial, faults>>

Unmap ==
  /\ sync.pc = "unmap"
  /\ mapped' = mapped \ Mapping(request.key)
  /\ Finish
  /\ UNCHANGED <<masterVars, siteVars, tracked, auditVars, proxy, initial, faults>>

\* A call fails or times out, done or not: the request is tried again, now or
\* in a later sync, or it has failed for good.
SyncFails ==
  /\ initial = "done" /\ queue # <<>>
  /\ Fault
  /\ sync' = NoSync
  /\ queue' = Tail(queue) \/ (sync.pc # "idle" /\ UNCHANGED queue)
  /\ UNCHANGED <<masterVars, siteVars, dcorchVars, auditVars, proxy, initial>>

-------------------------------------------------------------------------------
(* The audit thread: sync_audit, one type of resource after the other.     *)

current == Types[audit.type]

\* What a keystone lists of a type, the accounts with all their attributes.
Accounts(names, table) ==
  {[key |-> KeyOf(table, n), data |-> table[n].data] :
     n \in {m \in names : table[m] # Gone}}

Assignments(assignments) == {[key |-> t, data |-> 0] : t \in assignments}

List(t, table, assignments) ==
  IF t = "assignments" THEN Assignments(assignments)
  ELSE Accounts(TypeNames[t], table)

WrongSameResource(m, s) == m.key = s.key

\* All attributes are compared, the id too.
SameResource(m, s) == m = s

\* The same name, or else the same id, is the same resource; an assignment and
\* an event are what they are.
SameIds(m, s) ==
  IF current \in {"assignments", "events"} THEN m.key = s.key ELSE m.key[1] = s.key[1]

\* get_cached_master_resources: whichever audit of this process asks first,
\* until one of them is through.
MasterList ==
  IF current \in DOMAIN cache THEN cache[current] ELSE List(current, master, grants)

\* On to the next type; after the last one, post_audit clears the cache.
NextType ==
  IF audit.type = Len(Types) THEN audit' = NoAudit /\ cache' = NoLists
  ELSE /\ audit' = [NoAudit EXCEPT !.type = audit.type + 1]
       /\ cache' = [t \in DOMAIN cache \cup {current} |->
                      IF t = current THEN MasterList ELSE cache[t]]

\* The resources with requests, and then what the subcloud has.
AuditLook ==
  /\ initial = "done"
  /\ audit.pc = "look"
  /\ audit' = [audit EXCEPT !.pc = "compare",
                 !.busy = {k \in {queue[j].key : j \in 1..Len(queue)} : OfType(k, current)},
                 !.seen = List(current, site, held)]
  /\ UNCHANGED <<masterVars, siteVars, dcorchVars, cache, proxy, queue, sync,
                 initial, faults>>

\* audit_find_missing, a resource of the system controller: the one it is
\* mapped to is there and the same, or else ...
InSync(m) ==
  \E s \in audit.seen : SameResource(m, s) /\ [of |-> m.key, is |-> s.key] \in mapped

Alike(m) == {s \in audit.seen : SameIds(m, s)}

\* ... map_subcloud_resource, when it is mapped to none and one is alike;
ToMap(todo) == {m \in todo : Mapping(m.key) = {} /\ Alike(m) # {}}

\* audit_discrepancy: one that is alike gets a PUT;
ToUpdate(todo) == {m \in todo : Mapping(m.key) # {} /\ Alike(m) # {}}

\* and what nothing in the subcloud is alike is missing, and is created.
ToCreate(todo) == {m \in todo : Alike(m) = {}}

\* audit_find_extra: tracked, not in the system controller, and what it is
\* mapped to is there.  (Events are looked up by another id, and never found.)
Extra(masterList) ==
  {k \in tracked :
     /\ OfType(k, current) /\ current # "events"
     /\ k \notin audit.busy
     /\ k \notin {m.key : m \in masterList}
     /\ \E x \in Mapping(k) : x.is \in {s.key : s \in audit.seen}}

\* The one of the subcloud that a resource is taken for.
Equal(m) == (CHOOSE s \in Alike(m) : TRUE).key

AuditCompare ==
  /\ initial = "done"
  /\ audit.pc = "compare"
  /\ LET list == MasterList
         todo == {m \in list : m.key \notin audit.busy /\ ~InSync(m)}
         jobs == {Request("post", m.key) : m \in ToCreate(todo)}
                   \cup {[Request("put", m.key) EXCEPT !.at = Equal(m)[2]] : m \in ToUpdate(todo)}
                   \cup {Request("delete", k) : k \in Extra(list)}
     IN /\ queue' = queue \o SetToSeq(jobs)
        /\ mapped' = mapped \cup {[of |-> m.key, is |-> Equal(m)] : m \in ToMap(todo)}
        /\ tracked' = tracked \cup {m.key : m \in ToMap(todo) \cup ToCreate(todo)}
  /\ NextType
  /\ UNCHANGED <<masterVars, siteVars, proxy, sync, initial, faults>>

\* An exception skips the type; a keystone that cannot be reached ends the
\* audit at once, and the lists so far stay in the cache.
AuditFails ==
  /\ audit.pc = "compare"
  /\ Fault
  /\ NextType \/ (audit' = NoAudit /\ UNCHANGED cache)
  /\ UNCHANGED <<masterVars, siteVars, dcorchVars, proxy, queue, sync, initial>>

\* The audit of another subcloud has asked for the lists.
OtherAudit ==
  /\ Fault
  /\ cache' = [t \in {Types[j] : j \in 1..Len(Types)} |->
                 IF t \in DOMAIN cache THEN cache[t] ELSE List(t, master, grants)]
  /\ UNCHANGED <<masterVars, siteVars, dcorchVars, audit, proxy, queue, sync, initial>>

-------------------------------------------------------------------------------
(* Changes made in the subcloud itself, through its keystone.              *)

LocalChange(n) ==
  /\ n \notin Events
  /\ Fault
  /\ \/ site[n] = Gone /\ site' = [site EXCEPT ![n] = [id |-> "own", data |-> Foreign]]
        /\ UNCHANGED held
     \/ /\ site[n] # Gone
        /\ site' = [site EXCEPT ![n] = [id |-> @.id, data |-> Foreign]]
        /\ UNCHANGED held
     \/ /\ site[n] # Gone
        /\ site' = [site EXCEPT ![n] = Gone]
        /\ held' = Without(held, KeyOf(site, n))
  /\ UNCHANGED <<masterVars, dcorchVars, auditVars, proxy, queue, sync, initial>>

LocalGrant(t) ==
  /\ Fault
  /\ held' = IF t \in held THEN held \ {t} ELSE held \cup {t}
  /\ \A j \in 1..3 : Has(site, t[j])
  /\ UNCHANGED <<masterVars, site, dcorchVars, auditVars, proxy, queue, sync, initial>>

-------------------------------------------------------------------------------
MasterChange ==
  \/ \E n \in Names, i \in MasterIds : Create(n, i)
  \/ \E n \in Names, op \in {"patch", "put"} : Edit(n, op)
  \/ \E n \in Names : Destroy(n)
  \/ \E t \in Triples : Grant(t) \/ Revoke(t)

InitialSync == InitialUsers \/ InitialGroups \/ InitialProjects \/ InitialRoles

SyncStep ==
  \/ SyncUsers \/ SyncGroups \/ SyncProjects \/ SyncRoles
  \/ PostAssignment \/ DeleteAssignment \/ PostEvent
  \/ Save \/ Unmap

AuditStep == AuditLook \/ AuditCompare

Failure ==
  \/ ProxyDies \/ InitialFails \/ SyncFails \/ AuditFails \/ OtherAudit
  \/ \E n \in Names : LocalChange(n)
  \/ \E t \in Triples : LocalGrant(t)

Next == MasterChange \/ Enqueue \/ InitialSync \/ SyncStep \/ AuditStep \/ Failure

Spec == Init /\ [][Next]_vars

\* The engine runs the initial sync, syncs and audits again and again.
FairSpec ==
  Spec /\ WF_vars(Enqueue) /\ WF_vars(InitialSync)
       /\ WF_vars(SyncStep) /\ WF_vars(AuditStep)

-------------------------------------------------------------------------------
Records(ids) == {Gone} \cup [id : ids, data : Data]

AnyKey == Keys(Names) \cup Triples

TypeOK ==
  /\ master \in [Names -> Records(MasterIds)]
  /\ site \in [Names -> Records(Ids)]
  /\ grants \subseteq Triples /\ held \subseteq Triples
  /\ spent \subseteq Keys(Names)
  /\ tracked \subseteq AnyKey
  /\ mapped \subseteq [of : AnyKey, is : AnyKey]
  /\ \A x, y \in mapped : x.of = y.of => x = y
  /\ \A x \in mapped : x.of \in tracked
  /\ \A k \in {queue[j].key : j \in 1..Len(queue)} : k \in tracked
  /\ sync.pc \in {"idle", "push", "save", "unmap"}
  /\ queue = <<>> => sync = NoSync
  /\ DOMAIN cache \subseteq {Types[j] : j \in 1..Len(Types)}

\* A role assignment in the subcloud is always of a project, a user or group
\* and a role that are there by those ids: the updates dcdbsync makes of rows
\* of other tables, in the initial sync and for a PUT, change the ids under it.
AssignmentsRefer == \A t \in held : \A j \in 1..3 : Has(site, t[j])

\* What the system controller has, the subcloud has the same, and it has
\* nothing that dcorch has mapped to a resource the system controller no
\* longer has.
InStep ==
  /\ \A n \in Names : master[n] # Gone => site[n] = master[n]
  /\ grants \subseteq held
  /\ \A x \in mapped :
       IF x.is \in Triples THEN x.is \in held => x.of \in grants
       ELSE Has(site, x.is) /\ x.is[1] \notin Events => Has(master, x.of)

\* When the changes of clients, the failures and what is done in the subcloud
\* itself come to an end, the audits and the requests they enqueue bring the
\* subcloud into step for good: no stale list, no stale request and no wrong
\* mapping is left that would undo it again.
Converges == <>[]InStep

===============================================================================
