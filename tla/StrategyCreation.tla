--------------------------- MODULE StrategyCreation ---------------------------
(***************************************************************************)
(* Creating a software update strategy while the system goes on around it: *)
(* the API's checks of the request, then SwUpdateManager's                 *)
(* create_sw_update_strategy, which holds no lock.  It reads the subclouds *)
(* and their statuses once to refuse, and again group by group and         *)
(* subcloud by subcloud to create the steps (the loop of StrategyStages),  *)
(* while subclouds and groups change, while the strategy, present since it *)
(* was inserted, can be applied or deleted, and while the thread of an     *)
(* earlier deletion may still have its certificate to remove.              *)
(***************************************************************************)
EXTENDS StrategyStages

CONSTANTS Subclouds,     \* ids of the subclouds, a set of numbers
          Groups,        \* ids of the subcloud groups
          Files,         \* certificate files a client can name
          Payloads,      \* the requests clients send
          MaxCreations,  \* bound on the creations
          MaxChanges     \* bound on the changes of subclouds and groups

DefaultGroup == 1

Statuses == {"in-sync", "out-of-sync", "unknown"}

\* What a client may leave out of a request.
Optional(S) == {{}} \cup {{x} : x \in S}

PayloadType ==
  [type : {"patch", "upgrade", "firmware", "kubernetes", "kube-rootca", "prestage"},
   cloud : Optional(Subclouds), group : Optional(Groups), force : BOOLEAN,
   serial : Optional(BOOLEAN), max : Optional(1..MaxMaxParallel), cert : Optional(Files)]

ASSUME CreationAssumption ==
  /\ Subclouds \subseteq Nat /\ IsFiniteSet(Subclouds)
  /\ Groups \subseteq Nat /\ IsFiniteSet(Groups) /\ DefaultGroup \in Groups
  /\ Payloads \subseteq PayloadType /\ Payloads # {}
  /\ MaxCreations \in Nat /\ MaxChanges \in Nat

VARIABLES sub,       \* per subcloud: its group, whether managed and online, and the
                     \* status of the endpoint the strategy is about
          groupRow,  \* per group: whether it exists, its apply type and its limit
          strategy,  \* the strategy row, if any
          steps,     \* per subcloud the stage of its strategy step, 0 for none
          vault,     \* the certificate files in the vault
          removing,  \* the files that deletions are yet to remove
          pc,        \* the creation: where it is,
          request,   \* what was asked for,
          groupRows, \* the group rows read and not yet entered,
          rows,      \* and the subcloud rows read and not yet considered
          since,     \* history of the creation: see Watch
          late,      \* files stored again while the removal of the last copy was due
          creations, \* counts the creations
          changes    \* counts the changes

world == <<sub, groupRow>>
stageVars == <<acc, group, serial, maxPar, seen, placed>>
files == <<vault, removing, late>>
creator == <<pc, request, groupRows, rows>>
creationVars == <<stageVars, world, strategy, steps, files, creator, since,
                  creations, changes>>

-------------------------------------------------------------------------------
(* What the code reads.                                                    *)

\* In the order of the ids.
IdsUp(S) ==
  CHOOSE f \in [1..Cardinality(S) -> S] : \A i, j \in 1..Cardinality(S) : i < j => f[i] < f[j]

\* The API's checks of the options of a request.
Accepted(r) ==
  /\ r.force => \/ r.type \in {"kube-rootca", "kubernetes", "prestage", "upgrade"}
                \/ r.cloud # {}
  /\ r.group # {} => /\ r.cloud = {} /\ r.serial = {} /\ r.max = {}
                     /\ \A g \in r.group : groupRow[g].exists

InGroup(g) == {s \in Subclouds : sub[s].group = g}

\* The subclouds a request names, all of them when it names none.
Named(r, table) == IF r.cloud # {} THEN r.cloud
                  ELSE IF r.group # {} THEN {s \in Subclouds : table[s].group \in r.group}
                  ELSE Subclouds

\* Managed, and online unless an upgrade is forced.
Reachable(r, row) == row.managed /\ (row.online \/ (r.type = "upgrade" /\ r.force))

\* _validate_subcloud_status_sync, for the status row of the endpoint.
Needs(r, online, status) ==
  CASE r.type = "prestage" -> TRUE
    [] r.type = "upgrade" /\ r.force /\ ~online -> status # "in-sync"
    [] r.type \in {"kubernetes", "kube-rootca"} /\ r.force -> status # "unknown"
    [] OTHER -> status = "out-of-sync"

\* Only the first pass, which refuses, looks at the management state.
WrongStepNeeded(r, row) ==
  /\ r.cloud # {} => row.id \in r.cloud
  /\ row.online \/ (r.type = "upgrade" /\ r.force)
  /\ Needs(r, row.online, sub[row.id].status)

\* A subcloud of the list read for its group gets a step; its status is read
\* anew.
StepNeeded(r, row) ==
  /\ r.cloud # {} => row.id \in r.cloud
  /\ Reachable(r, row)
  /\ Needs(r, row.online, sub[row.id].status)

\* A subcloud named on its own whose status says there is nothing to do.
NotRequired(r) ==
  /\ r.type # "prestage"
  /\ ~(r.force /\ r.type \in {"kubernetes", "kube-rootca"})
  /\ \E s \in r.cloud : sub[s].status = "in-sync"

\* Online, managed and of unknown status: nobody knows whether it needs the
\* update, and the whole strategy is refused.
InDoubt(r, table) == {s \in Named(r, table) : /\ r.type # "prestage"
                                            /\ table[s].managed /\ table[s].online
                                            /\ table[s].status = "unknown"}

-------------------------------------------------------------------------------
(* History: the subclouds named that called for a step during the whole    *)
(* creation and neither moved nor went on- or offline, those that at some  *)
(* time were reachable and that at some time had a status calling for a    *)
(* step, those in doubt during all of it, and whether no deletion came     *)
(* between.                                                                *)

Calling(r, table) == {s \in Named(r, table) : /\ Reachable(r, table[s])
                                            /\ Needs(r, table[s].online, table[s].status)}
OnceReachable(r, table) == {s \in Named(r, table) : Reachable(r, table[s])}
OnceNeeding(r, table) ==
  {s \in Subclouds : \E online \in BOOLEAN : Needs(r, online, table[s].status)}

Unwatched == [always |-> {}, reachable |-> {}, needing |-> {}, doubt |-> {}, calm |-> TRUE]

Watch ==
  since' = IF pc = "idle" THEN since
           ELSE [since EXCEPT
                  !.always = {s \in @ \cap Calling(request, sub') :
                                /\ sub'[s].group = sub[s].group
                                /\ sub'[s].online = sub[s].online},
                  !.reachable = @ \cup OnceReachable(request, sub'),
                  !.needing = @ \cup OnceNeeding(request, sub'),
                  !.doubt = @ \cap InDoubt(request, sub')]

-------------------------------------------------------------------------------
(* The creation.                                                           *)

NoRequest == CHOOSE r \in Payloads : TRUE

\* The loop's variables before the first group, and no step created.
StagesReset ==
  /\ acc' = FirstStage /\ group' = 0 /\ serial' = FALSE
  /\ maxPar' = 1 /\ seen' = 0 /\ placed' = <<>>

Row(g) == [id |-> g, serial |-> groupRow[g].serial, max |-> groupRow[g].max]

\* POST: the API's checks, then the manager's: no strategy exists; the row of
\* the group is read once; a subcloud named on its own must need the update,
\* and for a prestage be ready.  The checks of a prestage look at the system
\* controller and at the subcloud's deploy status too, and may refuse.
CreateStrategy ==
  /\ pc = "idle" /\ pc' = "statuses"
  /\ strategy = {}
  /\ creations < MaxCreations
  /\ \E r \in Payloads :
       /\ Accepted(r)
       /\ ~NotRequired(r)
       /\ r.type = "prestage" => \A s \in r.cloud : sub[s].managed /\ sub[s].online
       /\ request' = r
       /\ groupRows' = IF r.group = {} THEN <<>> ELSE <<Row(CHOOSE g \in r.group : TRUE)>>
       /\ since' = [always |-> Calling(r, sub), reachable |-> OnceReachable(r, sub),
                    needing |-> OnceNeeding(r, sub), doubt |-> InDoubt(r, sub),
                    calm |-> \A s \in Subclouds : steps[s] = 0]
  /\ creations' = creations + 1
  /\ StagesReset
  /\ UNCHANGED <<world, strategy, steps, files, rows, changes>>

Proceed(to) == pc' = to /\ UNCHANGED <<request, groupRows, rows, since>>
Finish == /\ pc' = "idle" /\ request' = NoRequest /\ groupRows' = <<>> /\ rows' = <<>>
          /\ since' = Unwatched

\* One pass over all subclouds and statuses.  The request is refused when the
\* need of a subcloud is unknown, or for its extra arguments.
CheckStatuses ==
  /\ pc = "statuses"
  /\ IF InDoubt(request, sub) # {} THEN Finish
     ELSE Proceed(IF request.cert = {} THEN "insert" ELSE "upload")
  /\ UNCHANGED <<stageVars, world, strategy, steps, files, creations, changes>>

\* _process_extra_args_creation: the certificate is copied to the vault.
\* Arguments that are refused, and a copy that fails, end the creation.
UploadCertificate ==
  /\ pc = "upload"
  /\ \/ /\ vault' = vault \cup request.cert
        /\ late' = (late \ request.cert) \cup (removing \cap request.cert)
        /\ Proceed("insert")
     \/ Finish /\ UNCHANGED <<vault, late>>
  /\ UNCHANGED <<stageVars, world, strategy, steps, removing, creations, changes>>

\* The strategy is inserted, and the groups to go through are read.
InsertStrategy ==
  /\ pc = "insert" /\ pc' = "groups"
  /\ strategy' = strategy \cup {[state |-> "initial", cert |-> request.cert]}
  /\ LET here == {g \in Groups : groupRow[g].exists}
     IN groupRows' = IF request.group = {}
                     THEN [i \in 1..Cardinality(here) |-> Row(IdsUp(here)[i])]
                     ELSE groupRows
  /\ UNCHANGED <<stageVars, world, steps, files, request, rows, since, creations, changes>>

\* The next group: its subclouds are read, with their management state and
\* availability.  The options of the request go before the group's.
EnterGroup ==
  /\ pc = "groups" /\ rows = <<>> /\ groupRows # <<>>
  /\ NextGroup
  /\ LET g == Head(groupRows)
         ids == IdsUp(InGroup(g.id))
     IN /\ serial' = IF request.serial = {} THEN g.serial ELSE TRUE \in request.serial
        /\ maxPar' = IF request.max = {} THEN g.max ELSE CHOOSE n \in request.max : TRUE
        /\ groupRows' = Tail(groupRows)
        /\ rows' = [i \in DOMAIN ids |-> [id |-> ids[i], managed |-> sub[ids[i]].managed,
                                          online |-> sub[ids[i]].online]]
  /\ UNCHANGED <<world, strategy, steps, files, pc, request, since, creations, changes>>

\* The next subcloud of the group.  A subcloud has one strategy step: if it
\* has one, the insertion fails and the creation ends where it is.
ConsiderSubcloud ==
  /\ pc = "groups" /\ rows # <<>>
  /\ LET row == Head(rows)
         needed == StepNeeded(request, row)
         next == rows' = Tail(rows) /\ UNCHANGED <<pc, request, groupRows, since>>
     IN \/ ~needed /\ PassOver /\ next /\ UNCHANGED steps
        \/ /\ needed /\ steps[row.id] = 0
           /\ PlaceStep /\ next
           /\ steps' = [steps EXCEPT ![row.id] = acc.counter]
        \/ needed /\ steps[row.id] # 0 /\ Finish /\ UNCHANGED <<stageVars, steps>>
  /\ UNCHANGED <<world, strategy, files, creations, changes>>

Created == pc = "groups" /\ rows = <<>> /\ groupRows = <<>>

ReturnStrategy ==
  /\ Created /\ placed # <<>>
  /\ Finish
  /\ UNCHANGED <<stageVars, world, strategy, steps, files, creations, changes>>

\* Nothing to do: the strategy is left for the orchestrator to delete, if it
\* is still there, and its certificate is removed.
NoSteps ==
  /\ Created /\ placed = <<>>
  /\ strategy' = {[s EXCEPT !.state = "deleting"] : s \in strategy}
  /\ removing' = removing \cup UNION {s.cert : s \in strategy}
  /\ Finish
  /\ UNCHANGED <<stageVars, world, steps, vault, late, creations, changes>>

-------------------------------------------------------------------------------
(* The strategy's clients and the orchestrator.                            *)

SetState(from, to) ==
  \E s \in strategy : s.state \in from /\ strategy' = {[s EXCEPT !.state = to]}

ApplyStrategy ==
  /\ SetState({"initial"}, "applying")
  /\ UNCHANGED <<stageVars, world, steps, files, creator, since, creations, changes>>

\* The orchestrator ends an apply; complete, failed and aborted are one here.
EndStrategy ==
  /\ SetState({"applying"}, "ended")
  /\ UNCHANGED <<stageVars, world, steps, files, creator, since, creations, changes>>

\* The file goes before anybody has looked at the strategy's state.
WrongDeleteStrategy ==
  /\ \/ SetState({"initial", "ended"}, "deleting")
     \/ strategy # {} /\ UNCHANGED strategy
  /\ removing' = removing \cup UNION {s.cert : s \in strategy}
  /\ UNCHANGED <<stageVars, world, steps, vault, late, creator, since, creations, changes>>

\* The state changes under the strategy lock; the certificate is removed
\* after the lock has been released.
DeleteStrategy ==
  /\ SetState({"initial", "ended"}, "deleting")
  /\ removing' = removing \cup UNION {s.cert : s \in strategy}
  /\ UNCHANGED <<stageVars, world, steps, vault, late, creator, since, creations, changes>>

\* _process_extra_args_deletion, whoever has stored the file since.
RemoveCertificate ==
  \E f \in removing :
    /\ removing' = removing \ {f}
    /\ vault' = vault \ {f}
    /\ UNCHANGED <<stageVars, world, strategy, steps, late, creator, since, creations,
                   changes>>

\* The orchestrator destroys the steps, all there are, and the strategy.  The
\* creation, when it is not over, goes on.
DestroyStrategy ==
  /\ \E s \in strategy : s.state = "deleting"
  /\ strategy' = {}
  /\ steps' = [s \in Subclouds |-> 0]
  /\ since' = [since EXCEPT !.calm = @ /\ pc = "idle"]
  /\ UNCHANGED <<stageVars, world, files, creator, creations, changes>>

-------------------------------------------------------------------------------
(* Subclouds and groups change.                                            *)

Changing == changes < MaxChanges /\ changes' = changes + 1

Manage ==
  /\ \E s \in Subclouds : sub' = [sub EXCEPT ![s].managed = ~@]
  /\ Changing /\ Watch
  /\ UNCHANGED <<stageVars, groupRow, strategy, steps, files, creator, creations>>

AvailabilityChanges ==
  /\ \E s \in Subclouds : sub' = [sub EXCEPT ![s].online = ~@]
  /\ Changing /\ Watch
  /\ UNCHANGED <<stageVars, groupRow, strategy, steps, files, creator, creations>>

StatusChanges ==
  /\ \E s \in Subclouds, status \in Statuses :
       sub[s].status # status /\ sub' = [sub EXCEPT ![s].status = status]
  /\ Changing /\ Watch
  /\ UNCHANGED <<stageVars, groupRow, strategy, steps, files, creator, creations>>

\* PATCH of a subcloud's group, which the API checks and the database refuses
\* when there is none.
MoveSubcloud ==
  /\ \E s \in Subclouds, g \in Groups :
       /\ groupRow[g].exists /\ sub[s].group # g
       /\ sub' = [sub EXCEPT ![s].group = g]
  /\ Changing /\ Watch
  /\ UNCHANGED <<stageVars, groupRow, strategy, steps, files, creator, creations>>

PostGroup ==
  /\ \E g \in Groups, s \in BOOLEAN, n \in 1..MaxMaxParallel :
       /\ ~groupRow[g].exists
       /\ groupRow' = [groupRow EXCEPT ![g] = [exists |-> TRUE, serial |-> s, max |-> n]]
  /\ Changing
  /\ UNCHANGED <<stageVars, sub, strategy, steps, files, creator, since, creations>>

PatchGroup ==
  /\ \E g \in Groups, s \in BOOLEAN, n \in 1..MaxMaxParallel :
       /\ groupRow[g].exists
       /\ groupRow' = [groupRow EXCEPT ![g].serial = s, ![g].max = n]
       /\ groupRow' # groupRow
  /\ Changing
  /\ UNCHANGED <<stageVars, sub, strategy, steps, files, creator, since, creations>>

\* DELETE of a group other than the default one, found empty; the database
\* refuses to destroy a group that has been given a subcloud since.
DeleteGroup ==
  /\ \E g \in Groups \ {DefaultGroup} :
       /\ groupRow[g].exists /\ InGroup(g) = {}
       /\ groupRow' = [groupRow EXCEPT ![g].exists = FALSE]
  /\ Changing
  /\ UNCHANGED <<stageVars, sub, strategy, steps, files, creator, since, creations>>

-------------------------------------------------------------------------------

CreationInit ==
  /\ Init
  /\ sub \in [Subclouds -> [group : Groups, managed : {TRUE}, online : {TRUE},
                            status : {"in-sync", "out-of-sync"}]]
  /\ groupRow \in [Groups -> [exists : BOOLEAN, serial : {FALSE}, max : {MaxMaxParallel}]]
  /\ \A g \in Groups : g = DefaultGroup \/ InGroup(g) # {} => groupRow[g].exists
  /\ strategy = {}
  /\ steps = [s \in Subclouds |-> 0]
  /\ vault = {} /\ removing = {} /\ late = {}
  /\ pc = "idle" /\ request = NoRequest /\ groupRows = <<>> /\ rows = <<>>
  /\ since = Unwatched
  /\ creations = 0 /\ changes = 0

CreationNext ==
  \/ CreateStrategy \/ CheckStatuses \/ UploadCertificate \/ InsertStrategy
  \/ EnterGroup \/ ConsiderSubcloud \/ ReturnStrategy \/ NoSteps
  \/ ApplyStrategy \/ EndStrategy \/ DeleteStrategy \/ RemoveCertificate
  \/ DestroyStrategy
  \/ Manage \/ AvailabilityChanges \/ StatusChanges \/ MoveSubcloud
  \/ PostGroup \/ PatchGroup \/ DeleteGroup

CreationSpec == CreationInit /\ [][CreationNext]_creationVars

-------------------------------------------------------------------------------

CreationTypeOK ==
  /\ TypeOK
  /\ sub \in [Subclouds -> [group : Groups, managed : BOOLEAN, online : BOOLEAN,
                            status : Statuses]]
  /\ groupRow \in [Groups -> [exists : BOOLEAN, serial : BOOLEAN, max : 1..MaxMaxParallel]]
  /\ strategy \subseteq [state : {"initial", "applying", "ended", "deleting"},
                         cert : SUBSET Files]
  /\ \A s, t \in strategy : s = t
  /\ steps \in [Subclouds -> Nat]
  /\ vault \cup removing \cup late \subseteq Files
  /\ pc \in {"idle", "statuses", "upload", "insert", "groups"}
  /\ request \in Payloads
  /\ creations \in 0..MaxCreations /\ changes \in 0..MaxChanges

(* What the client gets is what was asked for: of a creation that no       *)
(* deletion cut into, the subclouds that called for the update all along   *)
(* and stayed what they were have a step, a subcloud that has one was at   *)
(* some time reachable and at some time in need, and none was in doubt all *)
(* along.                                                                  *)
CreatedAsAsked ==
  Created /\ placed # <<>> /\ since.calm =>
    LET stepped == {s \in Subclouds : steps[s] # 0}
    IN /\ since.always \subseteq stepped
       /\ stepped \subseteq since.reachable \cap since.needing
       /\ since.doubt = {}

(* A strategy that waits to be applied or is applied finds its certificate *)
(* in the vault, unless it was stored before the removal of an earlier     *)
(* strategy's copy had been carried out.                                   *)
CertificateKept ==
  \A s \in strategy : s.state \in {"initial", "applying"} => s.cert \subseteq vault \cup late
===============================================================================
