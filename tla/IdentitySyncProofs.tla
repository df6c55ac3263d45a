-------------------------- MODULE IdentitySyncProofs ---------------------------
(***************************************************************************)
(* For any names, ids and grants, and any number of changes and failures:  *)
(* the role assignments in the subcloud refer to what is there, and the    *)
(* tables, requests and lists keep their types.                            *)
(***************************************************************************)
EXTENDS IdentitySync, FiniteSetTheorems, SequenceTheorems, TLAPS

\* A keystone's records: by name, each with an id of the set, or gone.
IsTable(table, ids) ==
  /\ table = [n \in Names |-> table[n]]
  /\ \A n \in Names : table[n] # Gone => table[n].id \in ids

\* What a handler is about to write is a record.
WritesRecord == sync.pc = "push" => sync.rec # Gone /\ sync.rec.id \in Ids

\* The subcloud's keystone: its records, its assignments, what they refer to.
SiteOK ==
  /\ IsTable(site, Ids)
  /\ held \subseteq Triples
  /\ AssignmentsRefer

IInv ==
  /\ IsTable(master, MasterIds)
  /\ WritesRecord
  /\ SiteOK

\* Writing one record keeps the table one of records.
LEMMA RecordWritten ==
  ASSUME NEW table, NEW ids, IsTable(table, ids), NEW n, NEW rec,
         rec # Gone => rec.id \in ids, NEW after, after = [table EXCEPT ![n] = rec]
  PROVE  /\ IsTable(after, ids)
         /\ \A m \in Names : after[m] = IF m = n THEN rec ELSE table[m]
<1>1. \A m \in Names : after[m] = IF m = n THEN rec ELSE table[m]
  BY DEF IsTable
<1>2. after = [m \in Names |-> after[m]]
  BY DEF IsTable
<1> QED BY <1>1, <1>2 DEF IsTable

\* The types of names share none.
LEMMA NamesApart ==
  /\ Users \cap Projects = {} /\ Users \cap Roles = {} /\ Groups \cap Projects = {}
  /\ Groups \cap Roles = {} /\ Projects \cap Roles = {} /\ Events \cap Users = {}
  /\ Events \cap Groups = {} /\ Events \cap Projects = {} /\ Events \cap Roles = {}
<1>1. {"users", "groups", "projects", "roles", "events"} \subseteq DOMAIN TypeNames
  BY DEF TypeNames
<1>2. \A s, t \in DOMAIN TypeNames : s # t => TypeNames[s] \cap TypeNames[t] = {}
  BY ConstantsAssumption DEF ConstantsAssumption
<1>3. /\ TypeNames["users"] = Users /\ TypeNames["groups"] = Groups
      /\ TypeNames["projects"] = Projects /\ TypeNames["roles"] = Roles
      /\ TypeNames["events"] = Events
  BY DEF TypeNames
<1>4. \A s, t \in {"users", "groups", "projects", "roles", "events"} :
        s # t => TypeNames[s] \cap TypeNames[t] = {}
  BY <1>1, <1>2
<1> QED BY <1>3, <1>4

\* The keys of an assignment.
LEMMA TripleKeys ==
  ASSUME NEW t \in Triples
  PROVE  /\ t = <<t[1], t[2], t[3]>>
         /\ t[1] \in Keys(Projects) /\ t[2] \in Keys(Users \cup Groups)
         /\ t[3] \in Keys(Roles)
BY DEF Triples

LEMMA KeysOfNames ==
  ASSUME NEW N, NEW k \in Keys(N)
  PROVE  k[1] \in N /\ k[2] \in Ids /\ k = <<k[1], k[2]>>
BY DEF Keys

\* Giving n another record: a key that was its record's is the new one's, any
\* other still refers to what it did.
LEMMA KeyMoves ==
  ASSUME IsTable(site, Ids), NEW n \in Names, NEW rec, rec # Gone, rec.id \in Ids,
         site' = [site EXCEPT ![n] = rec],
         NEW N \in SUBSET Names, NEW k \in Keys(N), Has(site, k)
  PROVE  /\ k = KeyOf(site, n) => n \in N
         /\ LET to == Moved(k, KeyOf(site, n), <<n, rec.id>>)
            IN to \in Keys(N) /\ Has(site', to)
<1>1. k[1] \in N /\ k[2] \in Ids /\ k = <<k[1], k[2]>>
  BY KeysOfNames
<1>2. \A m \in Names : site'[m] = IF m = n THEN rec ELSE site[m]
  BY RecordWritten
<1>3. CASE k = KeyOf(site, n)
  <2>1. k[1] = n
    BY <1>3 DEF KeyOf
  <2>2. <<n, rec.id>> \in Keys(N)
    BY <2>1, <1>1 DEF Keys
  <2>3. Has(site', <<n, rec.id>>)
    BY <1>2 DEF Has
  <2> QED BY <1>1, <1>3, <2>1, <2>2, <2>3 DEF Moved
<1>4. CASE k # KeyOf(site, n)
  <2>1. k[1] # n
    BY <1>4, <1>1 DEF Has, KeyOf
  <2>2. Has(site', k)
    BY <2>1, <1>1, <1>2 DEF Has
  <2> QED BY <1>4, <2>2 DEF Moved
<1> QED BY <1>3, <1>4

\* So an update with the rows that refer to the record keeps them all.
LEMMA UpdateKeeps ==
  ASSUME IsTable(site, Ids), held \subseteq Triples, AssignmentsRefer,
         NEW n \in Names, NEW rec, rec # Gone, rec.id \in Ids,
         site' = [site EXCEPT ![n] = rec],
         \/ n \in Users /\ held' = UserFollows(KeyOf(site, n), <<n, rec.id>>)
         \/ n \in Groups /\ held' = GroupFollows(KeyOf(site, n), <<n, rec.id>>)
         \/ n \in Projects /\ held' = ProjectFollows(KeyOf(site, n), <<n, rec.id>>)
         \/ n \in Roles /\ held' = RoleFollows(KeyOf(site, n), <<n, rec.id>>)
  PROVE  /\ IsTable(site', Ids)
         /\ held' \subseteq Triples
         /\ AssignmentsRefer'
<1> DEFINE to(k) == Moved(k, KeyOf(site, n), <<n, rec.id>>)
<1>0. /\ Projects \subseteq Names /\ Roles \subseteq Names
      /\ (Users \cup Groups) \subseteq Names
  BY DEF Names
<1>1. IsTable(site', Ids)
  BY RecordWritten
<1>2. ASSUME NEW t \in held
      PROVE  /\ to(t[1]) \in Keys(Projects) /\ Has(site', to(t[1]))
             /\ to(t[2]) \in Keys(Users \cup Groups) /\ Has(site', to(t[2]))
             /\ to(t[3]) \in Keys(Roles) /\ Has(site', to(t[3]))
             /\ t[1] = KeyOf(site, n) => n \in Projects
             /\ t[2] = KeyOf(site, n) => n \in Users \cup Groups
             /\ t[3] = KeyOf(site, n) => n \in Roles
  <2>1. /\ t[1] \in Keys(Projects) /\ t[2] \in Keys(Users \cup Groups)
        /\ t[3] \in Keys(Roles)
    BY TripleKeys
  <2>2. Has(site, t[1]) /\ Has(site, t[2]) /\ Has(site, t[3])
    BY DEF AssignmentsRefer
  <2>3. /\ t[1] = KeyOf(site, n) => n \in Projects
        /\ to(t[1]) \in Keys(Projects) /\ Has(site', to(t[1]))
    BY <1>0, <2>1, <2>2, KeyMoves
  <2>4. /\ t[2] = KeyOf(site, n) => n \in Users \cup Groups
        /\ to(t[2]) \in Keys(Users \cup Groups) /\ Has(site', to(t[2]))
    BY <1>0, <2>1, <2>2, KeyMoves
  <2>5. /\ t[3] = KeyOf(site, n) => n \in Roles
        /\ to(t[3]) \in Keys(Roles) /\ Has(site', to(t[3]))
    BY <1>0, <2>1, <2>2, KeyMoves
  <2> QED BY <2>3, <2>4, <2>5
<1>3. ASSUME NEW u \in held'
      PROVE  \E t \in held : u = <<to(t[1]), to(t[2]), to(t[3])>>
  <2>1. CASE n \in Users /\ held' = UserFollows(KeyOf(site, n), <<n, rec.id>>)
    <3>1. PICK t \in held : u = <<t[1], to(t[2]), t[3]>>
      BY <2>1 DEF UserFollows
    <3>2. to(t[1]) = t[1] /\ to(t[3]) = t[3]
      BY <2>1, <1>2, NamesApart DEF Moved
    <3> QED BY <3>1, <3>2
  <2>2. CASE n \in Groups /\ held' = GroupFollows(KeyOf(site, n), <<n, rec.id>>)
    <3>1. PICK t \in held : u = <<t[1], to(t[2]), t[3]>>
      BY <2>2 DEF GroupFollows
    <3>2. to(t[1]) = t[1] /\ to(t[3]) = t[3]
      BY <2>2, <1>2, NamesApart DEF Moved
    <3> QED BY <3>1, <3>2
  <2>3. CASE n \in Projects /\ held' = ProjectFollows(KeyOf(site, n), <<n, rec.id>>)
    <3>1. PICK t \in held : u = <<to(t[1]), t[2], t[3]>>
      BY <2>3 DEF ProjectFollows
    <3>2. to(t[2]) = t[2] /\ to(t[3]) = t[3]
      BY <2>3, <1>2, NamesApart DEF Moved
    <3> QED BY <3>1, <3>2
  <2>4. CASE n \in Roles /\ held' = RoleFollows(KeyOf(site, n), <<n, rec.id>>)
    <3>1. PICK t \in held : u = <<t[1], t[2], to(t[3])>>
      BY <2>4 DEF RoleFollows
    <3>2. to(t[1]) = t[1] /\ to(t[2]) = t[2]
      BY <2>4, <1>2, NamesApart DEF Moved
    <3> QED BY <3>1, <3>2
  <2> QED BY <2>1, <2>2, <2>3, <2>4
<1> HIDE DEF to
<1>4. ASSUME NEW u \in held'
      PROVE  u \in Triples /\ \A j \in 1..3 : Has(site', u[j])
  <2>1. PICK t \in held : u = <<to(t[1]), to(t[2]), to(t[3])>>
    BY <1>3
  <2>2. /\ to(t[1]) \in Keys(Projects) /\ Has(site', to(t[1]))
        /\ to(t[2]) \in Keys(Users \cup Groups) /\ Has(site', to(t[2]))
        /\ to(t[3]) \in Keys(Roles) /\ Has(site', to(t[3]))
    BY <1>2
  <2>3. u \in Triples
    BY <2>1, <2>2 DEF Triples
  <2>4. Has(site', u[1]) /\ Has(site', u[2]) /\ Has(site', u[3])
    BY <2>1, <2>2
  <2> QED BY <2>3, <2>4
<1>5. held' \subseteq Triples
  BY <1>4
<1>6. AssignmentsRefer'
  BY <1>4 DEF AssignmentsRefer, Has
<1> QED BY <1>1, <1>5, <1>6

\* A record for a name that had none, or that no assignment is of.
LEMMA InsertKeeps ==
  ASSUME IsTable(site, Ids), held \subseteq Triples, AssignmentsRefer,
         NEW n \in Names, NEW rec, rec # Gone, rec.id \in Ids,
         site[n] = Gone \/ n \in Events,
         site' = [site EXCEPT ![n] = rec], held' = held
  PROVE  IsTable(site', Ids) /\ held' \subseteq Triples /\ AssignmentsRefer'
<1>1. /\ IsTable(site', Ids)
      /\ \A m \in Names : site'[m] = IF m = n THEN rec ELSE site[m]
  <2>1. rec # Gone => rec.id \in Ids
    OBVIOUS
  <2>2. IsTable(site', Ids)
    BY <2>1, RecordWritten
  <2>3. \A m \in Names : site'[m] = IF m = n THEN rec ELSE site[m]
    BY <2>1, RecordWritten
  <2> QED BY <2>2, <2>3
<1>2. ASSUME NEW N \in SUBSET Names, N \cap Events = {}, NEW k \in Keys(N), Has(site, k)
      PROVE  Has(site', k)
  <2>1. k[1] \in N
    BY <1>2, KeysOfNames
  <2>2. k[1] # n
    BY <1>2, <2>1 DEF Has
  <2> QED BY <1>1, <1>2, <2>1, <2>2 DEF Has
<1>3. ASSUME NEW t \in held
      PROVE  \A j \in 1..3 : Has(site', t[j])
  <2>1. /\ t[1] \in Keys(Projects) /\ t[2] \in Keys(Users \cup Groups)
        /\ t[3] \in Keys(Roles)
    BY TripleKeys
  <2>2. Has(site, t[1]) /\ Has(site, t[2]) /\ Has(site, t[3])
    BY DEF AssignmentsRefer
  <2>3. /\ Projects \subseteq Names /\ Roles \subseteq Names
        /\ (Users \cup Groups) \subseteq Names
    BY DEF Names
  <2>4. /\ Projects \cap Events = {} /\ Roles \cap Events = {}
        /\ (Users \cup Groups) \cap Events = {}
    BY NamesApart
  <2>5. Has(site', t[1]) /\ Has(site', t[2]) /\ Has(site', t[3])
    BY <1>2, <2>1, <2>2, <2>3, <2>4
  <2> QED BY <2>5
<1>4. AssignmentsRefer'
  BY <1>3 DEF AssignmentsRefer, Has
<1> QED BY <1>1, <1>4

\* A record is deleted, and with it the assignments that are of it.
LEMMA DeleteKeeps ==
  ASSUME IsTable(site, Ids), held \subseteq Triples, AssignmentsRefer, NEW n,
         site' = [site EXCEPT ![n] = Gone], held' = Without(held, KeyOf(site, n))
  PROVE  IsTable(site', Ids) /\ held' \subseteq Triples /\ AssignmentsRefer'
<1>1. /\ IsTable(site', Ids)
      /\ \A m \in Names : site'[m] = IF m = n THEN Gone ELSE site[m]
  <2>1. Gone # Gone => Gone.id \in Ids
    OBVIOUS
  <2>2. IsTable(site', Ids)
    BY <2>1, RecordWritten
  <2>3. \A m \in Names : site'[m] = IF m = n THEN Gone ELSE site[m]
    BY DEF IsTable
  <2> QED BY <2>2, <2>3
<1>2. held' \subseteq held
  BY DEF Without
<1>3. ASSUME NEW N \in SUBSET Names, NEW k \in Keys(N), Has(site, k), k # KeyOf(site, n)
      PROVE  Has(site', k)
  <2>1. k[1] \in N /\ k = <<k[1], k[2]>>
    BY <1>3, KeysOfNames
  <2>2. k[1] # n
    BY <1>3, <2>1 DEF Has, KeyOf
  <2> QED BY <1>1, <1>3, <2>1, <2>2 DEF Has
<1>4. ASSUME NEW t \in held'
      PROVE  \A j \in 1..3 : Has(site', t[j])
  <2>1. /\ t[1] \in Keys(Projects) /\ t[2] \in Keys(Users \cup Groups)
        /\ t[3] \in Keys(Roles)
    BY <1>2, TripleKeys
  <2>2. Has(site, t[1]) /\ Has(site, t[2]) /\ Has(site, t[3])
    BY <1>2 DEF AssignmentsRefer
  <2>3. /\ Projects \subseteq Names /\ Roles \subseteq Names
        /\ (Users \cup Groups) \subseteq Names
    BY DEF Names
  <2>4. t[1] # KeyOf(site, n) /\ t[2] # KeyOf(site, n) /\ t[3] # KeyOf(site, n)
    BY DEF Without
  <2>5. Has(site', t[1]) /\ Has(site', t[2]) /\ Has(site', t[3])
    BY <1>3, <2>1, <2>2, <2>3, <2>4
  <2> QED BY <2>5
<1>5. AssignmentsRefer'
  BY <1>4 DEF AssignmentsRefer, Has
<1> QED BY <1>1, <1>2, <1>5

\* Other data, the same ids.
LEMMA SameIdsKeep ==
  ASSUME IsTable(site, Ids), held \subseteq Triples, AssignmentsRefer,
         site' = [n \in Names |-> site'[n]],
         \A n \in Names : /\ site'[n] = Gone <=> site[n] = Gone
                          /\ site'[n] # Gone => site'[n].id = site[n].id,
         held' = held
  PROVE  IsTable(site', Ids) /\ held' \subseteq Triples /\ AssignmentsRefer'
<1>1. IsTable(site', Ids)
  BY DEF IsTable
<1>2. ASSUME NEW N \in SUBSET Names, NEW k \in Keys(N), Has(site, k)
      PROVE  Has(site', k)
  <2>1. k[1] \in Names
    BY <1>2, KeysOfNames
  <2> QED BY <1>2, <2>1 DEF Has
<1>3. ASSUME NEW t \in held
      PROVE  \A j \in 1..3 : Has(site', t[j])
  <2>1. /\ t[1] \in Keys(Projects) /\ t[2] \in Keys(Users \cup Groups)
        /\ t[3] \in Keys(Roles)
    BY TripleKeys
  <2>2. Has(site, t[1]) /\ Has(site, t[2]) /\ Has(site, t[3])
    BY DEF AssignmentsRefer
  <2>3. /\ Projects \subseteq Names /\ Roles \subseteq Names
        /\ (Users \cup Groups) \subseteq Names
    BY DEF Names
  <2>4. Has(site', t[1]) /\ Has(site', t[2]) /\ Has(site', t[3])
    BY <1>2, <2>1, <2>2, <2>3
  <2> QED BY <2>4
<1>4. AssignmentsRefer'
  BY <1>3 DEF AssignmentsRefer, Has
<1> QED BY <1>1, <1>4

NameTypes == {"users", "groups", "projects", "roles", "events"}

LEMMA TypesOfNames ==
  /\ DOMAIN TypeNames = NameTypes
  /\ TypeNames["users"] = Users /\ TypeNames["groups"] = Groups
  /\ TypeNames["projects"] = Projects /\ TypeNames["roles"] = Roles
  /\ TypeNames["events"] = Events
  /\ \A type \in NameTypes : TypeNames[type] \subseteq Names
BY DEF TypeNames, NameTypes, Names

\* The request a handler has is of a resource of its type.
LEMMA HandledName ==
  ASSUME NEW type \in NameTypes, NEW op, NEW pc, Handling(type, op, pc)
  PROVE  request.key[1] \in TypeNames[type] /\ request.key[1] \in Names
<1>1. request.key \in Keys(TypeNames[type])
  BY DEF Handling, OfType, NameTypes
<1>2. request.key[1] \in TypeNames[type]
  BY <1>1, KeysOfNames
<1> QED BY <1>2, TypesOfNames

LEMMA IdsApart == MasterIds \subseteq Ids /\ "own" \in Ids /\ "none" \notin Ids
BY ConstantsAssumption DEF ConstantsAssumption, Ids

\* What a step leaves alone stays as it is.
LEMMA SiteStays ==
  ASSUME SiteOK, UNCHANGED siteVars
  PROVE  SiteOK'
BY DEF SiteOK, siteVars, AssignmentsRefer, Has, IsTable

LEMMA MasterStays ==
  ASSUME IsTable(master, MasterIds), UNCHANGED masterVars
  PROVE  IsTable(master, MasterIds)'
BY DEF masterVars, IsTable

LEMMA SyncStays ==
  ASSUME WritesRecord, UNCHANGED sync
  PROVE  WritesRecord'
BY DEF WritesRecord

\* The handlers of a step that is not a push write nothing next.
LEMMA SyncMoves ==
  ASSUME Finish \/ GoOn("save", Gone) \/ GoOn("unmap", Gone) \/ sync' = NoSync
  PROVE  WritesRecord'
<1>1. sync'.pc # "push"
  BY DEF Finish, GoOn, NoSync
<1> QED BY <1>1 DEF WritesRecord

LEMMA InitKeeps == Init => IInv
<1> SUFFICES ASSUME Init PROVE IInv
  OBVIOUS
<1>1. PICK i \in MasterIds :
        /\ master = [n \in Names |->
                       IF n \in Deployed THEN [id |-> i, data |-> 0] ELSE Gone]
        /\ site = [n \in Names |->
                     IF n \notin Deployed THEN Gone
                     ELSE [id |-> IF n \in ServiceUsers THEN i ELSE "own",
                           data |-> Foreign]]
  BY DEF Init
<1>2. IsTable(master, MasterIds)
  <2>1. \A n \in Names : master[n] # Gone => master[n].id = i
    BY <1>1
  <2> QED BY <1>1, <2>1 DEF IsTable
<1>3. \A n \in Names \cap Deployed : site[n].id \in Ids /\ site[n] # Gone
  <2> SUFFICES ASSUME NEW n \in Names \cap Deployed
               PROVE  site[n].id \in Ids /\ site[n] # Gone
    OBVIOUS
  <2>1. site[n].id = IF n \in ServiceUsers THEN i ELSE "own"
    BY <1>1
  <2>2. site[n].id \in Ids
    BY <2>1, IdsApart
  <2> QED BY <2>2, IdsApart DEF Gone
<1>4. IsTable(site, Ids)
  <2>1. \A n \in Names : site[n] # Gone => n \in Deployed
    BY <1>1
  <2>2. site = [n \in Names |-> site[n]]
    BY <1>1
  <2> QED BY <1>3, <2>1, <2>2 DEF IsTable
<1>5. ASSUME NEW N \in SUBSET Names, NEW n \in N \cap Deployed
      PROVE  KeyOf(site, n) \in Keys(N) /\ Has(site, KeyOf(site, n))
  <2>1. site[n].id \in Ids /\ site[n] # Gone
    BY <1>3
  <2> QED BY <2>1 DEF KeyOf, Keys, Has
<1>6. ASSUME NEW u \in held
      PROVE  u \in Triples /\ \A j \in 1..3 : Has(site, u[j])
  <2>1. PICK t \in DeployedGrants : u = Between(site, t)
    BY DEF Init
  <2>2. t[1] \in Projects /\ t[2] \in Users \cup Groups /\ t[3] \in Roles
    BY ConstantsAssumption DEF ConstantsAssumption
  <2>3. t[1] \in Deployed /\ t[2] \in Deployed /\ t[3] \in Deployed
    BY ConstantsAssumption DEF ConstantsAssumption
  <2>4. /\ Projects \subseteq Names /\ Roles \subseteq Names
        /\ (Users \cup Groups) \subseteq Names
    BY DEF Names
  <2>5. KeyOf(site, t[1]) \in Keys(Projects) /\ Has(site, KeyOf(site, t[1]))
    BY <1>5, <2>2, <2>3, <2>4
  <2>6. KeyOf(site, t[2]) \in Keys(Users \cup Groups) /\ Has(site, KeyOf(site, t[2]))
    BY <1>5, <2>2, <2>3, <2>4
  <2>7. KeyOf(site, t[3]) \in Keys(Roles) /\ Has(site, KeyOf(site, t[3]))
    BY <1>5, <2>2, <2>3, <2>4
  <2>8. u = <<KeyOf(site, t[1]), KeyOf(site, t[2]), KeyOf(site, t[3])>>
    BY <2>1 DEF Between
  <2>9. u \in Triples
    BY <2>5, <2>6, <2>7, <2>8 DEF Triples
  <2>10. Has(site, u[1]) /\ Has(site, u[2]) /\ Has(site, u[3])
    BY <2>5, <2>6, <2>7, <2>8
  <2> QED BY <2>9, <2>10
<1>7. WritesRecord
  BY DEF Init, WritesRecord, NoSync
<1> QED BY <1>2, <1>4, <1>6, <1>7 DEF IInv, SiteOK, AssignmentsRefer

\* A step of the system controller leaves the subcloud alone.
LEMMA MasterChangeKeeps ==
  ASSUME IInv, MasterChange
  PROVE  IInv'
<1>1. UNCHANGED siteVars /\ UNCHANGED sync
  BY DEF MasterChange, Create, Edit, Destroy, Grant, Revoke, Change
<1>2. IsTable(master, MasterIds)'
  <2>1. CASE \E n \in Names, i \in MasterIds : Create(n, i)
    <3>1. PICK n \in Names, i \in MasterIds :
            master' = [master EXCEPT ![n] = [id |-> i, data |-> changes + 1]]
      BY <2>1 DEF Create
    <3>2. [id |-> i, data |-> changes + 1].id \in MasterIds
      OBVIOUS
    <3> QED BY <3>1, <3>2, RecordWritten DEF IInv
  <2>2. CASE \E n \in Names, op \in {"patch", "put"} : Edit(n, op)
    <3>1. PICK n \in Names :
            /\ master[n] # Gone
            /\ master' = [master EXCEPT ![n] = [id |-> master[n].id, data |-> changes + 1]]
      BY <2>2 DEF Edit
    <3> DEFINE rec == [id |-> master[n].id, data |-> changes + 1]
    <3>2. rec.id \in MasterIds
      BY <3>1 DEF IInv, IsTable
    <3>3. master' = [master EXCEPT ![n] = rec]
      BY <3>1
    <3> HIDE DEF rec
    <3> QED BY <3>2, <3>3, RecordWritten DEF IInv
  <2>3. CASE \E n \in Names : Destroy(n)
    <3>1. PICK n \in Names : master' = [master EXCEPT ![n] = Gone]
      BY <2>3 DEF Destroy
    <3> QED BY <3>1, RecordWritten DEF IInv
  <2>4. CASE \E t \in Triples : Grant(t) \/ Revoke(t)
    <3>1. master' = master
      BY <2>4 DEF Grant, Revoke
    <3> QED BY <3>1 DEF IInv, IsTable
  <2> QED BY <2>1, <2>2, <2>3, <2>4 DEF MasterChange
<1> QED BY <1>1, <1>2, SiteStays, SyncStays DEF IInv

\* An update in the initial sync is one with the rows that refer to it.
LEMMA InitialSyncKeeps ==
  ASSUME IInv, InitialSync
  PROVE  IInv'
<1>1. UNCHANGED masterVars /\ UNCHANGED sync
  BY DEF InitialSync, InitialUsers, InitialGroups, InitialProjects, InitialRoles, InitialOf
<1>2. ASSUME NEW type \in NameTypes, NEW n \in Differing(type)
      PROVE  /\ n \in TypeNames[type] /\ n \in Names
             /\ master[n] # Gone /\ master[n].id \in Ids
             /\ KeyOf(master, n) = <<n, master[n].id>>
  <2>1. n \in TypeNames[type] /\ master[n] # Gone
    BY <1>2 DEF Differing
  <2>2. n \in Names
    BY <2>1, TypesOfNames
  <2>3. master[n].id \in Ids
    BY <2>1, <2>2, IdsApart DEF IInv, IsTable
  <2> QED BY <2>1, <2>2, <2>3 DEF KeyOf
<1>3. CASE UNCHANGED siteVars
  BY <1>1, <1>3, SiteStays, MasterStays, SyncStays DEF IInv
<1>4. ASSUME NEW n \in Differing("users"), site' = [site EXCEPT ![n] = master[n]],
             held' = UserFollows(KeyOf(site, n), KeyOf(master, n))
      PROVE  SiteOK'
  <2>1. /\ n \in Users /\ n \in Names /\ master[n] # Gone /\ master[n].id \in Ids
        /\ held' = UserFollows(KeyOf(site, n), <<n, master[n].id>>)
    BY <1>2, <1>4, TypesOfNames DEF NameTypes
  <2> QED BY <1>4, <2>1, UpdateKeeps DEF IInv, SiteOK
<1>5. ASSUME NEW n \in Differing("groups"), site' = [site EXCEPT ![n] = master[n]],
             held' = GroupFollows(KeyOf(site, n), KeyOf(master, n))
      PROVE  SiteOK'
  <2>1. /\ n \in Groups /\ n \in Names /\ master[n] # Gone /\ master[n].id \in Ids
        /\ held' = GroupFollows(KeyOf(site, n), <<n, master[n].id>>)
    BY <1>2, <1>5, TypesOfNames DEF NameTypes
  <2> QED BY <1>5, <2>1, UpdateKeeps DEF IInv, SiteOK
<1>6. ASSUME NEW n \in Differing("projects"), site' = [site EXCEPT ![n] = master[n]],
             held' = ProjectFollows(KeyOf(site, n), KeyOf(master, n))
      PROVE  SiteOK'
  <2>1. /\ n \in Projects /\ n \in Names /\ master[n] # Gone /\ master[n].id \in Ids
        /\ held' = ProjectFollows(KeyOf(site, n), <<n, master[n].id>>)
    BY <1>2, <1>6, TypesOfNames DEF NameTypes
  <2> QED BY <1>6, <2>1, UpdateKeeps DEF IInv, SiteOK
<1>7. ASSUME NEW n \in Differing("roles"), site' = [site EXCEPT ![n] = master[n]],
             held' = RoleFollows(KeyOf(site, n), KeyOf(master, n))
      PROVE  SiteOK'
  <2>1. /\ n \in Roles /\ n \in Names /\ master[n] # Gone /\ master[n].id \in Ids
        /\ held' = RoleFollows(KeyOf(site, n), <<n, master[n].id>>)
    BY <1>2, <1>7, TypesOfNames DEF NameTypes
  <2> QED BY <1>7, <2>1, UpdateKeeps DEF IInv, SiteOK
<1>8. CASE ~UNCHANGED siteVars
  <2>1. ASSUME InitialUsers
        PROVE  SiteOK'
    BY <1>4, <1>8, <2>1 DEF InitialUsers, InitialOf
  <2>2. ASSUME InitialGroups
        PROVE  SiteOK'
    BY <1>5, <1>8, <2>2 DEF InitialGroups, InitialOf
  <2>3. ASSUME InitialProjects
        PROVE  SiteOK'
    BY <1>6, <1>8, <2>3 DEF InitialProjects, InitialOf
  <2>4. ASSUME InitialRoles
        PROVE  SiteOK'
    BY <1>7, <1>8, <2>4 DEF InitialRoles, InitialOf
  <2>5. SiteOK'
    BY <2>1, <2>2, <2>3, <2>4 DEF InitialSync
  <2> QED BY <1>1, <2>5, MasterStays, SyncStays DEF IInv
<1> QED BY <1>3, <1>8

\* What the handlers of every type have in common.
LEMMA FetchKeeps ==
  ASSUME IInv, NEW type \in NameTypes, Fetch(type)
  PROVE  SiteOK' /\ WritesRecord'
<1>1. request.key[1] \in Names
  BY HandledName DEF Fetch
<1>2. CASE Has(master, request.key) /\ GoOn("push", master[request.key[1]])
  <2>1. master[request.key[1]] # Gone
    BY <1>2 DEF Has
  <2>2. master[request.key[1]].id \in Ids
    BY <1>1, <2>1, IdsApart DEF IInv, IsTable
  <2>3. sync'.rec = master[request.key[1]]
    BY <1>2 DEF GoOn
  <2> QED BY <2>1, <2>2, <2>3, SiteStays DEF Fetch, WritesRecord, IInv
<1>3. CASE Finish
  BY <1>3, SyncMoves, SiteStays DEF Fetch, IInv
<1> QED BY <1>2, <1>3 DEF Fetch

LEMMA InsertStepKeeps ==
  ASSUME IInv, NEW type \in NameTypes, Insert(type)
  PROVE  SiteOK' /\ WritesRecord'
<1> DEFINE n == request.key[1]
<1>1. n \in TypeNames[type] /\ n \in Names
  BY HandledName DEF Insert
<1>2. sync.rec # Gone /\ sync.rec.id \in Ids
  BY DEF IInv, WritesRecord, Insert, Handling
<1>3. WritesRecord'
  BY SyncMoves DEF Insert
<1>4. CASE UNCHANGED site
  <2>1. UNCHANGED siteVars
    BY <1>4 DEF Insert, siteVars
  <2> QED BY <1>3, <2>1, SiteStays DEF IInv
<1>5. CASE (site[n] = Gone \/ type = "events") /\ site' = [site EXCEPT ![n] = sync.rec]
  <2>1. site[n] = Gone \/ n \in Events
    BY <1>1, <1>5, TypesOfNames
  <2>2. held' = held
    BY DEF Insert
  <2> HIDE DEF n
  <2> QED BY <1>1, <1>2, <1>3, <1>5, <2>1, <2>2, InsertKeeps DEF IInv, SiteOK
<1> QED BY <1>3, <1>4, <1>5 DEF Insert

LEMMA PatchKeeps ==
  ASSUME IInv, NEW type \in NameTypes, Patch(type)
  PROVE  SiteOK' /\ WritesRecord'
<1>1. WritesRecord'
  BY SyncMoves DEF Patch
<1>2. site' = [n \in Names |-> site'[n]]
  BY DEF Patch
<1>3. ASSUME NEW n \in Names
      PROVE  /\ site'[n] = Gone <=> site[n] = Gone
             /\ site'[n] # Gone => site'[n].id = site[n].id
  <2>1. \/ site'[n] = site[n]
        \/ site[n] # Gone /\ site'[n] = [id |-> site[n].id, data |-> request.data]
    BY DEF Patch
  <2>2. site[n] # Gone => site[n].id # "none"
    BY IdsApart DEF IInv, SiteOK, IsTable
  <2> QED BY <2>1, <2>2 DEF Gone
<1>4. held' = held
  BY DEF Patch
<1> QED BY <1>1, <1>2, <1>3, <1>4, SameIdsKeep DEF IInv, SiteOK

LEMMA DeleteStepKeeps ==
  ASSUME IInv, NEW type \in NameTypes, Delete(type)
  PROVE  SiteOK' /\ WritesRecord'
<1>1. WritesRecord'
  BY SyncMoves DEF Delete
<1>2. CASE UNCHANGED siteVars
  BY <1>1, <1>2, SiteStays DEF IInv
<1>3. CASE \E n : /\ site' = [site EXCEPT ![n] = Gone]
                  /\ held' = Without(held, KeyOf(site, n))
  BY <1>1, <1>3, DeleteKeeps DEF IInv, SiteOK
<1> QED BY <1>2, <1>3 DEF Delete

\* A PUT is the update with the rows that refer to what it updates.
LEMMA AmendKeeps ==
  ASSUME IInv,
         \/ Amend("users", UserFollows) \/ Amend("groups", GroupFollows)
         \/ Amend("projects", ProjectFollows) \/ Amend("roles", RoleFollows)
  PROVE  SiteOK' /\ WritesRecord'
<1> DEFINE n == request.key[1]
<1>1. WritesRecord'
  BY SyncMoves DEF Amend
<1>2. sync.rec # Gone /\ sync.rec.id \in Ids
  BY DEF IInv, WritesRecord, Amend, Handling
<1>3. CASE UNCHANGED siteVars
  BY <1>1, <1>3, SiteStays DEF IInv
<1>4. ASSUME Amend("users", UserFollows), ~UNCHANGED siteVars
      PROVE  SiteOK'
  <2>1. n \in Users /\ n \in Names
    BY <1>4, HandledName, TypesOfNames DEF Amend, NameTypes
  <2>2. /\ site' = [site EXCEPT ![n] = sync.rec]
        /\ held' = UserFollows(KeyOf(site, n), <<n, sync.rec.id>>)
    BY <1>4 DEF Amend
  <2> HIDE DEF n
  <2> QED BY <1>2, <2>1, <2>2, UpdateKeeps DEF IInv, SiteOK
<1>5. ASSUME Amend("groups", GroupFollows), ~UNCHANGED siteVars
      PROVE  SiteOK'
  <2>1. n \in Groups /\ n \in Names
    BY <1>5, HandledName, TypesOfNames DEF Amend, NameTypes
  <2>2. /\ site' = [site EXCEPT ![n] = sync.rec]
        /\ held' = GroupFollows(KeyOf(site, n), <<n, sync.rec.id>>)
    BY <1>5 DEF Amend
  <2> HIDE DEF n
  <2> QED BY <1>2, <2>1, <2>2, UpdateKeeps DEF IInv, SiteOK
<1>6. ASSUME Amend("projects", ProjectFollows), ~UNCHANGED siteVars
      PROVE  SiteOK'
  <2>1. n \in Projects /\ n \in Names
    BY <1>6, HandledName, TypesOfNames DEF Amend, NameTypes
  <2>2. /\ site' = [site EXCEPT ![n] = sync.rec]
        /\ held' = ProjectFollows(KeyOf(site, n), <<n, sync.rec.id>>)
    BY <1>6 DEF Amend
  <2> HIDE DEF n
  <2> QED BY <1>2, <2>1, <2>2, UpdateKeeps DEF IInv, SiteOK
<1>7. ASSUME Amend("roles", RoleFollows), ~UNCHANGED siteVars
      PROVE  SiteOK'
  <2>1. n \in Roles /\ n \in Names
    BY <1>7, HandledName, TypesOfNames DEF Amend, NameTypes
  <2>2. /\ site' = [site EXCEPT ![n] = sync.rec]
        /\ held' = RoleFollows(KeyOf(site, n), <<n, sync.rec.id>>)
    BY <1>7 DEF Amend
  <2> HIDE DEF n
  <2> QED BY <1>2, <2>1, <2>2, UpdateKeeps DEF IInv, SiteOK
<1> QED BY <1>1, <1>3, <1>4, <1>5, <1>6, <1>7

\* The sync thread: a handler, or what it does of the mapping at its end.
LEMMA SyncStepKeeps ==
  ASSUME IInv, SyncStep
  PROVE  IInv'
<1>1. UNCHANGED masterVars
  BY DEF SyncStep, SyncUsers, SyncGroups, SyncProjects, SyncRoles, Handlers,
         PostAssignment, DeleteAssignment, PostEvent, Save, Unmap
<1>2. ASSUME SyncUsers \/ SyncGroups \/ SyncProjects \/ SyncRoles
      PROVE  SiteOK' /\ WritesRecord'
  <2>1. ASSUME NEW type \in NameTypes,
               Fetch(type) \/ Insert(type) \/ Patch(type) \/ Delete(type)
        PROVE  SiteOK' /\ WritesRecord'
    BY <2>1, FetchKeeps, InsertStepKeeps, PatchKeeps, DeleteStepKeeps
  <2>2. {"users", "groups", "projects", "roles"} \subseteq NameTypes
    BY DEF NameTypes
  <2>3. ASSUME SyncUsers PROVE SiteOK' /\ WritesRecord'
    BY <2>1, <2>2, <2>3, AmendKeeps DEF SyncUsers, Handlers
  <2>4. ASSUME SyncGroups PROVE SiteOK' /\ WritesRecord'
    BY <2>1, <2>2, <2>4, AmendKeeps DEF SyncGroups, Handlers
  <2>5. ASSUME SyncProjects PROVE SiteOK' /\ WritesRecord'
    BY <2>1, <2>2, <2>5, AmendKeeps DEF SyncProjects, Handlers
  <2>6. ASSUME SyncRoles PROVE SiteOK' /\ WritesRecord'
    BY <2>1, <2>2, <2>6, AmendKeeps DEF SyncRoles, Handlers
  <2> QED BY <1>2, <2>3, <2>4, <2>5, <2>6
<1>3. ASSUME PostAssignment
      PROVE  SiteOK' /\ WritesRecord'
  <2>1. WritesRecord'
    BY <1>3, SyncMoves DEF PostAssignment
  <2>2. site' = site
    BY <1>3 DEF PostAssignment
  <2>3. \/ held' = held
        \/ /\ held' = held \cup {request.key}
           /\ \A j \in 1..3 : Has(site, request.key[j])
    BY <1>3 DEF PostAssignment
  <2>4. request.key \in Triples
    BY <1>3 DEF PostAssignment, Handling, OfType
  <2>5. held' \subseteq Triples
    BY <2>3, <2>4 DEF IInv, SiteOK
  <2>6. \A t \in held' : \A j \in 1..3 : Has(site, t[j])
    BY <2>3 DEF IInv, SiteOK, AssignmentsRefer
  <2>7. AssignmentsRefer'
    BY <2>2, <2>6 DEF AssignmentsRefer, Has
  <2>8. IsTable(site', Ids)
    BY <2>2 DEF IInv, SiteOK
  <2> QED BY <2>1, <2>5, <2>7, <2>8 DEF SiteOK
<1>4. ASSUME DeleteAssignment
      PROVE  SiteOK' /\ WritesRecord'
  <2>1. WritesRecord'
    BY <1>4, SyncMoves DEF DeleteAssignment
  <2>2. site' = site /\ held' \subseteq held
    BY <1>4 DEF DeleteAssignment
  <2>3. AssignmentsRefer'
    BY <2>2 DEF IInv, SiteOK, AssignmentsRefer, Has
  <2>4. IsTable(site', Ids) /\ held' \subseteq Triples
    BY <2>2 DEF IInv, SiteOK
  <2> QED BY <2>1, <2>3, <2>4 DEF SiteOK
<1>5. ASSUME PostEvent
      PROVE  SiteOK' /\ WritesRecord'
  <2>1. "events" \in NameTypes
    BY DEF NameTypes
  <2> QED BY <1>5, <2>1, FetchKeeps, InsertStepKeeps DEF PostEvent
<1>6. ASSUME Save \/ Unmap
      PROVE  SiteOK' /\ WritesRecord'
  <2>1. UNCHANGED siteVars /\ Finish
    BY <1>6 DEF Save, Unmap
  <2> QED BY <2>1, SiteStays, SyncMoves DEF IInv
<1>7. SiteOK' /\ WritesRecord'
  BY <1>2, <1>3, <1>4, <1>5, <1>6 DEF SyncStep
<1> QED BY <1>1, <1>7, MasterStays DEF IInv

\* A change made in the subcloud itself is one its keystone makes.
LEMMA LocalChangeKeeps ==
  ASSUME IInv, NEW n \in Names, LocalChange(n)
  PROVE  IInv'
<1>1. UNCHANGED masterVars /\ UNCHANGED sync
  BY DEF LocalChange
<1>2. ASSUME site[n] = Gone, UNCHANGED held,
             site' = [site EXCEPT ![n] = [id |-> "own", data |-> Foreign]]
      PROVE  SiteOK'
  <2> DEFINE rec == [id |-> "own", data |-> Foreign]
  <2>1. rec.id \in Ids /\ rec # Gone
    BY IdsApart DEF Gone
  <2>2. site' = [site EXCEPT ![n] = rec]
    BY <1>2
  <2> HIDE DEF rec
  <2> QED BY <1>2, <2>1, <2>2, InsertKeeps DEF IInv, SiteOK
<1>3. ASSUME site[n] # Gone, UNCHANGED held,
             site' = [site EXCEPT ![n] = [id |-> site[n].id, data |-> Foreign]]
      PROVE  SiteOK'
  <2>1. site = [m \in Names |-> site[m]]
    BY DEF IInv, SiteOK, IsTable
  <2>2. site' = [m \in Names |-> site'[m]]
    BY <1>3, <2>1
  <2>3. site[n].id # "none"
    BY <1>3, IdsApart DEF IInv, SiteOK, IsTable
  <2>4. site'[n] = [id |-> site[n].id, data |-> Foreign]
    BY <1>3, <2>1
  <2>5. site'[n] # Gone /\ site'[n].id = site[n].id
    BY <2>3, <2>4 DEF Gone
  <2>6. \A m \in Names : m # n => site'[m] = site[m]
    BY <1>3, <2>1
  <2>7. \A m \in Names : /\ site'[m] = Gone <=> site[m] = Gone
                         /\ site'[m] # Gone => site'[m].id = site[m].id
    BY <1>3, <2>5, <2>6
  <2> QED BY <1>3, <2>2, <2>7, SameIdsKeep DEF IInv, SiteOK
<1>4. ASSUME site' = [site EXCEPT ![n] = Gone], held' = Without(held, KeyOf(site, n))
      PROVE  SiteOK'
  BY <1>4, DeleteKeeps DEF IInv, SiteOK
<1>5. SiteOK'
  BY <1>2, <1>3, <1>4 DEF LocalChange
<1> QED BY <1>1, <1>5, MasterStays, SyncStays DEF IInv

LEMMA LocalGrantKeeps ==
  ASSUME IInv, NEW t \in Triples, LocalGrant(t)
  PROVE  IInv'
<1>1. UNCHANGED masterVars /\ UNCHANGED sync /\ UNCHANGED site
  BY DEF LocalGrant
<1>2. held' \subseteq held \cup {t} /\ \A j \in 1..3 : Has(site, t[j])
  BY DEF LocalGrant
<1>3. \A u \in held' : \A j \in 1..3 : Has(site, u[j])
  BY <1>2 DEF IInv, SiteOK, AssignmentsRefer
<1>4. AssignmentsRefer'
  BY <1>1, <1>3 DEF AssignmentsRefer, Has
<1>5. IsTable(site', Ids) /\ held' \subseteq Triples
  BY <1>1, <1>2 DEF IInv, SiteOK
<1>6. SiteOK'
  BY <1>4, <1>5 DEF SiteOK
<1> QED BY <1>1, <1>6, MasterStays, SyncStays DEF IInv

\* Every step of the system controller, dcorch and the subcloud.
LEMMA StepKeeps == IInv /\ [Next]_vars => IInv'
<1> SUFFICES ASSUME IInv, [Next]_vars PROVE IInv'
  OBVIOUS
<1>1. CASE UNCHANGED <<masterVars, siteVars, sync>>
  BY <1>1, SiteStays, MasterStays, SyncStays DEF IInv
<1>2. CASE UNCHANGED vars
  <2>1. UNCHANGED <<masterVars, siteVars, sync>>
    BY <1>2 DEF vars
  <2> QED BY <1>1, <2>1
<1>3. CASE MasterChange
  BY <1>3, MasterChangeKeeps
<1>4. CASE Enqueue
  BY <1>1, <1>4 DEF Enqueue
<1>5. CASE InitialSync
  BY <1>5, InitialSyncKeeps
<1>6. CASE SyncStep
  BY <1>6, SyncStepKeeps
<1>7. CASE AuditStep
  <2>1. UNCHANGED <<masterVars, siteVars, sync>>
    BY <1>7 DEF AuditStep, AuditLook, AuditCompare
  <2> QED BY <1>1, <2>1
<1>8. CASE Failure
  <2>1. CASE ProxyDies \/ InitialFails \/ AuditFails \/ OtherAudit
    <3>1. UNCHANGED <<masterVars, siteVars, sync>>
      BY <2>1 DEF ProxyDies, InitialFails, AuditFails, OtherAudit
    <3> QED BY <1>1, <3>1
  <2>2. CASE SyncFails
    <3>1. UNCHANGED masterVars /\ UNCHANGED siteVars /\ sync' = NoSync
      BY <2>2 DEF SyncFails
    <3> QED BY <3>1, SiteStays, MasterStays, SyncMoves DEF IInv
  <2>3. CASE \E n \in Names : LocalChange(n)
    BY <2>3, LocalChangeKeeps
  <2>4. CASE \E t \in Triples : LocalGrant(t)
    BY <2>4, LocalGrantKeeps
  <2> QED BY <1>8, <2>1, <2>2, <2>3, <2>4 DEF Failure
<1> QED BY <1>2, <1>3, <1>4, <1>5, <1>6, <1>7, <1>8 DEF Next

\* A role assignment in the subcloud is always of a project, a user or group
\* and a role that are there by those ids, whatever ids the initial sync and
\* the PUT requests write over them.
THEOREM AssignmentsAlwaysRefer == Spec => []AssignmentsRefer
<1>1. Init => IInv
  BY InitKeeps
<1>2. IInv /\ [Next]_vars => IInv'
  BY StepKeeps
<1>3. IInv => AssignmentsRefer
  BY DEF IInv, SiteOK
<1> QED BY <1>1, <1>2, <1>3, PTL DEF Spec

-------------------------------------------------------------------------------
(* The types of all the variables.                                         *)

\* A request, whoever made it.
Job == [op : {"post", "put", "patch", "delete"}, key : AnyKey,
        at : Ids \cup {"none"} \cup Keys(Names), data : Data]

\* What is in the queue is of a resource that dcorch tracks.
TrackedJobs == {r \in Job : r.key \in tracked}

\* What a keystone lists: of every resource at most one account.
Listed == [key : AnyKey, data : Data]
IsList(L) == L \subseteq Listed /\ \A x, y \in L : x.key = y.key => x = y

TypeNumbers == 1..Len(Types)

Rows ==
  /\ master \in [Names -> Records(MasterIds)]
  /\ site \in [Names -> Records(Ids)]
  /\ grants \subseteq Triples
  /\ spent \subseteq Keys(Names)
  /\ changes \in 0..MaxChanges

Requests ==
  /\ queue \in Seq(TrackedJobs)
  /\ proxy \in Job \cup {NoRequest}
  /\ sync.pc \in {"idle", "push", "save", "unmap"}
  /\ sync.pc = "push" => sync.rec \in [id : MasterIds, data : Data]
  /\ queue = <<>> => sync = NoSync

\* Of every resource at most one mapping; dcorch tracks what is mapped.
Resources ==
  /\ tracked \subseteq AnyKey
  /\ mapped \subseteq [of : AnyKey, is : AnyKey]
  /\ \A x, y \in mapped : x.of = y.of => x = y
  /\ \A x \in mapped : x.of \in tracked

Lists ==
  /\ audit \in [type : TypeNumbers, pc : {"look", "compare"},
                busy : SUBSET AnyKey, seen : SUBSET Listed]
  /\ DOMAIN cache \subseteq {Types[j] : j \in TypeNumbers}
  /\ \A t \in DOMAIN cache : IsList(cache[t])

TInv == Rows /\ Requests /\ Resources /\ Lists

LEMMA DataRange ==
  /\ 0 \in Data /\ Foreign \in Data
  /\ changes \in 0..MaxChanges /\ changes < MaxChanges =>
       changes + 1 \in Data /\ changes + 1 \in 0..MaxChanges
<1>1. MaxChanges \in Nat
  BY ConstantsAssumption DEF ConstantsAssumption
<1> QED
  BY <1>1 DEF Data, Foreign

\* A record that is there.
LEMMA RecordThere ==
  ASSUME NEW ids, NEW rec \in Records(ids), rec # Gone
  PROVE  rec \in [id : ids, data : Data]
BY DEF Records

LEMMA RecordMade ==
  ASSUME NEW ids, NEW i \in ids, NEW d \in Data
  PROVE  [id |-> i, data |-> d] \in Records(ids)
BY DEF Records

LEMMA KeysAreKnown ==
  /\ Keys(Names) \subseteq AnyKey /\ Triples \subseteq AnyKey
  /\ \A n \in Names, i \in MasterIds : <<n, i>> \in Keys(Names)
BY DEF AnyKey, Keys, Ids

\* The key of a record is one of a name.
LEMMA KeyOfRecord ==
  ASSUME NEW table, NEW ids \in SUBSET Ids, NEW n \in Names,
         table[n] \in Records(ids), table[n] # Gone
  PROVE  KeyOf(table, n) \in Keys(Names)
<1>1. table[n].id \in Ids
  BY RecordThere
<1> QED
  BY <1>1 DEF KeyOf, Keys

LEMMA NumbersOfTypes ==
  /\ TypeNumbers = 1..6 /\ Len(Types) = 6
  /\ \A j \in TypeNumbers : Types[j] \in NameTypes \cup {"assignments"}
<1>1. Len(Types) = 6
  BY DEF Types
<1>2. TypeNumbers = 1..6
  BY <1>1 DEF TypeNumbers
<1>3. ASSUME NEW j \in 1..6
      PROVE  Types[j] \in NameTypes \cup {"assignments"}
  <2>1. j = 1 \/ j = 2 \/ j = 3 \/ j = 4 \/ j = 5 \/ j = 6
    OBVIOUS
  <2>2. /\ Types[1] = "users" /\ Types[2] = "groups" /\ Types[3] = "projects"
        /\ Types[4] = "roles" /\ Types[5] = "assignments" /\ Types[6] = "events"
    BY DEF Types
  <2> QED
    BY <2>1, <2>2 DEF NameTypes
<1> QED
  BY <1>1, <1>2, <1>3

LEMMA PlainRequest ==
  ASSUME NEW op \in {"post", "put", "patch", "delete"}, NEW k \in AnyKey
  PROVE  Request(op, k) \in Job
BY DataRange DEF Request, Job

\* The request the sync thread is at.
LEMMA FirstRequest ==
  ASSUME Requests, queue # <<>>
  PROVE  /\ request \in Job /\ request.key \in tracked
         /\ Tail(queue) \in Seq(TrackedJobs)
<1>1. Head(queue) \in TrackedJobs /\ Tail(queue) \in Seq(TrackedJobs)
  BY HeadTailProperties DEF Requests
<1> QED
  BY <1>1 DEF TrackedJobs, request

LEMMA EmptyIsRecord == Gone \in Records(MasterIds) /\ Gone \in Records(Ids)
BY DEF Records

LEMMA MasterRecords ==
  /\ Records(MasterIds) \subseteq Records(Ids)
  /\ [id : MasterIds, data : Data] \subseteq Records(Ids)
BY DEF Records, Ids

\* What a step leaves alone.
LEMMA RowsStay ==
  ASSUME Rows, UNCHANGED masterVars, site' \in [Names -> Records(Ids)]
  PROVE  Rows'
BY DEF Rows, masterVars

LEMMA ResourcesStay ==
  ASSUME Resources, UNCHANGED dcorchVars
  PROVE  Resources'
BY DEF Resources, dcorchVars

LEMMA ListsStay ==
  ASSUME Lists, UNCHANGED auditVars
  PROVE  Lists'
BY DEF Lists, auditVars

LEMMA RequestsStay ==
  ASSUME Requests, tracked \subseteq tracked', UNCHANGED <<queue, proxy, sync>>
  PROVE  Requests'
<1>1. TrackedJobs \subseteq TrackedJobs'
  BY DEF TrackedJobs
<1>2. queue' \in Seq(TrackedJobs')
  BY <1>1, SeqMonotonic DEF Requests
<1> QED
  BY <1>2 DEF Requests

\* The end of a request, and its next call.
LEMMA RequestEnds ==
  ASSUME Requests, queue # <<>>, Finish, UNCHANGED <<tracked, proxy>>
  PROVE  Requests'
<1>1. queue' = Tail(queue) /\ sync' = NoSync /\ TrackedJobs' = TrackedJobs
  BY DEF Finish, TrackedJobs
<1>2. queue' \in Seq(TrackedJobs')
  BY <1>1, FirstRequest
<1> QED
  BY <1>1, <1>2 DEF Requests, NoSync

LEMMA RequestGoesOn ==
  ASSUME Requests, queue # <<>>, UNCHANGED <<tracked, proxy>>,
         \/ GoOn("save", Gone) \/ GoOn("unmap", Gone)
         \/ \E rec \in [id : MasterIds, data : Data] : GoOn("push", rec)
  PROVE  Requests'
<1>1. queue' = queue /\ TrackedJobs' = TrackedJobs
  BY DEF GoOn, TrackedJobs
<1>2. /\ sync'.pc \in {"idle", "push", "save", "unmap"}
      /\ sync'.pc = "push" => sync'.rec \in [id : MasterIds, data : Data]
  BY DEF GoOn
<1> QED
  BY <1>1, <1>2 DEF Requests

LEMMA TypesAtFirst == Init => TInv
<1> SUFFICES ASSUME Init PROVE TInv
  OBVIOUS
<1>1. PICK i \in MasterIds :
        /\ master = [n \in Names |->
                       IF n \in Deployed THEN [id |-> i, data |-> 0] ELSE Gone]
        /\ site = [n \in Names |->
                     IF n \notin Deployed THEN Gone
                     ELSE [id |-> IF n \in ServiceUsers THEN i ELSE "own",
                           data |-> Foreign]]
  BY DEF Init
<1>2. [id |-> i, data |-> 0] \in Records(MasterIds) /\ Gone \in Records(MasterIds)
  BY DataRange, RecordMade, EmptyIsRecord
<1>3. \A n : [id |-> IF n \in ServiceUsers THEN i ELSE "own", data |-> Foreign] \in Records(Ids)
  <2> TAKE n
  <2>1. (IF n \in ServiceUsers THEN i ELSE "own") \in Ids
    BY IdsApart
  <2> QED
    BY <2>1, DataRange, RecordMade
<1>4. master \in [Names -> Records(MasterIds)]
  BY <1>1, <1>2
<1>5. site \in [Names -> Records(Ids)]
  BY <1>1, <1>3, EmptyIsRecord
<1>6. Deployed \subseteq Names
  BY ConstantsAssumption DEF ConstantsAssumption, Names
<1>7. \A n \in Deployed : KeyOf(master, n) = <<n, i>> /\ KeyOf(master, n) \in Keys(Names)
  BY <1>1, <1>6, KeysAreKnown DEF KeyOf
<1>8. spent \subseteq Keys(Names)
  BY <1>7 DEF Init
<1>9. grants \subseteq Triples
  <2> SUFFICES ASSUME NEW t \in DeployedGrants
               PROVE  Between(master, t) \in Triples
    BY DEF Init
  <2>1. /\ t[1] \in Projects /\ t[2] \in Users \cup Groups /\ t[3] \in Roles
        /\ t[1] \in Deployed /\ t[2] \in Deployed /\ t[3] \in Deployed
    BY ConstantsAssumption DEF ConstantsAssumption
  <2>2. /\ KeyOf(master, t[1]) = <<t[1], i>> /\ KeyOf(master, t[2]) = <<t[2], i>>
        /\ KeyOf(master, t[3]) = <<t[3], i>>
    BY <1>7, <2>1
  <2>3. i \in Ids
    BY IdsApart
  <2> QED
    BY <2>1, <2>2, <2>3 DEF Between, Triples, Keys
<1>10. changes \in 0..MaxChanges
  BY ConstantsAssumption DEF ConstantsAssumption, Init
<1>11. Rows
  BY <1>4, <1>5, <1>8, <1>9, <1>10 DEF Rows
<1>12. Requests
  <2>1. queue = <<>> /\ proxy = NoRequest /\ sync = NoSync
    BY DEF Init
  <2> QED
    BY <2>1 DEF Requests, NoSync
<1>13. Resources
  BY DEF Init, Resources
<1>14. Lists
  <2>1. audit = [type |-> 1, pc |-> "look", busy |-> {}, seen |-> {}] /\ DOMAIN cache = {}
    BY DEF Init, NoAudit, NoLists
  <2>2. 1 \in TypeNumbers
    BY NumbersOfTypes
  <2> QED
    BY <2>1, <2>2 DEF Lists
<1> QED
  BY <1>11, <1>12, <1>13, <1>14 DEF TInv

\* The proxy has a request, of a client.
LEMMA RequestIsMade ==
  ASSUME TInv, NEW r \in Job, Change(r)
  PROVE  Requests' /\ Resources' /\ Lists'
         /\ site' \in [Names -> Records(Ids)]
         /\ changes' = changes + 1 /\ changes + 1 \in Data /\ changes + 1 \in 0..MaxChanges
<1>1. /\ proxy' = r /\ changes' = changes + 1 /\ changes < MaxChanges
      /\ UNCHANGED <<siteVars, dcorchVars, auditVars, queue, sync>>
  BY DEF Change
<1>2. TrackedJobs' = TrackedJobs
  BY <1>1 DEF TrackedJobs, dcorchVars
<1>3. Requests'
  BY <1>1, <1>2 DEF TInv, Requests
<1>4. Resources' /\ Lists'
  BY <1>1, ResourcesStay, ListsStay DEF TInv
<1>5. changes \in 0..MaxChanges /\ site \in [Names -> Records(Ids)]
  BY DEF TInv, Rows
<1> QED
  BY <1>1, <1>3, <1>4, <1>5, DataRange DEF siteVars

LEMMA MasterChangeTypes ==
  ASSUME TInv, MasterChange
  PROVE  TInv'
<1>1. Rows
  BY DEF TInv
<1>2. ASSUME NEW r \in Job, Change(r),
             master' \in [Names -> Records(MasterIds)], grants' \subseteq Triples,
             spent' \subseteq Keys(Names)
      PROVE  TInv'
  BY <1>2, RequestIsMade DEF TInv, Rows
<1>3. ASSUME NEW n \in Names, NEW rec \in Records(MasterIds)
      PROVE  [master EXCEPT ![n] = rec] \in [Names -> Records(MasterIds)]
  BY <1>1 DEF Rows
<1>4. ASSUME changes < MaxChanges
      PROVE  changes + 1 \in Data
  BY <1>1, <1>4, DataRange DEF Rows
<1>5. ASSUME NEW n \in Names, master[n] # Gone
      PROVE  /\ master[n] \in [id : MasterIds, data : Data]
             /\ KeyOf(master, n) \in Keys(Names)
  <2>1. master[n] \in Records(MasterIds)
    BY <1>1 DEF Rows
  <2> QED
    BY <1>5, <2>1, RecordThere, KeyOfRecord, IdsApart
<1>6. ASSUME NEW n \in Names, NEW i \in MasterIds, Create(n, i)
      PROVE  TInv'
  <2>1. changes < MaxChanges
    BY <1>6 DEF Create, Change
  <2>2. [id |-> i, data |-> changes + 1] \in Records(MasterIds)
    BY <2>1, <1>4, RecordMade
  <2>3. <<n, i>> \in Keys(Names) /\ Request("post", <<n, i>>) \in Job
    BY KeysAreKnown, PlainRequest
  <2>4. master' \in [Names -> Records(MasterIds)]
    BY <1>3, <1>6, <2>2 DEF Create
  <2>5. spent' \subseteq Keys(Names) /\ grants' \subseteq Triples
    BY <1>1, <1>6, <2>3 DEF Create, Rows
  <2> QED
    BY <1>2, <1>6, <2>3, <2>4, <2>5 DEF Create
<1>7. ASSUME NEW n \in Names, NEW op \in {"patch", "put"}, Edit(n, op)
      PROVE  TInv'
  <2> DEFINE r == [op |-> op, key |-> KeyOf(master, n), at |-> master[n].id,
                   data |-> changes + 1]
  <2>1. master[n] # Gone /\ changes < MaxChanges /\ Change(r)
    BY <1>7 DEF Edit, Change
  <2>2. /\ KeyOf(master, n) \in Keys(Names) /\ KeyOf(master, n) \in AnyKey
        /\ master[n].id \in MasterIds
    BY <2>1, <1>5, KeysAreKnown
  <2>3. changes + 1 \in Data
    BY <2>1, <1>4
  <2>4. r \in Job
    BY <2>2, <2>3, IdsApart DEF Job
  <2>5. [id |-> master[n].id, data |-> changes + 1] \in Records(MasterIds)
    BY <2>2, <2>3, RecordMade
  <2>6. master' = [master EXCEPT ![n] = [id |-> master[n].id, data |-> changes + 1]]
    BY <1>7 DEF Edit
  <2>7. master' \in [Names -> Records(MasterIds)]
    BY <1>3, <2>5, <2>6
  <2>8. spent' \subseteq Keys(Names) /\ grants' \subseteq Triples
    BY <1>1, <1>7 DEF Edit, Rows
  <2> HIDE DEF r
  <2> QED
    BY <1>2, <2>1, <2>4, <2>7, <2>8
<1>8. ASSUME NEW n \in Names, Destroy(n)
      PROVE  TInv'
  <2>1. KeyOf(master, n) \in Keys(Names)
    BY <1>5, <1>8 DEF Destroy
  <2>2. Request("delete", KeyOf(master, n)) \in Job
    BY <2>1, KeysAreKnown, PlainRequest
  <2>3. master' \in [Names -> Records(MasterIds)]
    BY <1>3, <1>8, EmptyIsRecord DEF Destroy
  <2>4. spent' \subseteq Keys(Names) /\ grants' \subseteq Triples
    BY <1>1, <1>8 DEF Destroy, Rows, Without
  <2> QED
    BY <1>2, <1>8, <2>2, <2>3, <2>4 DEF Destroy
<1>9. ASSUME NEW t \in Triples, Grant(t) \/ Revoke(t)
      PROVE  TInv'
  <2>1. Request("post", t) \in Job /\ Request("delete", t) \in Job
    BY KeysAreKnown, PlainRequest
  <2>2. master' \in [Names -> Records(MasterIds)] /\ spent' \subseteq Keys(Names)
    BY <1>1, <1>9 DEF Grant, Revoke, Rows
  <2>3. grants' \subseteq Triples
    BY <1>1, <1>9 DEF Grant, Revoke, Rows
  <2> QED
    BY <1>2, <1>9, <2>1, <2>2, <2>3 DEF Grant, Revoke
<1> QED
  BY <1>6, <1>7, <1>8, <1>9 DEF MasterChange

LEMMA EnqueueTypes ==
  ASSUME TInv, Enqueue \/ ProxyDies
  PROVE  TInv'
<1>1. /\ UNCHANGED <<masterVars, siteVars, mapped, auditVars, sync>>
      /\ proxy' = NoRequest /\ proxy \in Job
  BY DEF Enqueue, ProxyDies, dcorchVars, TInv, Requests
<1>2. Rows' /\ Lists'
  BY <1>1, RowsStay, ListsStay DEF TInv, Rows, siteVars
<1>3. CASE ProxyDies
  <2>1. UNCHANGED <<queue, dcorchVars, tracked>>
    BY <1>3 DEF ProxyDies, dcorchVars
  <2>2. TrackedJobs' = TrackedJobs
    BY <2>1 DEF TrackedJobs
  <2>3. Requests'
    BY <1>1, <2>1, <2>2 DEF TInv, Requests
  <2>4. Resources'
    BY <2>1, ResourcesStay DEF TInv
  <2> QED
    BY <1>2, <2>3, <2>4 DEF TInv
<1>4. CASE Enqueue
  <2>1. queue' = Append(queue, proxy) /\ tracked' = tracked \cup {proxy.key}
    BY <1>4 DEF Enqueue
  <2>2. proxy.key \in AnyKey
    BY <1>1 DEF Job
  <2>3. TrackedJobs \subseteq TrackedJobs' /\ proxy \in TrackedJobs'
    BY <1>1, <2>1 DEF TrackedJobs
  <2>4. queue \in Seq(TrackedJobs')
    BY <2>3, SeqMonotonic DEF TInv, Requests
  <2>5. queue' \in Seq(TrackedJobs') /\ queue' # <<>>
    BY <2>1, <2>3, <2>4
  <2>6. Requests'
    BY <1>1, <2>5 DEF TInv, Requests
  <2>7. Resources'
    BY <1>1, <2>1, <2>2 DEF TInv, Resources
  <2> QED
    BY <1>2, <2>6, <2>7 DEF TInv
<1> QED
  BY <1>3, <1>4

LEMMA InitialSyncTypes ==
  ASSUME TInv, InitialSync
  PROVE  TInv'
<1>1. /\ UNCHANGED <<masterVars, dcorchVars, auditVars, proxy, queue, sync>>
      /\ \/ UNCHANGED site
         \/ \E type \in NameTypes : \E n \in Differing(type) :
              site' = [site EXCEPT ![n] = master[n]]
  <2>1. ASSUME NEW type \in NameTypes, NEW Follows(_, _), NEW next,
               InitialOf(type, Follows, next)
        PROVE  /\ UNCHANGED <<masterVars, dcorchVars, auditVars, proxy, queue, sync>>
               /\ \/ UNCHANGED site
                  \/ \E n \in Differing(type) : site' = [site EXCEPT ![n] = master[n]]
    BY <2>1 DEF InitialOf, siteVars
  <2> QED
    BY <2>1 DEF InitialSync, InitialUsers, InitialGroups, InitialProjects, InitialRoles,
       InitialOf, NameTypes, siteVars
<1>2. site' \in [Names -> Records(Ids)]
  <2>1. ASSUME NEW type \in NameTypes, NEW n \in Differing(type),
               site' = [site EXCEPT ![n] = master[n]]
        PROVE  site' \in [Names -> Records(Ids)]
    <3>1. n \in Names
      BY TypesOfNames DEF Differing
    <3>2. master[n] \in Records(Ids)
      BY <3>1, MasterRecords DEF TInv, Rows
    <3> QED
      BY <2>1, <3>2 DEF TInv, Rows
  <2> QED
    BY <1>1, <2>1 DEF TInv, Rows
<1>3. Rows' /\ Lists' /\ Resources'
  BY <1>1, <1>2, RowsStay, ListsStay, ResourcesStay DEF TInv
<1>4. Requests'
  BY <1>1, RequestsStay DEF TInv, dcorchVars
<1> QED
  BY <1>3, <1>4 DEF TInv

\* What a handler does to the tables and to the request.
LEMMA HandlerTypes ==
  ASSUME TInv, queue # <<>>, UNCHANGED <<masterVars, dcorchVars, auditVars, proxy>>,
         site' \in [Names -> Records(Ids)],
         \/ Finish \/ GoOn("save", Gone) \/ GoOn("unmap", Gone)
         \/ \E rec \in [id : MasterIds, data : Data] : GoOn("push", rec)
  PROVE  TInv'
<1>1. Rows' /\ Lists' /\ Resources'
  BY RowsStay, ListsStay, ResourcesStay DEF TInv
<1>2. Requests'
  BY RequestEnds, RequestGoesOn DEF TInv, dcorchVars
<1> QED
  BY <1>1, <1>2 DEF TInv

LEMMA HandlersTypes ==
  ASSUME TInv, NEW type \in NameTypes, NEW Follows(_, _),
         UNCHANGED <<masterVars, dcorchVars, auditVars, proxy>>,
         \/ Fetch(type) \/ Insert(type) \/ Amend(type, Follows)
         \/ Patch(type) \/ Delete(type)
  PROVE  TInv'
<1> DEFINE n == request.key[1]
<1>1. queue # <<>> /\ n \in Names
  <2>1. PICK op, pc : Handling(type, op, pc)
    BY DEF Fetch, Insert, Amend, Patch, Delete
  <2> QED
    BY <2>1, HandledName DEF Handling
<1>2. site \in [Names -> Records(Ids)] /\ master \in [Names -> Records(MasterIds)]
  BY DEF TInv, Rows
<1>3. ASSUME UNCHANGED site
      PROVE  site' \in [Names -> Records(Ids)]
  BY <1>2, <1>3
<1>4. ASSUME sync.pc = "push", site' = [site EXCEPT ![n] = sync.rec]
      PROVE  site' \in [Names -> Records(Ids)]
  <2>1. sync.rec \in Records(Ids)
    BY <1>4, MasterRecords DEF TInv, Requests
  <2> HIDE DEF n
  <2> QED
    BY <1>2, <1>4, <2>1
<1>5. ASSUME Fetch(type)
      PROVE  TInv'
  <2>1. UNCHANGED site
    BY <1>5 DEF Fetch, siteVars
  <2>2. \/ Finish
        \/ Has(master, request.key) /\ GoOn("push", master[n])
    BY <1>5 DEF Fetch
  <2>3. ASSUME Has(master, request.key)
        PROVE  master[n] \in [id : MasterIds, data : Data]
    BY <1>1, <1>2, <2>3, RecordThere DEF Has
  <2> QED
    BY <1>1, <1>3, <2>1, <2>2, <2>3, HandlerTypes
<1>6. ASSUME Insert(type)
      PROVE  TInv'
  <2>1. site' \in [Names -> Records(Ids)]
    BY <1>3, <1>4, <1>6 DEF Insert, Handling
  <2>2. Finish \/ GoOn("save", Gone)
    BY <1>6 DEF Insert
  <2> QED
    BY <1>1, <2>1, <2>2, HandlerTypes
<1>7. ASSUME Amend(type, Follows)
      PROVE  TInv'
  <2>1. site' \in [Names -> Records(Ids)]
    BY <1>3, <1>4, <1>7 DEF Amend, Handling, siteVars
  <2>2. Finish \/ GoOn("save", Gone)
    BY <1>7 DEF Amend
  <2> QED
    BY <1>1, <2>1, <2>2, HandlerTypes
<1>8. ASSUME Patch(type)
      PROVE  TInv'
  <2>1. request.data \in Data
    BY <1>1, FirstRequest DEF TInv, Job
  <2>2. ASSUME NEW m \in Names, site[m] # Gone
        PROVE  [id |-> site[m].id, data |-> request.data] \in Records(Ids)
    <3>1. site[m].id \in Ids
      BY <1>2, <2>2, RecordThere
    <3> QED
      BY <2>1, <3>1, RecordMade
  <2>3. site' = [m \in Names |->
                   IF site[m] # Gone /\ [of |-> request.key, is |-> KeyOf(site, m)] \in mapped
                   THEN [id |-> site[m].id, data |-> request.data] ELSE site[m]]
    BY <1>8 DEF Patch
  <2>4. site' \in [Names -> Records(Ids)]
    BY <1>2, <2>2, <2>3
  <2>5. Finish
    BY <1>8 DEF Patch
  <2> QED
    BY <1>1, <2>4, <2>5, HandlerTypes
<1>9. ASSUME Delete(type)
      PROVE  TInv'
  <2>1. UNCHANGED site \/ \E m : site' = [site EXCEPT ![m] = Gone]
    BY <1>9 DEF Delete, siteVars
  <2>2. site' \in [Names -> Records(Ids)]
    BY <1>2, <2>1, EmptyIsRecord
  <2>3. Finish \/ GoOn("unmap", Gone)
    BY <1>9 DEF Delete
  <2> QED
    BY <1>1, <2>2, <2>3, HandlerTypes
<1> QED
  BY <1>5, <1>6, <1>7, <1>8, <1>9

LEMMA SyncStepTypes ==
  ASSUME TInv, SyncStep
  PROVE  TInv'
<1>1. {"users", "groups", "projects", "roles", "events"} \subseteq NameTypes
  BY DEF NameTypes
<1>2. site \in [Names -> Records(Ids)]
  BY DEF TInv, Rows
<1>3. ASSUME SyncUsers \/ SyncGroups \/ SyncProjects \/ SyncRoles \/ PostEvent
      PROVE  TInv'
  <2>1. ASSUME SyncUsers PROVE TInv'
    BY <1>1, <2>1, HandlersTypes DEF SyncUsers, Handlers
  <2>2. ASSUME SyncGroups PROVE TInv'
    BY <1>1, <2>2, HandlersTypes DEF SyncGroups, Handlers
  <2>3. ASSUME SyncProjects PROVE TInv'
    BY <1>1, <2>3, HandlersTypes DEF SyncProjects, Handlers
  <2>4. ASSUME SyncRoles PROVE TInv'
    BY <1>1, <2>4, HandlersTypes DEF SyncRoles, Handlers
  <2>5. ASSUME PostEvent PROVE TInv'
    BY <1>1, <2>5, HandlersTypes DEF PostEvent
  <2> QED
    BY <1>3, <2>1, <2>2, <2>3, <2>4, <2>5
<1>4. ASSUME PostAssignment \/ DeleteAssignment
      PROVE  TInv'
  <2>1. queue # <<>> /\ UNCHANGED <<masterVars, site, dcorchVars, auditVars, proxy>>
    BY <1>4 DEF PostAssignment, DeleteAssignment, Handling
  <2>2. Finish \/ GoOn("save", Gone) \/ GoOn("unmap", Gone)
    BY <1>4 DEF PostAssignment, DeleteAssignment
  <2> QED
    BY <1>2, <2>1, <2>2, HandlerTypes
<1>5. ASSUME Save \/ Unmap
      PROVE  TInv'
  <2>1. /\ UNCHANGED <<masterVars, siteVars, tracked, auditVars, proxy>>
        /\ Finish /\ sync.pc \in {"save", "unmap"}
    BY <1>5 DEF Save, Unmap
  <2>2. queue # <<>>
    BY <2>1 DEF TInv, Requests, NoSync
  <2>3. Requests' /\ Rows' /\ Lists'
    BY <1>2, <2>1, <2>2, RequestEnds, RowsStay, ListsStay DEF TInv, siteVars
  <2>4. request.key \in AnyKey /\ request.key \in tracked
    BY <2>2, FirstRequest DEF TInv, Job
  <2>5. \/ mapped' = (mapped \ Mapping(request.key))
                       \cup {[of |-> request.key, is |-> request.key]}
        \/ mapped' = mapped \ Mapping(request.key)
    BY <1>5 DEF Save, Unmap, Persist
  <2>6. \A x \in mapped \ Mapping(request.key) : x.of # request.key
    BY DEF Mapping
  <2>7. Resources'
    BY <2>1, <2>4, <2>5, <2>6 DEF TInv, Resources
  <2> QED
    BY <2>3, <2>7 DEF TInv
<1> QED
  BY <1>3, <1>4, <1>5 DEF SyncStep

-------------------------------------------------------------------------------
(* The lists of the audit, and the requests it makes of them.              *)

\* What a keystone lists of one type is a list.
LEMMA ListIsList ==
  ASSUME NEW t \in NameTypes \cup {"assignments"}, NEW table, NEW ids \in SUBSET Ids,
         table \in [Names -> Records(ids)], NEW assignments \in SUBSET Triples
  PROVE  IsList(List(t, table, assignments))
<1>1. CASE t = "assignments"
  <2>1. List(t, table, assignments) = {[key |-> k, data |-> 0] : k \in assignments}
    BY <1>1 DEF List, Assignments
  <2> QED
    BY <2>1, DataRange, KeysAreKnown DEF IsList, Listed
<1>2. CASE t \in NameTypes /\ t # "assignments"
  <2>1. TypeNames[t] \subseteq Names
    BY <1>2, TypesOfNames
  <2>2. List(t, table, assignments) =
          {[key |-> KeyOf(table, n), data |-> table[n].data] :
             n \in {m \in TypeNames[t] : table[m] # Gone}}
    BY <1>2 DEF List, Accounts
  <2>3. ASSUME NEW n \in TypeNames[t], table[n] # Gone
        PROVE  /\ [key |-> KeyOf(table, n), data |-> table[n].data] \in Listed
               /\ KeyOf(table, n)[1] = n
    <3>1. n \in Names /\ table[n] \in Records(ids)
      BY <2>1
    <3>2. KeyOf(table, n) \in AnyKey
      BY <2>3, <3>1, KeyOfRecord, KeysAreKnown
    <3>3. table[n].data \in Data
      BY <2>3, <3>1, RecordThere
    <3> QED
      BY <3>2, <3>3 DEF Listed, KeyOf
  <2>4. List(t, table, assignments) \subseteq Listed
    BY <2>2, <2>3
  <2>5. ASSUME NEW x \in List(t, table, assignments), NEW y \in List(t, table, assignments),
               x.key = y.key
        PROVE  x = y
    <3>1. PICK n \in TypeNames[t] :
            table[n] # Gone /\ x = [key |-> KeyOf(table, n), data |-> table[n].data]
      BY <2>2
    <3>2. PICK m \in TypeNames[t] :
            table[m] # Gone /\ y = [key |-> KeyOf(table, m), data |-> table[m].data]
      BY <2>2
    <3>3. n = m
      BY <2>3, <2>5, <3>1, <3>2
    <3> QED
      BY <3>1, <3>2, <3>3
  <2> QED
    BY <2>4, <2>5 DEF IsList
<1>3. "assignments" \notin NameTypes
  BY DEF NameTypes
<1> QED
  BY <1>1, <1>2, <1>3

LEMMA CurrentType ==
  ASSUME TInv
  PROVE  /\ audit.type \in TypeNumbers /\ current = Types[audit.type]
         /\ current \in NameTypes \cup {"assignments"}
BY NumbersOfTypes DEF TInv, Lists, current

LEMMA MasterListIsList ==
  ASSUME TInv
  PROVE  IsList(MasterList)
<1>1. IsList(List(current, master, grants))
  BY CurrentType, ListIsList, IdsApart DEF TInv, Rows
<1> QED
  BY <1>1 DEF MasterList, TInv, Lists

LEMMA NextTypeLists ==
  ASSUME TInv, NextType
  PROVE  Lists'
<1>1. CASE audit' = NoAudit /\ cache' = NoLists
  <2>1. audit' = [type |-> 1, pc |-> "look", busy |-> {}, seen |-> {}] /\ DOMAIN cache' = {}
    BY <1>1 DEF NoAudit, NoLists
  <2> QED
    BY <2>1, NumbersOfTypes DEF Lists
<1>2. CASE /\ audit.type # Len(Types)
           /\ audit' = [NoAudit EXCEPT !.type = audit.type + 1]
           /\ cache' = [t \in DOMAIN cache \cup {current} |->
                          IF t = current THEN MasterList ELSE cache[t]]
  <2>1. audit.type + 1 \in TypeNumbers
    BY <1>2, CurrentType, NumbersOfTypes
  <2>2. audit' = [type |-> audit.type + 1, pc |-> "look", busy |-> {}, seen |-> {}]
    BY <1>2 DEF NoAudit
  <2>3. DOMAIN cache' = DOMAIN cache \cup {current}
    BY <1>2
  <2>4. DOMAIN cache' \subseteq {Types[j] : j \in TypeNumbers}
    BY <2>3, CurrentType DEF TInv, Lists
  <2>5. \A t \in DOMAIN cache' : IsList(cache'[t])
    BY <1>2, <2>3, MasterListIsList DEF TInv, Lists
  <2> QED
    BY <2>1, <2>2, <2>4, <2>5 DEF Lists
<1> QED
  BY <1>1, <1>2 DEF NextType

LEMMA AuditLookTypes ==
  ASSUME TInv, held \subseteq Triples, AuditLook
  PROVE  TInv'
<1>1. UNCHANGED <<masterVars, siteVars, dcorchVars, cache, proxy, queue, sync>>
  BY DEF AuditLook
<1>2. Rows' /\ Resources'
  BY <1>1, RowsStay, ResourcesStay DEF TInv, Rows, siteVars
<1>3. Requests'
  BY <1>1, RequestsStay DEF TInv, dcorchVars
<1> DEFINE busy == {k \in {queue[j].key : j \in 1..Len(queue)} : OfType(k, current)}
           seen == List(current, site, held)
<1>4. audit' = [audit EXCEPT !.pc = "compare", !.busy = busy, !.seen = seen]
  BY DEF AuditLook
<1>5. busy \subseteq AnyKey
  <2>1. \A j \in 1..Len(queue) : queue[j] \in TrackedJobs
    BY ElementOfSeq DEF TInv, Requests
  <2> QED
    BY <2>1 DEF TrackedJobs, Job
<1>6. seen \subseteq Listed
  BY CurrentType, ListIsList DEF TInv, Rows, IsList
<1> HIDE DEF busy, seen
<1>7. Lists'
  BY <1>1, <1>4, <1>5, <1>6 DEF TInv, Lists
<1> QED
  BY <1>2, <1>3, <1>7 DEF TInv

\* What is enumerated is a sequence of it.
LEMMA SetToSeqIsSeq ==
  ASSUME NEW S, IsFiniteSet(S)
  PROVE  SetToSeq(S) \in Seq(S)
<1> DEFINE c == Cardinality(S)
<1>1. c \in Nat /\ ExistsBijection(1..c, S)
  BY FS_CardinalityType
<1>2. \E f \in [1..c -> S] : IsInjective(f)
  BY <1>1 DEF ExistsBijection, Bijection, Injection
<1>3. SetToSeq(S) \in [1..c -> S]
  BY <1>2 DEF SetToSeq
<1> HIDE DEF c
<1> QED
  BY <1>1, <1>3

LEMMA KnownKeysAreFinite == IsFiniteSet(AnyKey)
<1>1. IsFiniteSet(Names) /\ IsFiniteSet(MasterIds)
  BY ConstantsAssumption DEF ConstantsAssumption
<1>2. IsFiniteSet(Ids)
  BY <1>1, FS_Singleton, FS_Union DEF Ids
<1>3. ASSUME NEW N \in SUBSET Names
      PROVE  IsFiniteSet(Keys(N))
  <2>1. IsFiniteSet(N)
    BY <1>1, FS_Subset
  <2> QED
    BY <1>2, <2>1, FS_Product DEF Keys
<1>4. IsFiniteSet(Triples)
  <2>1. /\ Projects \in SUBSET Names /\ Roles \in SUBSET Names
        /\ (Users \cup Groups) \in SUBSET Names
    BY DEF Names
  <2>2. IsFiniteSet((Keys(Projects) \X Keys(Users \cup Groups)) \X Keys(Roles))
    BY <1>3, <2>1, FS_Product
  <2> DEFINE f == [t \in Triples |-> <<<<t[1], t[2]>>, t[3]>>]
  <2>3. f \in Injection(Triples, (Keys(Projects) \X Keys(Users \cup Groups)) \X Keys(Roles))
    <3>1. f \in [Triples -> (Keys(Projects) \X Keys(Users \cup Groups)) \X Keys(Roles)]
      BY TripleKeys
    <3>2. ASSUME NEW s \in Triples, NEW t \in Triples, f[s] = f[t]
          PROVE  s = t
      <4>1. s = <<s[1], s[2], s[3]>> /\ t = <<t[1], t[2], t[3]>>
        BY TripleKeys
      <4> QED
        BY <3>2, <4>1
    <3> QED
      BY <3>1, <3>2 DEF Injection, IsInjective
  <2> HIDE DEF f
  <2> QED
    BY <2>2, <2>3, FS_Injection
<1>5. IsFiniteSet(Keys(Names))
  BY <1>3
<1> QED
  BY <1>4, <1>5, FS_Union DEF AnyKey

\* There are no more entries in a list than there are keys.
LEMMA ListsAreFinite ==
  ASSUME NEW L, IsList(L)
  PROVE  IsFiniteSet(L)
<1> DEFINE f == [m \in L |-> m.key]
<1>1. f \in Injection(L, AnyKey)
  BY DEF Injection, IsInjective, IsList, Listed
<1> HIDE DEF f
<1> QED
  BY <1>1, KnownKeysAreFinite, FS_Injection

\* The one of the subcloud that a resource is taken for.
LEMMA EqualIsKnown ==
  ASSUME TInv, NEW m, Alike(m) # {}
  PROVE  /\ Equal(m) \in AnyKey
         /\ Equal(m)[2] \in Ids \cup Keys(Names)
<1>1. PICK s \in audit.seen : Equal(m) = s.key
  BY DEF Equal, Alike
<1>2. s.key \in AnyKey
  BY DEF TInv, Lists, Listed
<1>3. CASE s.key \in Keys(Names)
  BY <1>1, <1>2, <1>3, KeysOfNames
<1>4. CASE s.key \in Triples
  <2>1. s.key[2] \in Keys(Users \cup Groups)
    BY <1>4, TripleKeys
  <2>2. (Users \cup Groups) \subseteq Names
    BY DEF Names
  <2>3. Keys(Users \cup Groups) \subseteq Keys(Names)
    BY <2>2 DEF Keys
  <2> QED
    BY <1>1, <1>2, <2>1, <2>3
<1> QED
  BY <1>2, <1>3, <1>4 DEF AnyKey

\* A function has no more values than arguments.
LEMMA ImageIsFinite ==
  ASSUME NEW S, IsFiniteSet(S), NEW J, NEW f, f = [x \in S |-> f[x]],
         J = {f[x] : x \in S}
  PROVE  IsFiniteSet(J)
<1>1. f \in Surjection(S, J)
  BY DEF Surjection
<1> QED
  BY <1>1, FS_Surjection

LEMMA AuditCompareTypes ==
  ASSUME TInv, AuditCompare
  PROVE  TInv'
<1> DEFINE list == MasterList
           todo == {m \in list : m.key \notin audit.busy /\ ~InSync(m)}
           create == {Request("post", m.key) : m \in ToCreate(todo)}
           update == {[Request("put", m.key) EXCEPT !.at = Equal(m)[2]] : m \in ToUpdate(todo)}
           extra == {Request("delete", k) : k \in Extra(list)}
           jobs == create \cup update \cup extra
           maps == {[of |-> m.key, is |-> Equal(m)] : m \in ToMap(todo)}
<1>1. /\ queue' = queue \o SetToSeq(jobs)
      /\ mapped' = mapped \cup maps
      /\ tracked' = tracked \cup {m.key : m \in ToMap(todo) \cup ToCreate(todo)}
  BY DEF AuditCompare
<1>2. NextType /\ UNCHANGED <<masterVars, siteVars, proxy, sync>>
  BY DEF AuditCompare
<1>3. Rows' /\ Lists'
  BY <1>2, NextTypeLists, RowsStay DEF TInv, Rows, siteVars
<1>4. IsList(list) /\ IsFiniteSet(list)
  BY MasterListIsList, ListsAreFinite
<1>5. /\ todo \subseteq list
      /\ ToMap(todo) \subseteq list /\ ToUpdate(todo) \subseteq list
      /\ ToCreate(todo) \subseteq list
      /\ \A m \in ToMap(todo) : Mapping(m.key) = {} /\ Alike(m) # {}
      /\ \A m \in ToUpdate(todo) : Mapping(m.key) # {} /\ Alike(m) # {}
  BY DEF ToMap, ToUpdate, ToCreate
<1>6. \A m \in list : m.key \in AnyKey
  BY <1>4 DEF IsList, Listed
<1> HIDE DEF list, todo
<1>7. Extra(list) \subseteq tracked /\ tracked \subseteq AnyKey
  BY DEF Extra, TInv, Resources
<1>8. \A m : Mapping(m.key) # {} => m.key \in tracked
  BY DEF Mapping, TInv, Resources
<1>9. tracked \subseteq tracked'
  BY <1>1
<1>10. create \subseteq TrackedJobs'
  <2> SUFFICES ASSUME NEW m \in ToCreate(todo)
               PROVE  Request("post", m.key) \in TrackedJobs'
    OBVIOUS
  <2>1. m.key \in AnyKey /\ m.key \in tracked'
    BY <1>1, <1>5, <1>6
  <2>2. Request("post", m.key) \in Job /\ Request("post", m.key).key = m.key
    BY <2>1, PlainRequest DEF Request
  <2> QED
    BY <2>1, <2>2 DEF TrackedJobs
<1>11. update \subseteq TrackedJobs'
  <2> SUFFICES ASSUME NEW m \in ToUpdate(todo)
               PROVE  [Request("put", m.key) EXCEPT !.at = Equal(m)[2]] \in TrackedJobs'
    OBVIOUS
  <2>1. m.key \in AnyKey /\ m.key \in tracked'
    BY <1>5, <1>6, <1>8, <1>9
  <2>2. Equal(m)[2] \in Ids \cup Keys(Names)
    BY <1>5, EqualIsKnown
  <2>3. [Request("put", m.key) EXCEPT !.at = Equal(m)[2]] =
          [op |-> "put", key |-> m.key, at |-> Equal(m)[2], data |-> 0]
    BY DEF Request
  <2>4. [op |-> "put", key |-> m.key, at |-> Equal(m)[2], data |-> 0] \in Job
    BY <2>1, <2>2, DataRange DEF Job
  <2> QED
    BY <2>1, <2>3, <2>4 DEF TrackedJobs
<1>12. extra \subseteq TrackedJobs'
  <2> SUFFICES ASSUME NEW k \in Extra(list)
               PROVE  Request("delete", k) \in TrackedJobs'
    OBVIOUS
  <2>1. k \in AnyKey /\ k \in tracked'
    BY <1>7, <1>9
  <2>2. Request("delete", k) \in Job /\ Request("delete", k).key = k
    BY <2>1, PlainRequest DEF Request
  <2> QED
    BY <2>1, <2>2 DEF TrackedJobs
<1>13. IsFiniteSet(jobs)
  <2>1. /\ IsFiniteSet(ToCreate(todo)) /\ IsFiniteSet(ToUpdate(todo))
        /\ IsFiniteSet(Extra(list))
    BY <1>4, <1>5, <1>7, KnownKeysAreFinite, FS_Subset
  <2>2. IsFiniteSet(create)
    <3> DEFINE f == [m \in ToCreate(todo) |-> Request("post", m.key)]
    <3>1. f = [m \in ToCreate(todo) |-> f[m]] /\ create = {f[m] : m \in ToCreate(todo)}
      OBVIOUS
    <3> HIDE DEF f, create
    <3> QED
      BY <2>1, <3>1, ImageIsFinite
  <2>3. IsFiniteSet(update)
    <3> DEFINE f == [m \in ToUpdate(todo) |->
                       [Request("put", m.key) EXCEPT !.at = Equal(m)[2]]]
    <3>1. f = [m \in ToUpdate(todo) |-> f[m]] /\ update = {f[m] : m \in ToUpdate(todo)}
      OBVIOUS
    <3> HIDE DEF f, update
    <3> QED
      BY <2>1, <3>1, ImageIsFinite
  <2>4. IsFiniteSet(extra)
    <3> DEFINE f == [k \in Extra(list) |-> Request("delete", k)]
    <3>1. f = [k \in Extra(list) |-> f[k]] /\ extra = {f[k] : k \in Extra(list)}
      OBVIOUS
    <3> HIDE DEF f, extra
    <3> QED
      BY <2>1, <3>1, ImageIsFinite
  <2> HIDE DEF create, update, extra
  <2> QED
    BY <2>2, <2>3, <2>4, FS_Union
<1>14. jobs \subseteq TrackedJobs'
  BY <1>10, <1>11, <1>12
<1> HIDE DEF jobs
<1>15. Requests'
  <2>1. SetToSeq(jobs) \in Seq(TrackedJobs')
    BY <1>13, <1>14, SetToSeqIsSeq, SeqMonotonic
  <2>2. TrackedJobs \subseteq TrackedJobs'
    BY <1>9 DEF TrackedJobs
  <2>3. queue \in Seq(TrackedJobs')
    BY <2>2, SeqMonotonic DEF TInv, Requests
  <2>4. queue' \in Seq(TrackedJobs')
    BY <1>1, <2>1, <2>3, ConcatProperties
  <2>5. queue' = <<>> => queue = <<>>
    <3>1. Len(queue') = Len(queue) + Len(SetToSeq(jobs))
      BY <1>1, <2>1, <2>3, ConcatProperties
    <3>2. Len(SetToSeq(jobs)) \in Nat /\ Len(queue) \in Nat
      BY <2>1, <2>3, LenProperties
    <3>3. queue # <<>> => Len(queue) # 0
      BY <2>3, EmptySeq
    <3>4. queue' = <<>> => Len(queue') = 0
      BY <2>4, EmptySeq
    <3> QED
      BY <3>1, <3>2, <3>3, <3>4
  <2> QED
    BY <1>2, <2>4, <2>5 DEF TInv, Requests
<1>16. Resources'
  <2>1. tracked' \subseteq AnyKey
    BY <1>1, <1>5, <1>6, <1>7
  <2>2. \A x \in maps : \E m \in ToMap(todo) : x = [of |-> m.key, is |-> Equal(m)]
    OBVIOUS
  <2>3. maps \subseteq [of : AnyKey, is : AnyKey]
    BY <1>5, <1>6, <2>2, EqualIsKnown
  <2>4. \A x \in maps : x.of \in tracked'
    BY <1>1, <2>2
  <2>5. \A x, y \in maps : x.of = y.of => x = y
    BY <1>4, <1>5, <2>2 DEF IsList
  <2>6. \A x \in maps, y \in mapped : x.of # y.of
    BY <1>5, <2>2 DEF Mapping
  <2> HIDE DEF maps
  <2>7. mapped' \subseteq [of : AnyKey, is : AnyKey]
    BY <1>1, <2>3 DEF TInv, Resources
  <2>8. \A x, y \in mapped' : x.of = y.of => x = y
    BY <1>1, <2>5, <2>6 DEF TInv, Resources
  <2>9. \A x \in mapped' : x.of \in tracked'
    BY <1>1, <1>9, <2>4 DEF TInv, Resources
  <2> QED
    BY <2>1, <2>7, <2>8, <2>9 DEF Resources
<1> QED
  BY <1>3, <1>15, <1>16 DEF TInv

LEMMA FailureTypes ==
  ASSUME TInv, held \subseteq Triples, Failure
  PROVE  TInv'
<1>1. Rows /\ Requests /\ Resources /\ Lists /\ site \in [Names -> Records(Ids)]
  BY DEF TInv, Rows
<1>2. ASSUME UNCHANGED <<masterVars, dcorchVars, proxy, queue, sync>>,
             site' \in [Names -> Records(Ids)], Lists'
      PROVE  TInv'
  <2>1. Rows' /\ Resources'
    BY <1>1, <1>2, RowsStay, ResourcesStay
  <2>2. Requests'
    BY <1>1, <1>2, RequestsStay DEF dcorchVars
  <2> QED
    BY <1>2, <2>1, <2>2 DEF TInv
<1>3. ASSUME ProxyDies
      PROVE  TInv'
  BY <1>3, EnqueueTypes
<1>4. ASSUME InitialFails
      PROVE  TInv'
  BY <1>1, <1>2, <1>4, ListsStay DEF InitialFails, siteVars
<1>5. ASSUME SyncFails
      PROVE  TInv'
  <2>1. /\ queue # <<>> /\ sync' = NoSync
        /\ queue' = Tail(queue) \/ UNCHANGED queue
        /\ UNCHANGED <<masterVars, siteVars, dcorchVars, auditVars, proxy>>
    BY <1>5 DEF SyncFails
  <2>2. TrackedJobs' = TrackedJobs
    BY <2>1 DEF TrackedJobs, dcorchVars
  <2>3. queue' \in Seq(TrackedJobs')
    BY <1>1, <2>1, <2>2, FirstRequest DEF Requests
  <2>4. Requests'
    BY <1>1, <2>1, <2>3 DEF Requests, NoSync
  <2>5. Rows' /\ Resources' /\ Lists'
    BY <1>1, <2>1, RowsStay, ResourcesStay, ListsStay DEF siteVars
  <2> QED
    BY <2>4, <2>5 DEF TInv
<1>6. ASSUME AuditFails
      PROVE  TInv'
  <2>1. NextType \/ (audit' = NoAudit /\ UNCHANGED cache)
    BY <1>6 DEF AuditFails
  <2>2. CASE audit' = NoAudit /\ UNCHANGED cache
    <3>1. audit' = [type |-> 1, pc |-> "look", busy |-> {}, seen |-> {}]
      BY <2>2 DEF NoAudit
    <3>2. Lists'
      BY <1>1, <2>2, <3>1, NumbersOfTypes DEF Lists
    <3> QED
      BY <1>1, <1>2, <1>6, <3>2 DEF AuditFails, siteVars
  <2>3. CASE NextType
    BY <1>1, <1>2, <1>6, <2>3, NextTypeLists DEF AuditFails, siteVars
  <2> QED
    BY <2>1, <2>2, <2>3
<1>7. ASSUME OtherAudit
      PROVE  TInv'
  <2>1. cache' = [t \in {Types[j] : j \in TypeNumbers} |->
                    IF t \in DOMAIN cache THEN cache[t] ELSE List(t, master, grants)]
    BY <1>7 DEF OtherAudit, TypeNumbers
  <2>2. \A t \in {Types[j] : j \in TypeNumbers} : IsList(List(t, master, grants))
    BY <1>1, NumbersOfTypes, ListIsList, IdsApart DEF Rows
  <2>3. DOMAIN cache' = {Types[j] : j \in TypeNumbers} /\ \A t \in DOMAIN cache' : IsList(cache'[t])
    BY <1>1, <2>1, <2>2 DEF Lists
  <2>4. UNCHANGED audit
    BY <1>7 DEF OtherAudit
  <2>5. Lists'
    BY <1>1, <2>3, <2>4 DEF Lists
  <2> QED
    BY <1>1, <1>2, <1>7, <2>5 DEF OtherAudit, siteVars
<1>8. ASSUME NEW n \in Names, LocalChange(n)
      PROVE  TInv'
  <2>1. [id |-> "own", data |-> Foreign] \in Records(Ids)
    BY DataRange, RecordMade, IdsApart
  <2>2. site[n] # Gone => [id |-> site[n].id, data |-> Foreign] \in Records(Ids)
    <3> SUFFICES ASSUME site[n] # Gone
                 PROVE  [id |-> site[n].id, data |-> Foreign] \in Records(Ids)
      OBVIOUS
    <3>1. site[n].id \in Ids
      BY <1>1, RecordThere
    <3> QED
      BY <3>1, DataRange, RecordMade
  <2>3. \/ site' = [site EXCEPT ![n] = [id |-> "own", data |-> Foreign]]
        \/ site[n] # Gone /\ site' = [site EXCEPT ![n] = [id |-> site[n].id, data |-> Foreign]]
        \/ site' = [site EXCEPT ![n] = Gone]
    BY <1>8 DEF LocalChange
  <2>4. site' \in [Names -> Records(Ids)]
    BY <1>1, <2>1, <2>2, <2>3, EmptyIsRecord
  <2> QED
    BY <1>1, <1>2, <1>8, <2>4, ListsStay DEF LocalChange
<1>9. ASSUME NEW t \in Triples, LocalGrant(t)
      PROVE  TInv'
  BY <1>1, <1>2, <1>9, ListsStay DEF LocalGrant
<1> QED
  BY <1>3, <1>4, <1>5, <1>6, <1>7, <1>8, <1>9 DEF Failure

LEMMA TypesKept == TInv /\ held \subseteq Triples /\ [Next]_vars => TInv'
<1> SUFFICES ASSUME TInv, held \subseteq Triples, [Next]_vars PROVE TInv'
  OBVIOUS
<1>1. CASE UNCHANGED vars
  <2>1. UNCHANGED <<masterVars, siteVars, dcorchVars, auditVars, proxy, queue, sync>>
    BY <1>1 DEF vars
  <2>2. Rows' /\ Resources' /\ Lists'
    BY <2>1, RowsStay, ResourcesStay, ListsStay DEF TInv, Rows, siteVars
  <2>3. Requests'
    BY <2>1, RequestsStay DEF TInv, dcorchVars
  <2> QED
    BY <2>2, <2>3 DEF TInv
<1>2. CASE Next
  <2>1. AuditStep => TInv'
    BY AuditLookTypes, AuditCompareTypes DEF AuditStep
  <2> QED
    BY <1>2, <2>1, MasterChangeTypes, EnqueueTypes, InitialSyncTypes, SyncStepTypes,
       FailureTypes DEF Next
<1> QED
  BY <1>1, <1>2

\* The tables of dcorch and of both keystones, the lists of an audit and its
\* requests are what they should be: no resource has two mappings, and what is
\* mapped or has a request is tracked, whatever names and ids change meanwhile.
THEOREM TypesCorrect == Spec => []TypeOK
<1>1. Init => IInv /\ TInv
  BY InitKeeps, TypesAtFirst
<1>2. IInv /\ TInv /\ [Next]_vars => (IInv /\ TInv)'
  BY StepKeeps, TypesKept DEF IInv, SiteOK
<1>3. IInv /\ TInv => TypeOK
  <2> SUFFICES ASSUME IInv, TInv PROVE TypeOK
    OBVIOUS
  <2>1. \A j \in 1..Len(queue) : queue[j].key \in tracked
    <3>1. \A j \in 1..Len(queue) : queue[j] \in TrackedJobs
      BY ElementOfSeq DEF TInv, Requests
    <3> QED
      BY <3>1 DEF TrackedJobs
  <2>2. \A k \in {queue[j].key : j \in 1..Len(queue)} : k \in tracked
    BY <2>1
  <2>3. DOMAIN cache \subseteq {Types[j] : j \in 1..Len(Types)}
    BY DEF TInv, Lists, TypeNumbers
  <2> QED
    BY <2>2, <2>3 DEF TypeOK, TInv, Rows, Requests, Resources, IInv, SiteOK
<1> QED
  BY <1>1, <1>2, <1>3, PTL DEF Spec

===============================================================================
