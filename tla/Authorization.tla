--------------------------- MODULE Authorization ---------------------------
(***************************************************************************)
(* AuthorizationService and its handlers: roles and groups in two MongoDB  *)
(* collections and in two caches keyed by name, requests that change them  *)
(* (the collection first, then the cache under mu), SyncCache, the default *)
(* configuration SetupDefaultSystem writes step by step, and Authorize,    *)
(* which reads the caches alone.                                           *)
(***************************************************************************)
EXTENDS Naturals, Sequences, FiniteSets, TLC

CONSTANTS Requests,              \* requests handled at the same time
          NewIds,                \* IDs that clients choose for what they create
          RoleNames, GroupNames, \* names of the roles and groups that clients change
          RoleDefs, GroupDefs,   \* permissions, and sets of roles, that clients give them
          Setup,                 \* bound: the indices of IAMConfiguration that are written, in order
          PageSize,              \* defaultPageSize (10 in the code)
          MaxCalls               \* bound: calls of the service by clients

ASSUME PageSizeAssumption == PageSize \in Nat \ {0}
ASSUME MaxCallsAssumption == MaxCalls \in Nat
ASSUME RequestsAssumption == "free" \notin Requests

-----------------------------------------------------------------------------
(* Permissions: a set of actions on a resource pattern *)

May(resource, actions) == [resource |-> resource, actions |-> actions]
RoleEntry(name, def) == [kind |-> "role", name |-> name, def |-> def]
GroupEntry(name, role) == [kind |-> "group", name |-> name, def |-> {role}]

\* The system, organization and project of a pattern are those of the one project modelled.
MatchesResourcePattern(pattern, resource) == pattern \in {"*", resource}
Allows(perm, action) == perm.actions \cap {"admin", action} # {}
RoleAllows(def, resource, action) ==
    \E perm \in def : MatchesResourcePattern(perm.resource, resource) /\ Allows(perm, action)

-----------------------------------------------------------------------------
(* The default configuration *)

Manage == {"read", "write", "delete", "admin"}
Edit == {"read", "write", "delete"}
Operate == {"read", "write"}
View == {"read"}

ProjectConfiguration ==
    <<RoleEntry("Admin", {May("*", {"admin"})}),
      RoleEntry("ProjectReader", {May("*", View)}),
      RoleEntry("ProjectEditor", {May("*", Edit)}),
      GroupEntry("Admins", "Admin"), GroupEntry("Editors", "ProjectEditor")>>
WorkerRoles ==
    <<RoleEntry("WorkerAdmin", {May("worker", Manage)}),
      RoleEntry("WorkerCreator", {May("worker", Operate)}),
      RoleEntry("WorkerOperator", {May("worker", View)}),
      RoleEntry("WorkerViewer", {May("worker", View)})>>
ResourcePoolRoles ==
    <<RoleEntry("ResourcePoolAdmin", {May("resourcepool", Manage)}),
      RoleEntry("ResourcePoolUser", {May("resourcepool", View)})>>
TaskRoles ==
    <<RoleEntry("TaskAdmin", {May("task", Manage), May("taskexecution", Manage)}),
      RoleEntry("TaskCreator", {May("task", Edit), May("taskexecution", View)}),
      RoleEntry("TaskExecutor", {May("task", View), May("taskexecution", Operate)}),
      RoleEntry("TaskViewer", {May("task", View), May("taskexecution", View)})>>
ResourceGroups ==
    <<GroupEntry("WorkerAdmins", "WorkerAdmin"), GroupEntry("WorkerCreators", "WorkerCreator"),
      GroupEntry("WorkerUsers", "WorkerOperator"),
      GroupEntry("ResourcePoolAdmins", "ResourcePoolAdmin"),
      GroupEntry("ResourcePoolUsers", "ResourcePoolUser"),
      GroupEntry("TaskAdmins", "TaskAdmin"), GroupEntry("TaskCreators", "TaskCreator"),
      GroupEntry("TaskExecutors", "TaskExecutor")>>

\* Mutant: the groups of the resources are created before their roles.
GroupsFirst == ResourceGroups \o WorkerRoles \o ResourcePoolRoles \o TaskRoles

ResourceConfiguration == WorkerRoles \o ResourcePoolRoles \o TaskRoles \o ResourceGroups

IAMConfiguration == ProjectConfiguration \o ResourceConfiguration

ASSUME SetupAssumption ==
    /\ Setup \in Seq(DOMAIN IAMConfiguration)
    /\ \A k \in DOMAIN Setup : \A l \in 1..(k - 1) : Setup[l] < Setup[k]
Configuration == [k \in DOMAIN Setup |-> IAMConfiguration[Setup[k]]]

\* The groups in the rows of the five default users, and the IDs of the service accounts.
DefaultUserGroups ==
    <<{"Admins"}, {"OrganizationAdmins"}, {"Admins"}, {"Readers"}, {"Operators", "TaskExecutors"}>>
NoId == "none"
ASSUME IdsAssumption == NoId \notin NewIds
DefaultAccounts == <<NoId, NoId, NoId>>

Kinds == {"role", "group"}

-----------------------------------------------------------------------------

VARIABLES
  rows,     \* the two collections, in insertion order: [id, name, def]
  cache,    \* rolesCache and groupsCache: def by name
  mu,       \* who holds the mutex for longer than one step
  req,      \* the requests being handled: [op, at, kind, id, name, def, found]
  setup,    \* SetupDefaultSystem: where it is, and entries written
  calls,    \* calls made so far
  ever,     \* history: what each collection has held
  revoked   \* history: groups deleted, with nothing that could bring them back

vars == <<rows, cache, mu, req, setup, calls, ever, revoked>>

Idle == [op |-> "none", at |-> "idle", kind |-> "role", id |-> NoId, name |-> "", def |-> {},
         found |-> <<>>]
NoSetup == [at |-> "off", step |-> 0]

Init ==
    /\ rows = [kind \in Kinds |-> <<>>]
    /\ cache = [kind \in Kinds |-> <<>>]
    /\ mu = "free"
    /\ req = [r \in Requests |-> Idle]
    /\ setup = NoSetup
    /\ calls = 0
    /\ ever = [kind \in Kinds |-> {}]
    /\ revoked = {}

Put(kind, name, def) ==
    cache' = [cache EXCEPT ![kind] =
                [n \in DOMAIN @ \cup {name} |-> IF n = name THEN def ELSE @[n]]]
Drop(kind, name) ==
    cache' = [cache EXCEPT ![kind] = [n \in DOMAIN @ \ {name} |-> @[n]]]
Ids(kind) == {rows[kind][i].id : i \in DOMAIN rows[kind]}
Goto(r, place) == req' = [req EXCEPT ![r].at = place]
Fail(r) == req' = [req EXCEPT ![r] = Idle]

\* InsertOne, which refuses an ID that is there, and ReplaceOne; history of what was held.
Insert(kind, id, name, def) ==
    /\ id \notin Ids(kind)
    /\ rows' = [rows EXCEPT ![kind] = Append(@, [id |-> id, name |-> name, def |-> def])]
    /\ ever' = [ever EXCEPT ![kind] = @ \cup {<<name, def>>}]
ReplaceRow(kind, id, name, def) ==
    /\ rows' = [rows EXCEPT ![kind] =
                  [i \in DOMAIN @ |-> IF @[i].id = id THEN [id |-> id, name |-> name, def |-> def]
                                      ELSE @[i]]]
    /\ ever' = [ever EXCEPT ![kind] = @ \cup {<<name, def>>}]

\* FindByName: the first row of that name; with none, Content[0] panics.
Named(kind, name) == {i \in DOMAIN rows[kind] : rows[kind][i].name = name}
First(positions) == CHOOSE i \in positions : \A j \in positions : i <= j
\* ToModel: the ID of a role is not copied from its document.
ModelId(kind, name) == IF kind = "role" THEN NoId ELSE rows[kind][First(Named(kind, name))].id
\* DeleteOne: the row with that ID, which no other has.
Without(s, id) ==
    LET i == CHOOSE i \in DOMAIN s : s[i].id = id
    IN  SubSeq(s, 1, i - 1) \o SubSeq(s, i + 1, Len(s))
\* FindByOrganizationAndProject: a search without a size returns one page.
Page(kind) == SubSeq(rows[kind], 1, IF Len(rows[kind]) < PageSize THEN Len(rows[kind])
                                    ELSE PageSize)

-----------------------------------------------------------------------------
(* Requests *)

Call(r) == req[r] = Idle /\ calls < MaxCalls /\ calls' = calls + 1
Begin(r, op, kind, id, name, def) ==
    /\ Call(r)
    /\ req' = [req EXCEPT ![r] = [Idle EXCEPT !.op = op, !.at = "store", !.kind = kind,
                                              !.id = id, !.name = name, !.def = def]]
    /\ revoked' = revoked \ (IF kind = "group" THEN {name} ELSE {})
    /\ UNCHANGED <<rows, cache, mu, setup, ever>>

\* The validator requires an ID of what is created; an update takes it from the URL.
CreateRole(r, id, name, def) == Begin(r, "create", "role", id, name, def)
CreateGroup(r, id, name, def) == Begin(r, "create", "group", id, name, def)
UpdateRole(r, id, name, def) == Begin(r, "update", "role", id, name, def)
UpdateGroup(r, id, name, def) == Begin(r, "update", "group", id, name, def)

\* Mutant: the cache is written before the collection, and kept when the write fails.
StoreCacheFirst(r) ==
    /\ req[r].at = "store"
    /\ LET q == req[r] IN
       /\ Put(q.kind, q.name, q.def)
       /\ IF q.op = "create"
          THEN Insert(q.kind, q.id, q.name, q.def) \/ UNCHANGED <<rows, ever>>
          ELSE ReplaceRow(q.kind, q.id, q.name, q.def) \/ UNCHANGED <<rows, ever>>
       /\ Fail(r)
    /\ UNCHANGED <<mu, setup, revoked, calls>>

\* A duplicate ID, an ID not found and any other error end the request before the cache; after
\* any other error the write may have had its effect all the same.
Store(r) ==
    /\ req[r].at = "store"
    /\ LET q == req[r] IN
       \/ /\ q.op = "create"
          /\ Insert(q.kind, q.id, q.name, q.def)
          /\ Goto(r, "cache") \/ Fail(r)
       \/ /\ q.op = "update" /\ q.id \in Ids(q.kind)
          /\ ReplaceRow(q.kind, q.id, q.name, q.def)
          /\ Goto(r, "cache") \/ Fail(r)
       \/ Fail(r) /\ UNCHANGED <<rows, ever>>
    /\ UNCHANGED <<cache, mu, setup, revoked, calls>>

CachePut(r) ==
    /\ req[r].at = "cache" /\ mu = "free"
    /\ Put(req[r].kind, req[r].name, req[r].def)
    /\ Fail(r)
    /\ UNCHANGED <<rows, mu, setup, ever, revoked, calls>>

BeginDelete(r, kind, name) ==
    /\ Call(r)
    /\ req' = [req EXCEPT ![r] = [Idle EXCEPT !.op = "delete", !.at = "get", !.kind = kind,
                                              !.name = name]]
    /\ UNCHANGED <<rows, cache, mu, setup, ever, revoked>>
DeleteRole(r, name) == BeginDelete(r, "role", name)
DeleteGroup(r, name) == BeginDelete(r, "group", name)

\* The service reads the row to see that it exists, the adapter to learn its ID.
GetRow(r) ==
    /\ req[r].at \in {"get", "find"}
    /\ \/ /\ Named(req[r].kind, req[r].name) # {}
          /\ req' = [req EXCEPT ![r] =
                       [@ EXCEPT !.at = IF req[r].at = "get" THEN "find" ELSE "delete",
                                 !.id = ModelId(req[r].kind, req[r].name)]]
       \/ Fail(r)
    /\ UNCHANGED <<rows, cache, mu, setup, ever, revoked, calls>>

\* Delete by ID; no document deleted is an error, so DeleteRole never gets further. Any other
\* error may leave the document or not.
DeleteRow(r) ==
    /\ req[r].at = "delete"
    /\ LET q == req[r] IN
       \/ /\ q.id \in Ids(q.kind)
          /\ rows' = [rows EXCEPT ![q.kind] = Without(@, q.id)]
          /\ Goto(r, "uncache") \/ Fail(r)
       \/ Fail(r) /\ UNCHANGED rows
    /\ UNCHANGED <<cache, mu, setup, ever, revoked, calls>>

\* A request, or the set-up, that may still write the name into the cache.
Writing(s, kind, name) ==
    req[s].op \in {"create", "update"} /\ req[s].kind = kind /\ req[s].name = name
SettingUp(name) == setup.at = "cache" /\ Configuration[setup.step + 1].name = name

\* The group is gone for good: no row of that name is left and nobody is writing one.
Gone(r) ==
    {name \in {req[r].name} :
        /\ req[r].kind = "group"
        /\ Named("group", name) = {}
        /\ \A s \in Requests : ~Writing(s, "group", name)
        /\ ~SettingUp(name)}

Uncache(r) ==
    /\ req[r].at = "uncache" /\ mu = "free"
    /\ Drop(req[r].kind, req[r].name)
    /\ revoked' = revoked \cup Gone(r)
    /\ Fail(r)
    /\ UNCHANGED <<rows, mu, setup, calls, ever>>

-----------------------------------------------------------------------------
(* SyncCache: mu is held across the two searches *)

\* Mutant: the mutex is not taken, only the writes of the caches are short of it.
SyncUnlocked(r) ==
    /\ Call(r) /\ mu = "free"
    /\ req' = [req EXCEPT ![r] = [Idle EXCEPT !.op = "sync", !.at = "list", !.kind = "role"]]
    /\ UNCHANGED <<rows, cache, mu, setup, ever, revoked>>

SyncCache(r) ==
    /\ Call(r) /\ mu = "free"
    /\ mu' = r
    /\ req' = [req EXCEPT ![r] = [Idle EXCEPT !.op = "sync", !.at = "list", !.kind = "role"]]
    /\ UNCHANGED <<rows, cache, setup, ever, revoked>>

SyncList(r) ==
    /\ req[r].at = "list"
    /\ \/ /\ req' = [req EXCEPT ![r] = [@ EXCEPT !.at = "fill", !.found = Page(req[r].kind)]]
          /\ UNCHANGED mu
       \/ Fail(r) /\ mu' = "free"
    /\ UNCHANGED <<rows, cache, setup, ever, revoked, calls>>

\* What was found is added or overwritten; nothing is removed.
Filled(f, found) ==
    [n \in DOMAIN f \cup {found[i].name : i \in DOMAIN found} |->
        LET last == {i \in DOMAIN found : found[i].name = n} IN
        IF last = {} THEN f[n]
        ELSE found[CHOOSE i \in last : \A j \in last : j <= i].def]

SyncFill(r) ==
    /\ req[r].at = "fill"
    /\ cache' = [cache EXCEPT ![req[r].kind] = Filled(@, req[r].found)]
    /\ IF req[r].kind = "role"
       THEN /\ req' = [req EXCEPT ![r] = [@ EXCEPT !.at = "list", !.kind = "group", !.found = <<>>]]
            /\ UNCHANGED mu
       ELSE Fail(r) /\ mu' = "free"
    /\ UNCHANGED <<rows, setup, ever, revoked, calls>>

-----------------------------------------------------------------------------
(* SetupDefaultSystem: roles and groups, then users, then service accounts, then SyncCache *)

SetupDefaultSystem ==
    /\ setup.at = "off"
    /\ setup' = [setup EXCEPT !.at = "store"]
    /\ UNCHANGED <<rows, cache, mu, req, ever, revoked, calls>>

\* The generated ID is named after the entry; the first error ends the set-up, and may leave
\* the entry it was about.
SetupStore ==
    /\ setup.at = "store" /\ setup.step < Len(Configuration)
    /\ LET e == Configuration[setup.step + 1] IN
       \/ /\ Insert(e.kind, e.name, e.name, e.def)
          /\ setup' \in {[setup EXCEPT !.at = "cache"], [setup EXCEPT !.at = "failed"]}
          /\ revoked' = revoked \ {e.name}
       \/ setup' = [setup EXCEPT !.at = "failed"] /\ UNCHANGED <<rows, ever, revoked>>
    /\ UNCHANGED <<cache, mu, req, calls>>

SetupCache ==
    /\ setup.at = "cache" /\ mu = "free"
    /\ LET e == Configuration[setup.step + 1] IN Put(e.kind, e.name, e.def)
    /\ setup' = [setup EXCEPT !.at = "store", !.step = @ + 1]
    /\ UNCHANGED <<rows, mu, req, ever, revoked, calls>>

\* Their rows are of no concern to the caches; an insert may fail.
CreateDefaultUsers ==
    /\ setup.at = "store" /\ setup.step = Len(Configuration)
    /\ setup' \in {[setup EXCEPT !.at = "accounts"], [setup EXCEPT !.at = "failed"]}
    /\ UNCHANGED <<rows, cache, mu, req, ever, revoked, calls>>

\* CreateServiceAccount refuses an ID it holds; after the last account SyncCache would follow.
CreateDefaultServiceAccounts ==
    /\ setup.at = "accounts"
    /\ LET refused == \E i, j \in DOMAIN DefaultAccounts :
                          i < j /\ DefaultAccounts[i] = DefaultAccounts[j]
       IN setup' = [setup EXCEPT !.at = IF refused THEN "failed" ELSE "sync"]
    /\ UNCHANGED <<rows, cache, mu, req, ever, revoked, calls>>

\* The caches and the service accounts are in memory; nothing syncs them at the start.
Restart ==
    /\ cache' = [kind \in Kinds |-> <<>>]
    /\ mu' = "free"
    /\ req' = [r \in Requests |-> Idle]
    /\ setup' = [setup EXCEPT !.at = IF @ = "off" THEN "off" ELSE "failed"]
    /\ UNCHANGED <<rows, ever, revoked, calls>>

-----------------------------------------------------------------------------

\* IDs a client can know: those it chose, and those of the groups that ListGroups shows it.
KnownIds(kind) == NewIds \cup (IF kind = "group" THEN {d.id : d \in {rows[kind][i] :
                       i \in {j \in DOMAIN rows[kind] : rows[kind][j].name \in GroupNames}}}
                   ELSE {})

Step(r) ==
    \/ Store(r) \/ CachePut(r) \/ GetRow(r) \/ DeleteRow(r) \/ Uncache(r)
    \/ SyncCache(r) \/ SyncList(r) \/ SyncFill(r)

Next ==
    \/ \E r \in Requests : Step(r)
    \/ \E r \in Requests, n \in RoleNames :
         \/ DeleteRole(r, n)
         \/ \E id \in NewIds, d \in RoleDefs : CreateRole(r, id, n, d) \/ UpdateRole(r, id, n, d)
    \/ \E r \in Requests, n \in GroupNames :
         \/ DeleteGroup(r, n)
         \/ \E id \in NewIds, d \in GroupDefs : CreateGroup(r, id, n, d)
         \/ \E id \in KnownIds("group"), d \in GroupDefs : UpdateGroup(r, id, n, d)
    \/ SetupDefaultSystem \/ SetupStore \/ SetupCache
    \/ CreateDefaultUsers \/ CreateDefaultServiceAccounts
    \/ Restart

Spec == Init /\ [][Next]_vars

-----------------------------------------------------------------------------
(* Authorize *)

\* The roles of the subject, and those of its groups that the cache holds.
RolesToCheck(roles, groups, groupsCache) ==
    roles \cup UNION {groupsCache[g] : g \in groups \cap DOMAIN groupsCache}
Authorize(roles, groups, resource, action) ==
    \E n \in RolesToCheck(roles, groups, cache.group) \cap DOMAIN cache.role :
        RoleAllows(cache.role[n], resource, action)

Resources == {"worker", "resourcepool", "task", "taskexecution"}

Entries == {Configuration[k] : k \in DOMAIN Configuration}
Names == RoleNames \cup GroupNames \cup {e.name : e \in Entries}
Defs(kind) == (IF kind = "role" THEN RoleDefs ELSE GroupDefs) \cup
              {e.def : e \in {f \in Entries : f.kind = kind}}
RowIds == {NoId} \cup NewIds \cup {e.name : e \in Entries}
Row(kind) == [id : RowIds, name : Names, def : Defs(kind)]
Request(kind) ==
    [op : {"none", "create", "update", "delete", "sync"},
     at : {"idle", "store", "cache", "get", "find", "delete", "uncache", "list", "fill"},
     kind : {kind}, id : RowIds, name : {""} \cup Names, def : {{}} \cup Defs(kind),
     found : Seq(Row(kind))]
Setups == [at : {"off", "store", "cache", "accounts", "sync", "failed"},
           step : 0..Len(Configuration)]

\* Everything has its type; only a request that syncs holds the mutex between steps; and no two
\* rows of a collection have the same ID.
TypeOK ==
    /\ DOMAIN rows = Kinds /\ DOMAIN cache = Kinds /\ DOMAIN ever = Kinds
    /\ \A kind \in Kinds :
         /\ rows[kind] \in Seq(Row(kind))
         /\ \A i, j \in DOMAIN rows[kind] : rows[kind][i].id = rows[kind][j].id => i = j
         /\ DOMAIN cache[kind] \subseteq Names /\ cache[kind] \in [DOMAIN cache[kind] -> Defs(kind)]
         /\ ever[kind] \subseteq Names \X Defs(kind)
    /\ mu \in Requests \cup {"free"}
    /\ DOMAIN req = Requests
    /\ \A r \in Requests : req[r] \in Request(req[r].kind) /\ (mu = r <=> req[r].op = "sync")
    /\ \A r \in Requests : req[r].kind \in Kinds
    /\ setup \in Setups
    /\ calls \in 0..MaxCalls
    /\ revoked \subseteq Names

\* An action is granted only on the strength of definitions the collections have held: neither
\* a failed request nor a race puts a role or a group in force that was never stored.
GrantsAreBacked ==
    \A g \in DOMAIN cache.group, resource \in Resources, action \in Manage :
        Authorize({}, {g}, resource, action) =>
            \E role \in ever.role, group \in ever.group :
                /\ RoleAllows(role[2], resource, action)
                /\ group[1] = g /\ role[1] \in group[2]

\* A group that DeleteGroup removed, its last row gone and no create or update of that name
\* under way, is out of force until somebody writes it again: a SyncCache that overlaps the
\* deletion does not bring it back.
RevokedStaysRevoked == revoked \cap DOMAIN cache.group = {}

\* The default groups come after the roles they name: however far the set-up got, a group that
\* it has put in force has its role in force as well, as long as the process lives.
GroupsComeWithRoles ==
    setup.at # "failed" =>
        \A i \in 1..setup.step :
            Configuration[i].kind = "group" => Configuration[i].def \subseteq DOMAIN cache.role

=============================================================================
