----------------------- MODULE AuthorizationProofs -----------------------
(***************************************************************************)
(* Proofs about Authorization, for every number of requests, names, IDs    *)
(* and entries of the default configuration.                               *)
(***************************************************************************)
EXTENDS Authorization, SequenceTheorems, FiniteSetTheorems, WellFoundedInduction, TLAPS

-----------------------------------------------------------------------------
(* Positions: a nonempty set of them has a first and a last one. The sets of those from one on, *)
(* or up to one, are well-founded by inclusion. *)

\* A nonempty set of positions has a last one.
LEMMA Greatest ==
    ASSUME NEW n \in Nat, NEW S, S \subseteq 1..n, S # {}
    PROVE  \E i \in S : \A j \in S : j <= i
<1> DEFINE From(i) == {j \in S : i <= j}
           T == {From(i) : i \in S}
<1>1. IsFiniteSet(S)
  <2>1. IsFiniteSet(1..n)
    BY FS_Interval
  <2> QED
    BY <2>1, FS_Subset
<1>2. \A i \in S : From(i) \in FiniteSubsetsOf(S)
  BY <1>1, FS_Subset DEF FiniteSubsetsOf
<1>3. T # {} /\ T \subseteq FiniteSubsetsOf(S)
  BY <1>2
<1>4. PICK A \in T : \A B \in T : ~(<<B, A>> \in StrictSubsetOrdering(S))
  <2> HIDE DEF T
  <2> QED
    BY <1>3, FS_StrictSubsetOrderingWellFounded, WFMin
<1>5. PICK i \in S : A = From(i)
  OBVIOUS
<1>6. ASSUME NEW j \in S, i < j
      PROVE  FALSE
  <2>1. \A k \in S : i <= k <=> k \in A
    BY <1>5
  <2>2. i \in Nat /\ j \in Nat /\ \A k \in S : k \in Nat
    OBVIOUS
  <2>3. i \in A /\ i \notin From(j)
    <3>1. i \in A
      BY <2>1, <2>2
    <3>2. ~(j <= i)
      BY <1>6, <2>2
    <3> QED
      BY <3>1, <3>2
  <2>4. \A k \in S : j <= k => i <= k
    BY <1>6, <2>2
  <2>6. From(j) \subseteq A
    BY <2>1, <2>4
  <2>5. <<From(j), A>> \in StrictSubsetOrdering(S)
    BY <2>3, <2>6, <1>5 DEF StrictSubsetOrdering
  <2> QED
    BY <2>5, <1>4
<1> QED
  BY <1>6

\* A nonempty set of positions has a first one.
LEMMA Least ==
    ASSUME NEW n \in Nat, NEW S, S \subseteq 1..n, S # {}
    PROVE  \E i \in S : \A j \in S : i <= j
<1> DEFINE UpTo(i) == {j \in S : j <= i}
           T == {UpTo(i) : i \in S}
<1>1. IsFiniteSet(S)
  <2>1. IsFiniteSet(1..n)
    BY FS_Interval
  <2> QED
    BY <2>1, FS_Subset
<1>2. \A i \in S : UpTo(i) \in FiniteSubsetsOf(S)
  BY <1>1, FS_Subset DEF FiniteSubsetsOf
<1>3. T # {} /\ T \subseteq FiniteSubsetsOf(S)
  BY <1>2
<1>4. PICK A \in T : \A B \in T : ~(<<B, A>> \in StrictSubsetOrdering(S))
  <2> HIDE DEF T
  <2> QED
    BY <1>3, FS_StrictSubsetOrderingWellFounded, WFMin
<1>5. PICK i \in S : A = UpTo(i)
  OBVIOUS
<1>6. ASSUME NEW j \in S, j < i
      PROVE  FALSE
  <2>1. \A k \in S : k <= i <=> k \in A
    BY <1>5
  <2>2. i \in Nat /\ j \in Nat /\ \A k \in S : k \in Nat
    OBVIOUS
  <2>3. i \in A /\ i \notin UpTo(j)
    <3>1. i \in A
      BY <2>1, <2>2
    <3>2. ~(i <= j)
      BY <1>6, <2>2
    <3> QED
      BY <3>1, <3>2
  <2>4. \A k \in S : k <= j => k <= i
    BY <1>6, <2>2
  <2>6. UpTo(j) \subseteq A
    BY <2>1, <2>4
  <2>5. <<UpTo(j), A>> \in StrictSubsetOrdering(S)
    BY <2>3, <2>6, <1>5 DEF StrictSubsetOrdering
  <2> QED
    BY <2>5, <1>4
<1> QED
  BY <1>6

-----------------------------------------------------------------------------
(* The default configuration *)

\* A function on 1..n is a sequence.
LEMMA FunctionIsSeq ==
    ASSUME NEW E, NEW n \in Nat, NEW f \in [1..n -> E]
    PROVE  f \in Seq(E)
BY Zenon, SeqDef

\* The parts of the configuration, entry by entry.
LEMMA PartsOfConfiguration ==
    \A part \in {ProjectConfiguration, WorkerRoles, ResourcePoolRoles, TaskRoles, ResourceGroups} :
        \E n \in Nat : /\ part = [i \in 1..n |-> part[i]]
                       /\ \A i \in 1..n : part[i].kind \in Kinds /\ part[i].name # NoId
<1>1. /\ ProjectConfiguration = [i \in 1..5 |-> ProjectConfiguration[i]]
     /\ \A i \in 1..5 : ProjectConfiguration[i].kind \in Kinds /\ ProjectConfiguration[i].name # NoId
  BY DEF ProjectConfiguration, RoleEntry, GroupEntry, Kinds, NoId
<1>2. /\ WorkerRoles = [i \in 1..4 |-> WorkerRoles[i]]
     /\ \A i \in 1..4 : WorkerRoles[i].kind \in Kinds /\ WorkerRoles[i].name # NoId
  BY DEF WorkerRoles, RoleEntry, GroupEntry, Kinds, NoId
<1>3. /\ ResourcePoolRoles = [i \in 1..2 |-> ResourcePoolRoles[i]]
     /\ \A i \in 1..2 : ResourcePoolRoles[i].kind \in Kinds /\ ResourcePoolRoles[i].name # NoId
  BY DEF ResourcePoolRoles, RoleEntry, GroupEntry, Kinds, NoId
<1>4. /\ TaskRoles = [i \in 1..4 |-> TaskRoles[i]]
     /\ \A i \in 1..4 : TaskRoles[i].kind \in Kinds /\ TaskRoles[i].name # NoId
  BY DEF TaskRoles, RoleEntry, GroupEntry, Kinds, NoId
<1>5. /\ ResourceGroups = [i \in 1..8 |-> ResourceGroups[i]]
     /\ \A i \in 1..8 : ResourceGroups[i].kind \in Kinds /\ ResourceGroups[i].name # NoId
  BY DEF ResourceGroups, RoleEntry, GroupEntry, Kinds, NoId
<1> SUFFICES ASSUME NEW part \in {ProjectConfiguration, WorkerRoles, ResourcePoolRoles, TaskRoles,
                                  ResourceGroups}
             PROVE  \E n \in Nat : /\ part = [i \in 1..n |-> part[i]]
                                  /\ \A i \in 1..n : part[i].kind \in Kinds /\ part[i].name # NoId
  OBVIOUS
<1>6. CASE part = ProjectConfiguration
  BY <1>1, <1>6
<1>7. CASE part = WorkerRoles
  BY <1>2, <1>7
<1>8. CASE part = ResourcePoolRoles
  BY <1>3, <1>8
<1>9. CASE part = TaskRoles
  BY <1>4, <1>9
<1>10. CASE part = ResourceGroups
  BY <1>5, <1>10
<1> QED
  BY <1>6, <1>7, <1>8, <1>9, <1>10

\* The parts are sequences of roles and groups, which have names.
LEMMA PartsAreSequences ==
    \E T : /\ \A e \in T : e.kind \in Kinds /\ e.name # NoId
          /\ ProjectConfiguration \in Seq(T) /\ WorkerRoles \in Seq(T)
          /\ ResourcePoolRoles \in Seq(T) /\ TaskRoles \in Seq(T) /\ ResourceGroups \in Seq(T)
<1> DEFINE Parts == {ProjectConfiguration, WorkerRoles, ResourcePoolRoles, TaskRoles,
                     ResourceGroups}
           E == {e \in UNION {{part[i] : i \in DOMAIN part} : part \in Parts} :
                   e.kind \in Kinds /\ e.name # NoId}
<1>1. ASSUME NEW part \in Parts
      PROVE  part \in Seq(E)
  <2>1. PICK n \in Nat : /\ part = [i \in 1..n |-> part[i]]
                         /\ \A i \in 1..n : part[i].kind \in Kinds /\ part[i].name # NoId
    BY PartsOfConfiguration
  <2>2. DOMAIN part = 1..n
    BY <2>1
  <2> HIDE DEF Parts
  <2>3. \A i \in 1..n : part[i] \in E
    BY <2>1, <2>2
  <2> HIDE DEF E
  <2>4. part \in [1..n -> E]
    BY <2>1, <2>3
  <2> QED
    BY <2>4, FunctionIsSeq
<1>2. /\ ProjectConfiguration \in Seq(E) /\ WorkerRoles \in Seq(E)
      /\ ResourcePoolRoles \in Seq(E) /\ TaskRoles \in Seq(E) /\ ResourceGroups \in Seq(E)
  BY <1>1
<1>3. \A e \in E : e.kind \in Kinds /\ e.name # NoId
  OBVIOUS
<1> HIDE DEF E
<1> QED
  BY <1>2, <1>3

\* Each entry of the configuration is a role or a group, with a name and a definition of its type.
LEMMA ConfigurationType ==
    /\ Len(Configuration) \in Nat
    /\ DOMAIN Configuration = 1..Len(Configuration)
    /\ \A k \in DOMAIN Configuration :
         LET e == Configuration[k] IN
         /\ e.kind \in Kinds /\ e.name # NoId
         /\ e.name \in Names /\ e.name \in RowIds /\ e.def \in Defs(e.kind)
<1>1. PICK E : /\ \A e \in E : e.kind \in Kinds /\ e.name # NoId
               /\ ProjectConfiguration \in Seq(E) /\ WorkerRoles \in Seq(E)
               /\ ResourcePoolRoles \in Seq(E) /\ TaskRoles \in Seq(E) /\ ResourceGroups \in Seq(E)
  BY PartsAreSequences
<1>6. IAMConfiguration \in Seq(E)
  <2>1. WorkerRoles \o ResourcePoolRoles \in Seq(E)
    BY <1>1, ConcatProperties
  <2>2. WorkerRoles \o ResourcePoolRoles \o TaskRoles \in Seq(E)
    BY <2>1, <1>1, ConcatProperties
  <2>3. ResourceConfiguration \in Seq(E)
    BY <2>2, <1>1, ConcatProperties DEF ResourceConfiguration
  <2> QED
    BY <2>3, <1>1, ConcatProperties DEF IAMConfiguration
<1>7. \A k \in DOMAIN Configuration : Configuration[k] \in E
  BY <1>6, SetupAssumption DEF Configuration
<1>8. DOMAIN Configuration = 1..Len(Configuration) /\ Len(Configuration) \in Nat
  <2>1. DOMAIN Configuration = 1..Len(Setup) /\ Len(Setup) \in Nat
    BY SetupAssumption DEF Configuration
  <2>2. Configuration \in [1..Len(Setup) -> {Configuration[k] : k \in 1..Len(Setup)}]
    BY <2>1 DEF Configuration
  <2> QED
    BY <2>1, <2>2, FunctionIsSeq, LenProperties
<1>9. ASSUME NEW k \in DOMAIN Configuration
      PROVE  LET e == Configuration[k] IN
             /\ e.kind \in Kinds /\ e.name # NoId
             /\ e.name \in Names /\ e.name \in RowIds /\ e.def \in Defs(e.kind)
  <2>1. Configuration[k] \in Entries
    BY DEF Entries
  <2> QED
    BY <2>1, <1>1, <1>7 DEF Names, RowIds, Defs
<1> QED
  BY <1>8, <1>9

-----------------------------------------------------------------------------
(* The types *)

\* A request is where its operation takes it, with the name and the definition it needs there.
EquippedAt(q) ==
    /\ q.at = "idle" => q.op = "none"
    /\ q.at \in {"store", "cache"} =>
         q.op \in {"create", "update"} /\ q.name \in Names /\ q.def \in Defs(q.kind)
    /\ q.at \in {"get", "find", "delete", "uncache"} => q.op = "delete" /\ q.name \in Names
    /\ q.at \in {"list", "fill"} => q.op = "sync" /\ q.def = {}

RowsTyped ==
    /\ DOMAIN rows = Kinds
    /\ \A kind \in Kinds :
         /\ rows[kind] \in Seq(Row(kind))
         /\ \A i, j \in DOMAIN rows[kind] : rows[kind][i].id = rows[kind][j].id => i = j
CacheTyped ==
    /\ DOMAIN cache = Kinds
    /\ \A kind \in Kinds :
         DOMAIN cache[kind] \subseteq Names /\ cache[kind] \in [DOMAIN cache[kind] -> Defs(kind)]
EverTyped == DOMAIN ever = Kinds /\ \A kind \in Kinds : ever[kind] \subseteq Names \X Defs(kind)
ReqTyped ==
    /\ DOMAIN req = Requests
    /\ \A r \in Requests :
         req[r].kind \in Kinds /\ req[r] \in Request(req[r].kind) /\ EquippedAt(req[r])
Mutex ==
    /\ mu \in Requests \cup {"free"}
    /\ \A r \in Requests : mu = r <=> req[r].op = "sync"
SetupTyped == setup \in Setups /\ (setup.at = "cache" => setup.step < Len(Configuration))
HistoryTyped == calls \in 0..MaxCalls /\ revoked \subseteq Names

TypeInv ==
    RowsTyped /\ CacheTyped /\ EverTyped /\ ReqTyped /\ Mutex /\ SetupTyped /\ HistoryTyped

\* The parts make up the type invariant.
LEMMA TypesAreParts == TypeInv => TypeOK
BY DEF TypeInv, TypeOK, RowsTyped, CacheTyped, EverTyped, ReqTyped, Mutex, SetupTyped, HistoryTyped

\* A request may begin with any name, ID and definition of its kind.
Begins(r) ==
    \/ \E op \in {"create", "update"}, kind \in Kinds :
         \E id \in RowIds, name \in Names, def \in Defs(kind) :
             (op = "create" => id \in NewIds) /\ Begin(r, op, kind, id, name, def)
    \/ \E kind \in Kinds, name \in Names : BeginDelete(r, kind, name)

SetupStep ==
    \/ SetupDefaultSystem \/ SetupStore \/ SetupCache
    \/ CreateDefaultUsers \/ CreateDefaultServiceAccounts

\* Every step is one of a request, one of the set-up, or a restart.
LEMMA NextCases ==
    ASSUME TypeInv, Next
    PROVE  (\E r \in Requests : Begins(r) \/ Step(r)) \/ SetupStep \/ Restart
<1>1. KnownIds("group") \subseteq RowIds /\ NewIds \subseteq RowIds
  <2>1. rows["group"] \in Seq(Row("group"))
    BY DEF TypeInv, RowsTyped, Kinds
  <2>2. \A i \in DOMAIN rows["group"] : rows["group"][i] \in Row("group")
    BY <2>1
  <2>3. \A i \in DOMAIN rows["group"] : rows["group"][i].id \in RowIds
    BY <2>2 DEF Row
  <2> QED
    BY <2>3 DEF KnownIds, RowIds
<1>2. /\ RoleNames \subseteq Names /\ GroupNames \subseteq Names
      /\ RoleDefs \subseteq Defs("role") /\ GroupDefs \subseteq Defs("group")
  BY DEF Names, Defs
<1>3. ASSUME NEW r \in Requests, NEW n \in RoleNames,
             \/ DeleteRole(r, n)
             \/ \E id \in NewIds, d \in RoleDefs :
                  CreateRole(r, id, n, d) \/ UpdateRole(r, id, n, d)
      PROVE  Begins(r)
  BY <1>1, <1>2, <1>3 DEF Begins, Kinds, DeleteRole, CreateRole, UpdateRole
<1>4. ASSUME NEW r \in Requests, NEW n \in GroupNames,
             \/ DeleteGroup(r, n)
             \/ \E id \in NewIds, d \in GroupDefs : CreateGroup(r, id, n, d)
             \/ \E id \in KnownIds("group"), d \in GroupDefs : UpdateGroup(r, id, n, d)
      PROVE  Begins(r)
  BY <1>1, <1>2, <1>4 DEF Begins, Kinds, DeleteGroup, CreateGroup, UpdateGroup
<1> QED
  BY <1>3, <1>4 DEF Next, SetupStep

\* Who writes what.
LEMMA Writers ==
    ASSUME TypeInv, Next
    PROVE  /\ \/ UNCHANGED <<rows, ever>> \/ SetupStore
              \/ \E r \in Requests : Store(r) \/ DeleteRow(r)
           /\ \/ UNCHANGED cache \/ SetupCache \/ Restart
              \/ \E r \in Requests : CachePut(r) \/ Uncache(r) \/ SyncFill(r)
           /\ UNCHANGED setup \/ SetupStep \/ Restart
           /\ \/ UNCHANGED <<req, mu>> \/ Restart
              \/ \E r \in Requests : Begins(r) \/ Step(r)
           /\ \/ UNCHANGED revoked \/ SetupStore
              \/ \E r \in Requests : Begins(r) \/ Uncache(r)
           /\ calls' = calls \/ (calls < MaxCalls /\ calls' = calls + 1)
<1>1. ASSUME NEW r \in Requests, Begins(r)
      PROVE  /\ UNCHANGED <<rows, ever, cache, setup>>
             /\ calls < MaxCalls /\ calls' = calls + 1
  BY <1>1 DEF Begins, Begin, BeginDelete, Call
<1>2. ASSUME NEW r \in Requests, Step(r)
      PROVE  /\ UNCHANGED <<rows, ever>> \/ Store(r) \/ DeleteRow(r)
             /\ UNCHANGED cache \/ CachePut(r) \/ Uncache(r) \/ SyncFill(r)
             /\ UNCHANGED setup
             /\ UNCHANGED revoked \/ Uncache(r)
             /\ calls' = calls \/ (calls < MaxCalls /\ calls' = calls + 1)
  BY <1>2 DEF Step, Store, CachePut, GetRow, DeleteRow, Uncache, SyncCache, SyncList, SyncFill, Call
<1>3. ASSUME SetupStep
      PROVE  /\ UNCHANGED <<req, mu, calls>>
             /\ UNCHANGED <<rows, ever, revoked>> \/ SetupStore
             /\ UNCHANGED cache \/ SetupCache
  BY <1>3 DEF SetupStep, SetupDefaultSystem, SetupStore, SetupCache, CreateDefaultUsers,
              CreateDefaultServiceAccounts
<1>4. Restart => UNCHANGED <<rows, ever, revoked, calls>>
  BY DEF Restart
<1> QED
  BY <1>1, <1>2, <1>3, <1>4, NextCases

-----------------------------------------------------------------------------
(* The operators of the collections and of the caches *)

\* A row that is inserted comes last.
LEMMA InsertEffect ==
    ASSUME RowsTyped, NEW kind \in Kinds, NEW id \in RowIds, NEW name \in Names,
           NEW def \in Defs(kind), Insert(kind, id, name, def)
    PROVE  /\ RowsTyped'
           /\ \A k \in Kinds \ {kind} : rows'[k] = rows[k]
           /\ \A i \in DOMAIN rows'[kind] :
                \/ i \in DOMAIN rows[kind] /\ rows'[kind][i] = rows[kind][i]
                \/ rows'[kind][i].name = name /\ rows'[kind][i].def = def
           /\ \A i \in DOMAIN rows'[kind] : rows'[kind][i].id \in Ids(kind) \cup {id}
<1> DEFINE d == [id |-> id, name |-> name, def |-> def]
<1>1. d \in Row(kind) /\ d.id = id /\ d.name = name /\ d.def = def
  BY DEF Row
<1> HIDE DEF d
<1>2. rows' = [rows EXCEPT ![kind] = Append(rows[kind], d)]
  BY DEF Insert, d
<1>3. DOMAIN rows' = Kinds /\ rows'[kind] = Append(rows[kind], d)
  BY <1>2 DEF RowsTyped
<1>4. \A k \in Kinds \ {kind} : rows'[k] = rows[k]
  BY <1>2 DEF RowsTyped
<1>5. rows[kind] \in Seq(Row(kind)) /\ \A i \in DOMAIN rows[kind] : rows[kind][i].id # id
  BY DEF RowsTyped, Insert, Ids
<1>6. /\ rows'[kind] \in Seq(Row(kind))
      /\ DOMAIN rows'[kind] = 1..(Len(rows[kind]) + 1)
      /\ \A i \in DOMAIN rows[kind] : rows'[kind][i] = rows[kind][i]
      /\ rows'[kind][Len(rows[kind]) + 1] = d
  BY <1>1, <1>3, <1>5, AppendProperties
<1>7. \A i \in DOMAIN rows'[kind] :
        \/ i \in DOMAIN rows[kind] /\ rows'[kind][i] = rows[kind][i]
        \/ i \notin DOMAIN rows[kind] /\ i = Len(rows[kind]) + 1 /\ rows'[kind][i] = d
  BY <1>5, <1>6
<1>8. \A i, j \in DOMAIN rows'[kind] : rows'[kind][i].id = rows'[kind][j].id => i = j
  BY <1>1, <1>5, <1>7 DEF RowsTyped
<1>9. \A i \in DOMAIN rows'[kind] : rows'[kind][i].id \in Ids(kind) \cup {id}
  BY <1>1, <1>7 DEF Ids
<1> QED
  BY <1>1, <1>3, <1>4, <1>6, <1>7, <1>8, <1>9 DEF RowsTyped

\* A row that is replaced keeps its place and its ID.
LEMMA ReplaceEffect ==
    ASSUME RowsTyped, NEW kind \in Kinds, NEW id \in RowIds, NEW name \in Names,
           NEW def \in Defs(kind), ReplaceRow(kind, id, name, def)
    PROVE  /\ RowsTyped'
           /\ \A k \in Kinds \ {kind} : rows'[k] = rows[k]
           /\ \A i \in DOMAIN rows'[kind] :
                \/ i \in DOMAIN rows[kind] /\ rows'[kind][i] = rows[kind][i]
                \/ rows'[kind][i].name = name /\ rows'[kind][i].def = def
           /\ \A i \in DOMAIN rows'[kind] : rows'[kind][i].id \in Ids(kind) \cup {id}
<1> DEFINE d == [id |-> id, name |-> name, def |-> def]
           s == rows[kind]
           t == [i \in DOMAIN s |-> IF s[i].id = id THEN d ELSE s[i]]
<1>1. d \in Row(kind) /\ d.id = id /\ d.name = name /\ d.def = def
  BY DEF Row
<1>2. rows' = [rows EXCEPT ![kind] = t]
  BY DEF ReplaceRow
<1> HIDE DEF d
<1>3. s \in Seq(Row(kind)) /\ \A i, j \in DOMAIN s : s[i].id = s[j].id => i = j
  BY DEF RowsTyped
<1>4. t \in Seq(Row(kind)) /\ DOMAIN t = DOMAIN s
  BY <1>1, <1>3, FunctionIsSeq
<1>5. \A i \in DOMAIN s : t[i].id = s[i].id
  BY <1>1
<1>6. \A i \in DOMAIN s : t[i] = s[i] \/ t[i] = d
  OBVIOUS
<1> HIDE DEF t
<1>7. DOMAIN rows' = Kinds /\ rows'[kind] = t /\ \A k \in Kinds \ {kind} : rows'[k] = rows[k]
  BY <1>2 DEF RowsTyped
<1>8. RowsTyped'
  <2> SUFFICES ASSUME NEW k \in Kinds
               PROVE  /\ rows'[k] \in Seq(Row(k))
                      /\ \A i, j \in DOMAIN rows'[k] : rows'[k][i].id = rows'[k][j].id => i = j
    BY <1>7 DEF RowsTyped
  <2> QED
    BY <1>3, <1>4, <1>5, <1>7 DEF RowsTyped
<1>9. \A i \in DOMAIN rows'[kind] : rows'[kind][i].id \in Ids(kind) \cup {id}
  BY <1>4, <1>5, <1>7 DEF Ids
<1> QED
  BY <1>1, <1>4, <1>6, <1>7, <1>8, <1>9

\* Without a row, the others keep their order.
LEMMA WithoutEffect ==
    ASSUME NEW S, NEW s \in Seq(S), NEW id, \E i \in DOMAIN s : s[i].id = id
    PROVE  /\ Without(s, id) \in Seq(S)
           /\ \E f \in [DOMAIN Without(s, id) -> DOMAIN s] :
                /\ \A i, j \in DOMAIN Without(s, id) : f[i] = f[j] => i = j
                /\ \A i \in DOMAIN Without(s, id) : Without(s, id)[i] = s[f[i]]
<1> DEFINE k == CHOOSE i \in DOMAIN s : s[i].id = id
           a == SubSeq(s, 1, k - 1)
           b == SubSeq(s, k + 1, Len(s))
           f == [i \in 1..(Len(s) - 1) |-> IF i < k THEN i ELSE i + 1]
<1>1. k \in 1..Len(s) /\ Len(s) \in Nat
  OBVIOUS
<1>2. Without(s, id) = a \o b
  BY DEF Without
<1> HIDE DEF k
<1>3. /\ a \in Seq(S) /\ Len(a) = k - 1
      /\ \A i \in 1..(k - 1) : a[i] = s[i]
  BY <1>1, SubSeqProperties
<1>4. /\ b \in Seq(S) /\ Len(b) = Len(s) - k
      /\ \A i \in 1..(Len(s) - k) : b[i] = s[k + i]
  BY <1>1, SubSeqProperties
<1> HIDE DEF a, b
<1>5. /\ a \o b \in Seq(S)
      /\ Len(a \o b) = Len(s) - 1
      /\ \A i \in 1..(Len(s) - 1) : (a \o b)[i] = IF i <= k - 1 THEN a[i] ELSE b[i - (k - 1)]
  BY <1>1, <1>3, <1>4, ConcatProperties
<1>6. \A i \in 1..(Len(s) - 1) : (a \o b)[i] = IF i < k THEN s[i] ELSE s[i + 1]
  <2> TAKE i \in 1..(Len(s) - 1)
  <2>1. CASE i < k
    BY <2>1, <1>1, <1>3, <1>5
  <2>2. CASE ~(i < k)
    <3>1. i - (k - 1) \in 1..(Len(s) - k) /\ k + (i - (k - 1)) = i + 1 /\ ~(i <= k - 1)
      BY <2>2, <1>1
    <3> QED
      BY <3>1, <1>4, <1>5, <2>2
  <2> QED
    BY <2>1, <2>2
<1>7. DOMAIN (a \o b) = 1..(Len(s) - 1)
  BY <1>5
<1>8. \A i \in 1..(Len(s) - 1) : f[i] = IF i < k THEN i ELSE i + 1
  OBVIOUS
<1>9. \A i \in 1..(Len(s) - 1) : f[i] \in DOMAIN s
  BY <1>1, <1>8
<1>10. f \in [DOMAIN (a \o b) -> DOMAIN s]
  BY <1>7, <1>9
<1> HIDE DEF f
<1>11. \A i, j \in DOMAIN (a \o b) : f[i] = f[j] => i = j
  BY <1>1, <1>7, <1>8
<1>12. \A i \in DOMAIN (a \o b) : (a \o b)[i] = s[f[i]]
  BY <1>6, <1>7, <1>8
<1> QED
  BY SMTT(60), <1>2, <1>5, <1>10, <1>11, <1>12

\* What is left was there before.
LEMMA WithoutAdds ==
    ASSUME NEW S, NEW s \in Seq(S), NEW id, \E i \in DOMAIN s : s[i].id = id
    PROVE  \A j \in DOMAIN Without(s, id) : \E i \in DOMAIN s : Without(s, id)[j] = s[i]
<1>1. PICK f \in [DOMAIN Without(s, id) -> DOMAIN s] :
        \A i \in DOMAIN Without(s, id) : Without(s, id)[i] = s[f[i]]
  BY WithoutEffect
<1> QED
  BY <1>1

\* A name that is put into a cache has the definition given, the others keep theirs.
LEMMA PutEffect ==
    ASSUME CacheTyped, NEW kind \in Kinds, NEW name, NEW def, Put(kind, name, def)
    PROVE  /\ DOMAIN cache' = Kinds
           /\ \A k \in Kinds \ {kind} : cache'[k] = cache[k]
           /\ cache'[kind] \in [DOMAIN cache[kind] \cup {name} -> {cache'[kind][n] : n \in DOMAIN cache'[kind]}]
           /\ DOMAIN cache'[kind] = DOMAIN cache[kind] \cup {name}
           /\ cache'[kind][name] = def
           /\ \A n \in DOMAIN cache[kind] \ {name} : cache'[kind][n] = cache[kind][n]
<1> DEFINE f == [n \in DOMAIN cache[kind] \cup {name} |-> IF n = name THEN def ELSE cache[kind][n]]
<1>1. cache' = [cache EXCEPT ![kind] = f]
  BY DEF Put
<1>2. /\ f = [n \in DOMAIN f |-> f[n]] /\ DOMAIN f = DOMAIN cache[kind] \cup {name} /\ f[name] = def
      /\ \A n \in DOMAIN cache[kind] \ {name} : f[n] = cache[kind][n]
  OBVIOUS
<1> HIDE DEF f
<1>3. DOMAIN cache' = Kinds /\ cache'[kind] = f /\ \A k \in Kinds \ {kind} : cache'[k] = cache[k]
  BY <1>1 DEF CacheTyped
<1> QED
  BY <1>2, <1>3

\* A name that is dropped from a cache leaves the others.
LEMMA DropEffect ==
    ASSUME CacheTyped, NEW kind \in Kinds, NEW name, Drop(kind, name)
    PROVE  /\ DOMAIN cache' = Kinds
           /\ \A k \in Kinds \ {kind} : cache'[k] = cache[k]
           /\ cache'[kind] \in [DOMAIN cache[kind] \ {name} -> {cache'[kind][n] : n \in DOMAIN cache'[kind]}]
           /\ DOMAIN cache'[kind] = DOMAIN cache[kind] \ {name}
           /\ \A n \in DOMAIN cache'[kind] : cache'[kind][n] = cache[kind][n]
<1> DEFINE f == [n \in DOMAIN cache[kind] \ {name} |-> cache[kind][n]]
<1>1. cache' = [cache EXCEPT ![kind] = f]
  BY DEF Drop
<1>2. /\ f = [n \in DOMAIN f |-> f[n]] /\ DOMAIN f = DOMAIN cache[kind] \ {name}
      /\ \A n \in DOMAIN f : f[n] = cache[kind][n]
  OBVIOUS
<1> HIDE DEF f
<1>3. DOMAIN cache' = Kinds /\ cache'[kind] = f /\ \A k \in Kinds \ {kind} : cache'[k] = cache[k]
  BY <1>1 DEF CacheTyped
<1> QED
  BY <1>2, <1>3

\* One of the rows found has that name and that definition.
IsFound(found, n, d) == \E i \in DOMAIN found : found[i].name = n /\ found[i].def = d

\* What SyncFill writes: an old definition, or that of a row that was found.
LEMMA FilledEffect ==
    ASSUME NEW S, NEW T, NEW f, NEW found \in Seq(S),
           f \in [DOMAIN f -> T], \A i \in DOMAIN found : found[i].def \in T
    PROVE  /\ Filled(f, found) \in [DOMAIN Filled(f, found) -> T]
           /\ DOMAIN f \subseteq DOMAIN Filled(f, found)
           /\ \A n \in DOMAIN Filled(f, found) :
                \/ n \in DOMAIN f /\ Filled(f, found)[n] = f[n]
                \/ IsFound(found, n, Filled(f, found)[n])
<1> DEFINE last(n) == {i \in DOMAIN found : found[i].name = n}
           pick(n) == CHOOSE i \in last(n) : \A j \in last(n) : j <= i
           g == Filled(f, found)
<1>1. /\ g = [n \in DOMAIN g |-> g[n]]
      /\ DOMAIN g = DOMAIN f \cup {found[i].name : i \in DOMAIN found}
      /\ \A n \in DOMAIN g : g[n] = IF last(n) = {} THEN f[n] ELSE found[pick(n)].def
  BY DEF Filled
<1>2. ASSUME NEW n, last(n) # {}
      PROVE  pick(n) \in last(n)
  <2>1. last(n) \subseteq 1..Len(found) /\ Len(found) \in Nat
    OBVIOUS
  <2>2. \E i \in last(n) : \A j \in last(n) : j <= i
    BY <1>2, <2>1, Greatest
  <2> QED
    BY <2>2
<1>3. ASSUME NEW n \in DOMAIN g
      PROVE  \/ n \in DOMAIN f /\ g[n] = f[n]
             \/ IsFound(found, n, g[n])
  <2>1. CASE last(n) = {}
    BY <2>1, <1>1
  <2>2. CASE last(n) # {}
    <3>1. pick(n) \in DOMAIN found /\ found[pick(n)].name = n
      BY <2>2, <1>2
    <3> QED
      BY <2>2, <3>1, <1>1 DEF IsFound
  <2> QED
    BY <2>1, <2>2
<1>4. \A n \in DOMAIN g : g[n] \in T
  BY <1>3 DEF IsFound
<1> HIDE DEF last, pick, g
<1>5. g \in [DOMAIN g -> T]
  BY <1>1, <1>4
<1> QED
  BY <1>1, <1>3, <1>5 DEF g

\* The first of the rows of a name is one of them.
LEMMA FirstIsNamed ==
    ASSUME RowsTyped, NEW kind \in Kinds, NEW name, Named(kind, name) # {}
    PROVE  First(Named(kind, name)) \in Named(kind, name)
<1>1. rows[kind] \in Seq(Row(kind))
  BY DEF RowsTyped
<1>2. Named(kind, name) \subseteq 1..Len(rows[kind]) /\ Len(rows[kind]) \in Nat
  BY <1>1 DEF Named
<1>3. \E i \in Named(kind, name) : \A j \in Named(kind, name) : i <= j
  BY <1>2, Least
<1> QED
  BY <1>3 DEF First

\* A page holds rows of its collection.
LEMMA PageEffect ==
    ASSUME RowsTyped, NEW kind \in Kinds
    PROVE  /\ Page(kind) \in Seq(Row(kind))
           /\ \A i \in DOMAIN Page(kind) : \E j \in DOMAIN rows[kind] : Page(kind)[i] = rows[kind][j]
<1> DEFINE s == rows[kind]
           n == IF Len(s) < PageSize THEN Len(s) ELSE PageSize
<1>1. s \in Seq(Row(kind))
  BY DEF RowsTyped
<1>2. n \in Nat /\ n <= Len(s) /\ Len(s) \in Nat /\ DOMAIN s = 1..Len(s)
  BY <1>1, PageSizeAssumption
<1>3. Page(kind) = SubSeq(s, 1, n)
  BY DEF Page
<1> HIDE DEF n, s
<1>4. \A i \in 1..n : s[i] \in Row(kind)
  BY <1>1, <1>2
<1>5. /\ SubSeq(s, 1, n) \in Seq(Row(kind))
      /\ Len(SubSeq(s, 1, n)) = IF 1 <= n THEN n - 1 + 1 ELSE 0
      /\ \A i \in 1..(n - 1 + 1) : SubSeq(s, 1, n)[i] = s[1 + i - 1]
  BY <1>2, <1>4, SubSeqProperties
<1>6. DOMAIN SubSeq(s, 1, n) = 1..n
  BY <1>2, <1>5
<1>7. \A i \in 1..n : SubSeq(s, 1, n)[i] = s[i] /\ i \in DOMAIN s
  BY <1>2, <1>5
<1> QED
  BY <1>3, <1>5, <1>6, <1>7 DEF s

\* The entry that the set-up is about to write.
Entry == Configuration[setup.step + 1]

\* While the set-up writes entries, there is one to write.
LEMMA EntryType ==
    ASSUME TypeInv, SetupStore \/ SetupCache
    PROVE  /\ setup.step + 1 \in DOMAIN Configuration
           /\ Entry.kind \in Kinds /\ Entry.name \in Names /\ Entry.name \in RowIds
           /\ Entry.name # NoId /\ Entry.def \in Defs(Entry.kind)
<1>1. setup.step \in 0..Len(Configuration) /\ setup.step < Len(Configuration)
  BY DEF TypeInv, SetupTyped, Setups, SetupStore, SetupCache
<1>2. setup.step + 1 \in DOMAIN Configuration
  BY <1>1, ConfigurationType
<1> QED
  BY <1>2, ConfigurationType DEF Entry

\* The fields of a request have their types, whatever its operation.
LEMMA RequestType ==
    ASSUME TypeInv, NEW r \in Requests
    PROVE  /\ req[r].kind \in Kinds /\ req[r].id \in RowIds /\ EquippedAt(req[r])
           /\ req[r].found \in Seq(Row(req[r].kind))
           /\ req[r].at \in {"idle", "store", "cache", "get", "find", "delete", "uncache", "list",
                             "fill"}
BY DEF TypeInv, ReqTyped, Request

\* The collections keep their type, and what is new in them is what a request or the set-up
\* writes, of which the history takes note.
LEMMA RowsEffect ==
    ASSUME TypeInv, Next
    PROVE  /\ RowsTyped'
           /\ \A kind \in Kinds : \A i \in DOMAIN rows'[kind] :
                LET d == rows'[kind][i] IN
                \/ \E j \in DOMAIN rows[kind] : rows[kind][j].name = d.name /\ rows[kind][j].def = d.def
                \/ \E r \in Requests : /\ Store(r) /\ req[r].kind = kind
                                       /\ req[r].name = d.name /\ req[r].def = d.def
                                       /\ <<d.name, d.def>> \in ever'[kind]
                \/ /\ SetupStore /\ Entry.kind = kind /\ Entry.name = d.name /\ Entry.def = d.def
                   /\ <<d.name, d.def>> \in ever'[kind]
<1> DEFINE Old(kind, d) ==
             \E j \in DOMAIN rows[kind] : rows[kind][j].name = d.name /\ rows[kind][j].def = d.def
<1>1. CASE UNCHANGED <<rows, ever>>
  BY <1>1 DEF TypeInv, RowsTyped
<1>2. ASSUME NEW r \in Requests, DeleteRow(r), ~UNCHANGED <<rows, ever>>
      PROVE  /\ RowsTyped'
             /\ \A kind \in Kinds : \A i \in DOMAIN rows'[kind] : Old(kind, rows'[kind][i])
  <2> DEFINE kind == req[r].kind
             s == rows[kind]
             t == Without(s, req[r].id)
  <2>1. kind \in Kinds
    BY RequestType
  <2>2. req[r].id \in Ids(kind) /\ rows' = [rows EXCEPT ![kind] = t]
    BY <1>2 DEF DeleteRow
  <2>3. s \in Seq(Row(kind)) /\ \A i, j \in DOMAIN s : s[i].id = s[j].id => i = j
    BY <2>1 DEF TypeInv, RowsTyped
  <2>4. \E i \in DOMAIN s : s[i].id = req[r].id
    BY <2>2 DEF Ids
  <2> HIDE DEF kind, s
  <2>5. t \in Seq(Row(kind))
    BY <2>3, <2>4, WithoutEffect
  <2>6. PICK f \in [DOMAIN t -> DOMAIN s] :
          /\ \A i, j \in DOMAIN t : f[i] = f[j] => i = j
          /\ \A i \in DOMAIN t : t[i] = s[f[i]]
    BY ZenonT(60), <2>3, <2>4, WithoutEffect
  <2> HIDE DEF t
  <2> USE DEF s
  <2>7. \A i, j \in DOMAIN t : t[i].id = t[j].id => i = j
    BY <2>3, <2>6
  <2>8. DOMAIN rows' = Kinds /\ rows'[kind] = t /\ \A k \in Kinds \ {kind} : rows'[k] = rows[k]
    BY <2>1, <2>2 DEF TypeInv, RowsTyped
  <2>9. \A k \in Kinds : /\ rows'[k] \in Seq(Row(k))
                         /\ \A i, j \in DOMAIN rows'[k] : rows'[k][i].id = rows'[k][j].id => i = j
    BY <2>5, <2>7, <2>8 DEF TypeInv, RowsTyped
  <2>10. \A i \in DOMAIN t : Old(kind, t[i])
    BY <2>6
  <2>11. ASSUME NEW k \in Kinds, NEW i \in DOMAIN rows'[k]
         PROVE  Old(k, rows'[k][i])
    <3>1. CASE k = kind
      BY <3>1, <2>8, <2>10
    <3>2. CASE k # kind
      BY <3>2, <2>8
    <3> QED
      BY <3>1, <3>2
  <2> QED
    BY <2>8, <2>9, <2>11 DEF RowsTyped
<1>3. ASSUME NEW r \in Requests, Store(r), ~UNCHANGED <<rows, ever>>
      PROVE  /\ RowsTyped'
             /\ \A kind \in Kinds : \A i \in DOMAIN rows'[kind] :
                  LET d == rows'[kind][i] IN
                  \/ Old(kind, d)
                  \/ /\ req[r].kind = kind /\ req[r].name = d.name /\ req[r].def = d.def
                     /\ <<d.name, d.def>> \in ever'[kind]
  <2> DEFINE q == req[r]
  <2>1. /\ q.kind \in Kinds /\ q.id \in RowIds /\ q.name \in Names /\ q.def \in Defs(q.kind)
    BY <1>3, RequestType DEF EquippedAt, Store
  <2>2. \/ Insert(q.kind, q.id, q.name, q.def) \/ ReplaceRow(q.kind, q.id, q.name, q.def)
    BY <1>3 DEF Store
  <2>3. <<q.name, q.def>> \in ever'[q.kind]
    BY <2>1, <2>2 DEF Insert, ReplaceRow, TypeInv, EverTyped
  <2>4. /\ RowsTyped'
        /\ \A k \in Kinds \ {q.kind} : rows'[k] = rows[k]
        /\ \A i \in DOMAIN rows'[q.kind] :
             \/ i \in DOMAIN rows[q.kind] /\ rows'[q.kind][i] = rows[q.kind][i]
             \/ rows'[q.kind][i].name = q.name /\ rows'[q.kind][i].def = q.def
    BY <2>1, <2>2, InsertEffect, ReplaceEffect DEF TypeInv
  <2> QED
    BY <2>3, <2>4
<1>4. ASSUME SetupStore, ~UNCHANGED <<rows, ever>>
      PROVE  /\ RowsTyped'
             /\ \A kind \in Kinds : \A i \in DOMAIN rows'[kind] :
                  LET d == rows'[kind][i] IN
                  \/ Old(kind, d)
                  \/ /\ Entry.kind = kind /\ Entry.name = d.name /\ Entry.def = d.def
                     /\ <<d.name, d.def>> \in ever'[kind]
  <2>1. /\ Entry.kind \in Kinds /\ Entry.name \in Names /\ Entry.name \in RowIds
        /\ Entry.def \in Defs(Entry.kind)
    BY <1>4, EntryType
  <2>2. Insert(Entry.kind, Entry.name, Entry.name, Entry.def)
    BY <1>4 DEF SetupStore, Entry
  <2>3. <<Entry.name, Entry.def>> \in ever'[Entry.kind]
    BY <2>1, <2>2 DEF Insert, TypeInv, EverTyped
  <2>4. /\ RowsTyped'
        /\ \A k \in Kinds \ {Entry.kind} : rows'[k] = rows[k]
        /\ \A i \in DOMAIN rows'[Entry.kind] :
             \/ i \in DOMAIN rows[Entry.kind] /\ rows'[Entry.kind][i] = rows[Entry.kind][i]
             \/ rows'[Entry.kind][i].name = Entry.name /\ rows'[Entry.kind][i].def = Entry.def
    BY <2>1, <2>2, InsertEffect DEF TypeInv
  <2> QED
    BY <2>3, <2>4
<1> QED
  BY <1>1, <1>2, <1>3, <1>4, Writers

\* The caches keep their type, and what is new in them is what a request or the set-up puts
\* there; only Uncache and a restart take anything out.
LEMMA CacheEffect ==
    ASSUME TypeInv, Next
    PROVE  /\ CacheTyped'
           /\ \A kind \in Kinds : \A n \in DOMAIN cache'[kind] :
                \/ n \in DOMAIN cache[kind] /\ cache'[kind][n] = cache[kind][n]
                \/ \E r \in Requests : /\ CachePut(r) /\ req[r].kind = kind
                                       /\ req[r].name = n /\ cache'[kind][n] = req[r].def
                \/ \E r \in Requests : /\ SyncFill(r) /\ req[r].kind = kind
                                       /\ IsFound(req[r].found, n, cache'[kind][n])
                \/ SetupCache /\ Entry.kind = kind /\ Entry.name = n /\ Entry.def = cache'[kind][n]
           /\ \A kind \in Kinds : \A n \in DOMAIN cache[kind] :
                \/ n \in DOMAIN cache'[kind]
                \/ Restart
                \/ \E r \in Requests : Uncache(r) /\ req[r].kind = kind /\ req[r].name = n
<1> DEFINE Kept(kind, n) == n \in DOMAIN cache[kind] /\ cache'[kind][n] = cache[kind][n]
<1>1. CASE UNCHANGED cache
  BY <1>1 DEF TypeInv, CacheTyped
<1>2. ASSUME NEW kind \in Kinds, NEW name \in Names, NEW def \in Defs(kind), Put(kind, name, def)
      PROVE  /\ CacheTyped'
             /\ \A k \in Kinds : \A n \in DOMAIN cache'[k] :
                  Kept(k, n) \/ (k = kind /\ n = name /\ cache'[k][n] = def)
             /\ \A k \in Kinds : \A n \in DOMAIN cache[k] : n \in DOMAIN cache'[k]
  <2>1. /\ DOMAIN cache' = Kinds
        /\ \A k \in Kinds \ {kind} : cache'[k] = cache[k]
        /\ cache'[kind] \in [DOMAIN cache[kind] \cup {name} ->
                             {cache'[kind][n] : n \in DOMAIN cache'[kind]}]
        /\ DOMAIN cache'[kind] = DOMAIN cache[kind] \cup {name}
        /\ cache'[kind][name] = def
        /\ \A n \in DOMAIN cache[kind] \ {name} : cache'[kind][n] = cache[kind][n]
    BY <1>2, PutEffect DEF TypeInv
  <2>2. DOMAIN cache[kind] \subseteq Names /\ cache[kind] \in [DOMAIN cache[kind] -> Defs(kind)]
    BY DEF TypeInv, CacheTyped
  <2>3. \A n \in DOMAIN cache'[kind] : cache'[kind][n] \in Defs(kind)
    BY <2>1, <2>2
  <2>4. cache'[kind] \in [DOMAIN cache'[kind] -> Defs(kind)]
    BY <2>1, <2>3
  <2>5. CacheTyped'
    <3> SUFFICES ASSUME NEW k \in Kinds
                 PROVE  /\ DOMAIN cache'[k] \subseteq Names
                        /\ cache'[k] \in [DOMAIN cache'[k] -> Defs(k)]
      BY <2>1 DEF CacheTyped
    <3>1. CASE k = kind
      BY <3>1, <2>1, <2>2, <2>4
    <3>2. CASE k # kind
      BY <3>2, <2>1 DEF TypeInv, CacheTyped
    <3> QED
      BY <3>1, <3>2
  <2> QED
    BY <2>1, <2>5
<1>3. ASSUME NEW r \in Requests, CachePut(r)
      PROVE  req[r].name \in Names /\ req[r].def \in Defs(req[r].kind)
             /\ Put(req[r].kind, req[r].name, req[r].def) /\ req[r].kind \in Kinds
  BY <1>3, RequestType DEF CachePut, EquippedAt
<1>4. SetupCache => Put(Entry.kind, Entry.name, Entry.def)
  BY DEF SetupCache, Entry
<1>5. ASSUME NEW r \in Requests, Uncache(r)
      PROVE  /\ CacheTyped'
             /\ \A k \in Kinds : \A n \in DOMAIN cache'[k] : Kept(k, n)
             /\ \A k \in Kinds : \A n \in DOMAIN cache[k] :
                  n \in DOMAIN cache'[k] \/ (k = req[r].kind /\ n = req[r].name)
  <2> DEFINE kind == req[r].kind
  <2>1. kind \in Kinds /\ Drop(kind, req[r].name)
    BY <1>5, RequestType DEF Uncache
  <2>2. /\ DOMAIN cache' = Kinds
        /\ \A k \in Kinds \ {kind} : cache'[k] = cache[k]
        /\ cache'[kind] \in [DOMAIN cache[kind] \ {req[r].name} ->
                             {cache'[kind][n] : n \in DOMAIN cache'[kind]}]
        /\ DOMAIN cache'[kind] = DOMAIN cache[kind] \ {req[r].name}
        /\ \A n \in DOMAIN cache'[kind] : cache'[kind][n] = cache[kind][n]
    BY <2>1, DropEffect DEF TypeInv
  <2>3. DOMAIN cache[kind] \subseteq Names /\ cache[kind] \in [DOMAIN cache[kind] -> Defs(kind)]
    BY <2>1 DEF TypeInv, CacheTyped
  <2>4. cache'[kind] \in [DOMAIN cache'[kind] -> Defs(kind)]
    <3>1. \A n \in DOMAIN cache'[kind] : cache'[kind][n] \in Defs(kind)
      BY <2>2, <2>3
    <3> QED
      BY <2>2, <3>1
  <2>5. CacheTyped'
    <3> SUFFICES ASSUME NEW k \in Kinds
                 PROVE  /\ DOMAIN cache'[k] \subseteq Names
                        /\ cache'[k] \in [DOMAIN cache'[k] -> Defs(k)]
      BY <2>2 DEF CacheTyped
    <3>1. CASE k = kind
      BY <3>1, <2>2, <2>3, <2>4
    <3>2. CASE k # kind
      BY <3>2, <2>2 DEF TypeInv, CacheTyped
    <3> QED
      BY <3>1, <3>2
  <2> QED
    BY <2>2, <2>5
<1>6. ASSUME NEW r \in Requests, SyncFill(r)
      PROVE  /\ CacheTyped'
             /\ \A k \in Kinds : \A n \in DOMAIN cache'[k] :
                  \/ Kept(k, n)
                  \/ /\ k = req[r].kind
                     /\ IsFound(req[r].found, n, cache'[k][n])
             /\ \A k \in Kinds : \A n \in DOMAIN cache[k] : n \in DOMAIN cache'[k]
  <2> DEFINE kind == req[r].kind
             found == req[r].found
             f == cache[kind]
             g == Filled(f, found)
  <2>1. kind \in Kinds /\ found \in Seq(Row(kind))
    BY RequestType
  <2>2. cache' = [cache EXCEPT ![kind] = g]
    BY <1>6 DEF SyncFill
  <2>3. DOMAIN cache' = Kinds /\ cache'[kind] = g /\ \A k \in Kinds \ {kind} : cache'[k] = cache[k]
    BY <2>1, <2>2 DEF TypeInv, CacheTyped
  <2>4. f \in [DOMAIN f -> Defs(kind)] /\ DOMAIN f \subseteq Names
    BY <2>1 DEF TypeInv, CacheTyped
  <2>5. \A i \in DOMAIN found : found[i].name \in Names /\ found[i].def \in Defs(kind)
    <3> HIDE DEF kind, found
    <3>1. \A i \in DOMAIN found : found[i] \in Row(kind)
      BY <2>1
    <3> QED
      BY <3>1 DEF Row
  <2> HIDE DEF f, kind, found
  <2>6. /\ g \in [DOMAIN g -> Defs(kind)]
        /\ DOMAIN f \subseteq DOMAIN g
        /\ \A n \in DOMAIN g :
             \/ n \in DOMAIN f /\ g[n] = f[n]
             \/ IsFound(found, n, g[n])
    BY <2>1, <2>4, <2>5, FilledEffect
  <2> HIDE DEF g
  <2>7. DOMAIN g \subseteq Names
    BY <2>4, <2>5, <2>6 DEF IsFound
  <2>8. CacheTyped'
    <3> SUFFICES ASSUME NEW k \in Kinds
                 PROVE  /\ DOMAIN cache'[k] \subseteq Names
                        /\ cache'[k] \in [DOMAIN cache'[k] -> Defs(k)]
      BY <2>3 DEF CacheTyped
    <3>1. CASE k = kind
      BY <3>1, <2>3, <2>6, <2>7
    <3>2. CASE k # kind
      BY <3>2, <2>3 DEF TypeInv, CacheTyped
    <3> QED
      BY <3>1, <3>2
  <2>9. ASSUME NEW k \in Kinds, k # kind
        PROVE  cache'[k] = cache[k]
    BY <2>9, <2>3
  <2> QED
    BY <2>3, <2>6, <2>8, <2>9 DEF f, kind, found
<1>7. CASE Restart
  <2>1. cache' = [kind \in Kinds |-> << >>]
    BY <1>7 DEF Restart
  <2>2. \A kind \in Kinds : cache'[kind] = << >> /\ DOMAIN cache'[kind] = {}
    BY <2>1
  <2>3. ASSUME NEW kind \in Kinds
        PROVE  cache'[kind] \in [DOMAIN cache'[kind] -> Defs(kind)]
    <3>1. << >> \in Seq(Defs(kind)) /\ Len(<< >>) = 0
      BY EmptySeq
    <3>2. << >> \in [1..Len(<< >>) -> Defs(kind)]
      BY <3>1, LenProperties
    <3> QED
      BY <3>2, <2>2
  <2>4. CacheTyped'
    BY <2>1, <2>2, <2>3 DEF CacheTyped
  <2> QED
    BY <1>7, <2>2, <2>4
<1> QED
  <2>1. ASSUME NEW r \in Requests, CachePut(r)
        PROVE  /\ CacheTyped'
               /\ \A k \in Kinds : \A n \in DOMAIN cache'[k] :
                    \/ Kept(k, n)
                    \/ req[r].kind = k /\ req[r].name = n /\ cache'[k][n] = req[r].def
               /\ \A k \in Kinds : \A n \in DOMAIN cache[k] : n \in DOMAIN cache'[k]
    BY <1>2, <1>3, <2>1
  <2>2. SetupCache =>
          /\ CacheTyped'
          /\ \A k \in Kinds : \A n \in DOMAIN cache'[k] :
               Kept(k, n) \/ (Entry.kind = k /\ Entry.name = n /\ Entry.def = cache'[k][n])
          /\ \A k \in Kinds : \A n \in DOMAIN cache[k] : n \in DOMAIN cache'[k]
    BY <1>2, <1>4, EntryType
  <2> HIDE DEF Kept
  <2>4. \/ UNCHANGED cache \/ SetupCache \/ Restart
        \/ \E r \in Requests : CachePut(r) \/ Uncache(r) \/ SyncFill(r)
    BY Writers
  <2>5. CacheTyped'
    BY <1>1, <1>5, <1>6, <1>7, <2>1, <2>2, <2>4
  <2> QED
    BY <1>1, <1>5, <1>6, <1>7, <2>1, <2>2, <2>4, <2>5 DEF Kept

-----------------------------------------------------------------------------
(* Types are preserved *)

\* A request that has ended is of its type.
LEMMA IdleType == Idle.kind \in Kinds /\ Idle \in Request(Idle.kind) /\ EquippedAt(Idle)
<1>1. << >> \in Seq(Row("role"))
  BY EmptySeq
<1>2. NoId \in RowIds
  BY DEF RowIds
<1> QED
  BY <1>1, <1>2 DEF Idle, Kinds, Request, EquippedAt

\* A step of a request changes that request, and what it makes of it is of its type; the mutex
\* is its own exactly when it syncs.
LEMMA RequestStep ==
    ASSUME TypeInv, NEW r \in Requests, Begins(r) \/ Step(r)
    PROVE  \E q : /\ req' = [req EXCEPT ![r] = q]
                  /\ q.kind \in Kinds /\ q \in Request(q.kind) /\ EquippedAt(q)
                  /\ \/ mu' = mu /\ (q.op = "sync" <=> req[r].op = "sync")
                     \/ mu = "free" /\ mu' = r /\ q.op = "sync"
                     \/ mu = r /\ mu' = "free" /\ q.op # "sync"
<1> DEFINE Good(q) == q.kind \in Kinds /\ q \in Request(q.kind) /\ EquippedAt(q)
<1>1. Good(req[r]) /\ (mu = r <=> req[r].op = "sync")
  BY DEF TypeInv, ReqTyped, Mutex
<1>2. Good(Idle) /\ Idle.op # "sync"
  BY IdleType DEF Idle
<1>3. ASSUME NEW place \in {"cache", "uncache"}, Goto(r, place),
             \/ place = "cache" /\ req[r].at = "store"
             \/ place = "uncache" /\ req[r].at = "delete"
      PROVE  /\ req' = [req EXCEPT ![r] = [req[r] EXCEPT !.at = place]]
             /\ Good([req[r] EXCEPT !.at = place])
             /\ [req[r] EXCEPT !.at = place].op # "sync" /\ req[r].op # "sync"
  BY <1>1, <1>3 DEF Goto, Request, EquippedAt
<1>4. CASE Begins(r)
  <2>1. << >> \in Seq(Row("role")) /\ << >> \in Seq(Row("group")) /\ NoId \in RowIds
    BY EmptySeq DEF RowIds
  <2>2. req[r].op # "sync" /\ mu' = mu
    <3>1. Call(r) /\ mu' = mu
      BY <1>4 DEF Begins, Begin, BeginDelete
    <3> QED
      BY <3>1, <1>2 DEF Call
  <2>3. ASSUME NEW op \in {"create", "update"}, NEW kind \in Kinds, NEW id \in RowIds,
               NEW name \in Names, NEW def \in Defs(kind), Begin(r, op, kind, id, name, def)
        PROVE  \E q : req' = [req EXCEPT ![r] = q] /\ Good(q) /\ q.op # "sync"
    <3> DEFINE q == [Idle EXCEPT !.op = op, !.at = "store", !.kind = kind, !.id = id,
                                 !.name = name, !.def = def]
    <3>1. req' = [req EXCEPT ![r] = q]
      BY <2>3 DEF Begin
    <3>2. Good(q) /\ q.op # "sync"
      BY <2>1 DEF Idle, Request, EquippedAt, Kinds
    <3> HIDE DEF q
    <3> QED
      BY <3>1, <3>2
  <2>4. ASSUME NEW kind \in Kinds, NEW name \in Names, BeginDelete(r, kind, name)
        PROVE  \E q : req' = [req EXCEPT ![r] = q] /\ Good(q) /\ q.op # "sync"
    <3> DEFINE q == [Idle EXCEPT !.op = "delete", !.at = "get", !.kind = kind, !.name = name]
    <3>1. req' = [req EXCEPT ![r] = q]
      BY <2>4 DEF BeginDelete
    <3>2. Good(q) /\ q.op # "sync"
      BY <2>1 DEF Idle, Request, EquippedAt, Kinds
    <3> HIDE DEF q
    <3> QED
      BY <3>1, <3>2
  <2> QED
    BY <1>4, <2>2, <2>3, <2>4 DEF Begins
<1>5. CASE Store(r)
  <2>1. Fail(r) \/ Goto(r, "cache")
    BY <1>5 DEF Store
  <2>2. req[r].at = "store" /\ mu' = mu /\ req[r].op # "sync"
    BY <1>1, <1>5 DEF Store, EquippedAt
  <2> QED
    BY <1>2, <1>3, <2>1, <2>2 DEF Fail
<1>6. CASE CachePut(r) \/ Uncache(r)
  <2>1. Fail(r) /\ mu' = mu /\ req[r].op # "sync"
    BY <1>1, <1>6 DEF CachePut, Uncache, EquippedAt
  <2> QED
    BY <1>2, <2>1 DEF Fail
<1>7. CASE GetRow(r)
  <2> DEFINE kind == req[r].kind
             id == ModelId(kind, req[r].name)
             q == [req[r] EXCEPT !.at = IF req[r].at = "get" THEN "find" ELSE "delete", !.id = id]
  <2>1. req[r].at \in {"get", "find"} /\ mu' = mu /\ req[r].op = "delete"
    BY <1>1, <1>7 DEF GetRow, EquippedAt
  <2>2. ASSUME Named(kind, req[r].name) # {}
        PROVE  id \in RowIds
    <3>1. First(Named(kind, req[r].name)) \in Named(kind, req[r].name) /\ kind \in Kinds
      BY <1>1, <2>2, FirstIsNamed DEF TypeInv
    <3>2. \A i \in Named(kind, req[r].name) : rows[kind][i] \in Row(kind)
      <4>1. rows[kind] \in Seq(Row(kind))
        BY <3>1 DEF TypeInv, RowsTyped
      <4> HIDE DEF kind
      <4> QED
        BY <4>1 DEF Named
    <3>3. rows[kind][First(Named(kind, req[r].name))].id \in RowIds
      BY <3>1, <3>2 DEF Row
    <3> QED
      BY <3>3 DEF ModelId, RowIds
  <2>3. \/ Fail(r)
        \/ Named(kind, req[r].name) # {} /\ req' = [req EXCEPT ![r] = q]
    BY <1>7 DEF GetRow
  <2> HIDE DEF id
  <2>4. id \in RowIds => Good(q) /\ q.op # "sync"
    BY <1>1, <2>1 DEF Request, EquippedAt
  <2> HIDE DEF q
  <2> QED
    BY <1>2, <2>1, <2>2, <2>3, <2>4 DEF Fail
<1>8. CASE DeleteRow(r)
  <2>1. Fail(r) \/ Goto(r, "uncache")
    BY <1>8 DEF DeleteRow
  <2>2. req[r].at = "delete" /\ mu' = mu /\ req[r].op # "sync"
    BY <1>1, <1>8 DEF DeleteRow, EquippedAt
  <2> QED
    BY <1>2, <1>3, <2>1, <2>2 DEF Fail
<1>9. CASE SyncCache(r)
  <2> DEFINE q == [Idle EXCEPT !.op = "sync", !.at = "list", !.kind = "role"]
  <2>1. req' = [req EXCEPT ![r] = q] /\ mu = "free" /\ mu' = r
    BY <1>9 DEF SyncCache
  <2>2. Good(q) /\ q.op = "sync"
    BY <1>2 DEF Idle, Request, EquippedAt, Kinds
  <2> HIDE DEF q
  <2> QED
    BY <2>1, <2>2
<1>10. CASE SyncList(r)
  <2> DEFINE q == [req[r] EXCEPT !.at = "fill", !.found = Page(req[r].kind)]
  <2>1. req[r].op = "sync" /\ mu = r
    BY <1>1, <1>10 DEF SyncList, EquippedAt
  <2>2. Page(req[r].kind) \in Seq(Row(req[r].kind))
    BY <1>1, PageEffect DEF TypeInv
  <2>3. Good(q) /\ q.op = "sync"
    BY <1>1, <2>1, <2>2 DEF Request, EquippedAt
  <2>4. \/ req' = [req EXCEPT ![r] = q] /\ mu' = mu
        \/ Fail(r) /\ mu' = "free"
    BY <1>10 DEF SyncList
  <2> HIDE DEF q
  <2> QED
    BY <1>2, <2>1, <2>3, <2>4 DEF Fail
<1>11. CASE SyncFill(r)
  <2> DEFINE q == [req[r] EXCEPT !.at = "list", !.kind = "group", !.found = << >>]
  <2>1. req[r].op = "sync" /\ mu = r
    BY <1>1, <1>11 DEF SyncFill, EquippedAt
  <2>2. \/ req[r].kind = "role" /\ req' = [req EXCEPT ![r] = q] /\ mu' = mu
        \/ Fail(r) /\ mu' = "free"
    BY <1>11 DEF SyncFill
  <2>3. << >> \in Seq(Row("group"))
    BY EmptySeq
  <2>4. Good(q) /\ q.op = "sync"
    BY <1>1, <1>11, <2>1, <2>3 DEF Request, EquippedAt, Kinds, SyncFill
  <2> HIDE DEF q
  <2> QED
    BY <1>2, <2>1, <2>2, <2>4 DEF Fail
<1> QED
  BY <1>4, <1>5, <1>6, <1>7, <1>8, <1>9, <1>10, <1>11 DEF Step

\* The parts about requests and the mutex are preserved together.
LEMMA RequestsEffect ==
    ASSUME TypeInv, Next
    PROVE  ReqTyped' /\ Mutex'
<1>1. CASE UNCHANGED <<req, mu>>
  BY <1>1 DEF TypeInv, ReqTyped, Mutex
<1>2. ASSUME NEW r \in Requests, Begins(r) \/ Step(r)
      PROVE  ReqTyped' /\ Mutex'
  <2>1. PICK q : /\ req' = [req EXCEPT ![r] = q]
                 /\ q.kind \in Kinds /\ q \in Request(q.kind) /\ EquippedAt(q)
                 /\ \/ mu' = mu /\ (q.op = "sync" <=> req[r].op = "sync")
                    \/ mu = "free" /\ mu' = r /\ q.op = "sync"
                    \/ mu = r /\ mu' = "free" /\ q.op # "sync"
    BY <1>2, RequestStep
  <2>2. DOMAIN req' = Requests /\ req'[r] = q /\ \A s \in Requests \ {r} : req'[s] = req[s]
    BY <2>1 DEF TypeInv, ReqTyped
  <2>3. ReqTyped'
    BY <2>1, <2>2 DEF TypeInv, ReqTyped
  <2>4. Mutex'
    <3>1. mu \in Requests \cup {"free"} /\ \A s \in Requests : mu = s <=> req[s].op = "sync"
      BY DEF TypeInv, Mutex
    <3>2. mu' \in Requests \cup {"free"}
      BY <2>1, <3>1
    <3>3. mu' = r <=> q.op = "sync"
      BY <2>1, <3>1, RequestsAssumption
    <3> SUFFICES ASSUME NEW s \in Requests
                 PROVE  mu' = s <=> req'[s].op = "sync"
      BY <3>2 DEF Mutex
    <3>4. mu' = s <=> req'[s].op = "sync"
      <4>1. CASE s = r
        BY <4>1, <2>2, <3>3
      <4>2. CASE s # r
        <5>1. mu' = s <=> mu = s
          BY <4>2, <2>1, <3>1, RequestsAssumption
        <5> QED
          BY <4>2, <5>1, <2>2, <3>1
      <4> QED
        BY <4>1, <4>2
    <3> QED
      BY <3>4
  <2> QED
    BY <2>3, <2>4
<1>3. CASE Restart
  <2>1. mu' = "free" /\ DOMAIN req' = Requests /\ \A r \in Requests : req'[r] = Idle
    BY <1>3 DEF Restart
  <2>2. ReqTyped'
    BY <2>1, IdleType DEF ReqTyped
  <2>3. Mutex'
    <3>1. Idle.op # "sync"
      BY DEF Idle
    <3>2. \A r \in Requests : req'[r].op # "sync" /\ mu' # r
      BY <2>1, <3>1, RequestsAssumption
    <3> QED
      BY <2>1, <3>2 DEF Mutex
  <2> QED
    BY <2>2, <2>3
<1> QED
  BY <1>1, <1>2, <1>3, Writers

\* The type invariant and what the requests need with it are inductive.
LEMMA TypesAreInductive == Spec => []TypeInv
<1>1. Init => TypeInv
  <2> SUFFICES ASSUME Init PROVE TypeInv
    OBVIOUS
  <2>1. RowsTyped /\ EverTyped
    <3>1. \A kind \in Kinds : << >> \in Seq(Row(kind)) /\ Len(<< >>) = 0
      BY EmptySeq
    <3> QED
      BY <3>1 DEF Init, RowsTyped, EverTyped
  <2>2. CacheTyped
    <3>1. ASSUME NEW kind \in Kinds
          PROVE  DOMAIN cache[kind] \subseteq Names /\ cache[kind] \in [DOMAIN cache[kind] -> Defs(kind)]
      <4>1. << >> \in Seq(Defs(kind)) /\ Len(<< >>) = 0
        BY EmptySeq
      <4>2. << >> \in [1..Len(<< >>) -> Defs(kind)]
        BY <4>1, LenProperties
      <4> QED
        BY <4>1, <4>2 DEF Init
    <3> QED
      BY <3>1 DEF Init, CacheTyped
  <2>3. ReqTyped /\ Mutex
    <3>1. DOMAIN req = Requests /\ (\A r \in Requests : req[r] = Idle) /\ mu = "free"
      BY DEF Init
    <3>2. ReqTyped
      BY <3>1, IdleType DEF ReqTyped
    <3>3. ASSUME NEW r \in Requests
          PROVE  mu = r <=> req[r].op = "sync"
      <4>1. req[r].op # "sync"
        <5>1. Idle.op # "sync"
          BY DEF Idle
        <5> QED
          BY <3>1, <5>1
      <4>2. mu # r
        BY <3>1, RequestsAssumption
      <4> QED
        BY <4>1, <4>2
    <3> QED
      BY <3>1, <3>2, <3>3 DEF Mutex
  <2>4. SetupTyped /\ HistoryTyped
    BY ConfigurationType, MaxCallsAssumption DEF Init, SetupTyped, HistoryTyped, NoSetup, Setups
  <2> QED
    BY <2>1, <2>2, <2>3, <2>4 DEF TypeInv
<1>2. TypeInv /\ [Next]_vars => TypeInv'
  <2>1. ASSUME TypeInv, Next
        PROVE  TypeInv'
    <3>1. RowsTyped'
      BY <2>1, RowsEffect
    <3>2. CacheTyped'
      BY <2>1, CacheEffect
    <3>3. EverTyped'
      <4>1. ASSUME NEW kind \in Kinds, NEW name \in Names, NEW def \in Defs(kind),
                   ever' = [ever EXCEPT ![kind] = @ \cup {<<name, def>>}]
            PROVE  EverTyped'
        BY <2>1, <4>1 DEF TypeInv, EverTyped
      <4>2. CASE UNCHANGED ever
        BY <2>1, <4>2 DEF TypeInv, EverTyped
      <4>3. ASSUME NEW r \in Requests, Store(r), ~UNCHANGED ever
            PROVE  EverTyped'
        <5>1. req[r].kind \in Kinds /\ req[r].name \in Names /\ req[r].def \in Defs(req[r].kind)
          BY <2>1, <4>3, RequestType DEF Store, EquippedAt
        <5>2. ever' = [ever EXCEPT ![req[r].kind] = @ \cup {<<req[r].name, req[r].def>>}]
          BY <4>3 DEF Store, Insert, ReplaceRow
        <5> QED
          BY <4>1, <5>1, <5>2
      <4>4. ASSUME SetupStore, ~UNCHANGED ever
            PROVE  EverTyped'
        <5>1. ever' = [ever EXCEPT ![Entry.kind] = @ \cup {<<Entry.name, Entry.def>>}]
          BY <4>4 DEF SetupStore, Insert, Entry
        <5> QED
          BY <2>1, <4>1, <4>4, <5>1, EntryType
      <4>5. ASSUME NEW r \in Requests, DeleteRow(r)
            PROVE  UNCHANGED ever
        BY <4>5 DEF DeleteRow
      <4> QED
        BY <2>1, <4>2, <4>3, <4>4, <4>5, Writers
    <3>4. ReqTyped' /\ Mutex'
      BY <2>1, RequestsEffect
    <3>5. SetupTyped'
      <4>1. SetupStep => SetupTyped'
        <5>1. /\ setup \in Setups /\ Len(Configuration) \in Nat
              /\ setup.at = "cache" => setup.step < Len(Configuration)
          BY <2>1, ConfigurationType DEF TypeInv, SetupTyped
        <5>2. SetupDefaultSystem => SetupTyped'
          BY <5>1 DEF SetupDefaultSystem, SetupTyped, Setups
        <5>3. SetupStore => SetupTyped'
          BY <5>1 DEF SetupStore, SetupTyped, Setups
        <5>4. SetupCache => SetupTyped'
          <6> SUFFICES ASSUME SetupCache PROVE SetupTyped'
            OBVIOUS
          <6>1. /\ setup' = [at |-> "store", step |-> setup.step + 1]
                /\ setup.step \in 0..Len(Configuration) /\ setup.step < Len(Configuration)
            BY <5>1, EntryType, <2>1 DEF SetupCache, Setups
          <6>2. setup.step + 1 \in 0..Len(Configuration)
            BY <5>1, <6>1
          <6> QED
            BY <6>1, <6>2 DEF SetupTyped, Setups
        <5>5. CreateDefaultUsers => SetupTyped'
          BY <5>1 DEF CreateDefaultUsers, SetupTyped, Setups
        <5>6. CreateDefaultServiceAccounts => SetupTyped'
          <6> SUFFICES ASSUME CreateDefaultServiceAccounts PROVE SetupTyped'
            OBVIOUS
          <6>1. PICK at \in {"failed", "sync"} : setup' = [setup EXCEPT !.at = at]
            BY DEF CreateDefaultServiceAccounts
          <6> QED
            BY <5>1, <6>1 DEF SetupTyped, Setups
        <5> QED
          BY <5>2, <5>3, <5>4, <5>5, <5>6 DEF SetupStep
      <4>2. Restart => SetupTyped'
        BY <2>1 DEF Restart, TypeInv, SetupTyped, Setups
      <4>3. UNCHANGED setup => SetupTyped'
        BY <2>1 DEF TypeInv, SetupTyped
      <4> QED
        BY <2>1, <4>1, <4>2, <4>3, Writers
    <3>6. HistoryTyped'
      <4>1. calls' \in 0..MaxCalls
        BY <2>1, Writers, MaxCallsAssumption DEF TypeInv, HistoryTyped
      <4>2. ASSUME NEW r \in Requests, Begins(r)
            PROVE  revoked' \subseteq Names
        BY <2>1, <4>2 DEF Begins, Begin, BeginDelete, TypeInv, HistoryTyped
      <4>3. ASSUME NEW r \in Requests, Uncache(r)
            PROVE  revoked' \subseteq Names
        BY <2>1, <4>3, RequestType DEF Uncache, Gone, EquippedAt, TypeInv, HistoryTyped
      <4>4. SetupStore => revoked' \subseteq Names
        BY <2>1 DEF SetupStore, TypeInv, HistoryTyped
      <4>5. UNCHANGED revoked => revoked' \subseteq Names
        BY <2>1 DEF TypeInv, HistoryTyped
      <4> QED
        BY <2>1, <4>1, <4>2, <4>3, <4>4, <4>5, Writers DEF HistoryTyped
    <3> QED
      BY <3>1, <3>2, <3>3, <3>4, <3>5, <3>6 DEF TypeInv
  <2>2. TypeInv /\ UNCHANGED vars => TypeInv'
    BY DEF vars, TypeInv, RowsTyped, CacheTyped, EverTyped, ReqTyped, Mutex, SetupTyped, HistoryTyped
  <2> QED
    BY <2>1, <2>2
<1> QED
  BY <1>1, <1>2, PTL DEF Spec

\* Everything keeps its type, the mutex stays with the request that syncs and the IDs of a
\* collection stay different: in every run of every instance.
THEOREM TypeInvariant == Spec => []TypeOK
BY TypesAreInductive, TypesAreParts, PTL

-----------------------------------------------------------------------------
(* Grants are backed: whatever is in a cache, or on its way there, the collection has held *)

CacheBacked ==
    \A kind \in Kinds : \A n \in DOMAIN cache[kind] : <<n, cache[kind][n]>> \in ever[kind]
RowsBacked ==
    \A kind \in Kinds : \A i \in DOMAIN rows[kind] :
        <<rows[kind][i].name, rows[kind][i].def>> \in ever[kind]
RequestsBacked ==
    \A r \in Requests :
      /\ req[r].at = "cache" => <<req[r].name, req[r].def>> \in ever[req[r].kind]
      /\ req[r].at = "fill" =>
           \A i \in DOMAIN req[r].found :
               <<req[r].found[i].name, req[r].found[i].def>> \in ever[req[r].kind]
SetupBacked == setup.at = "cache" => <<Entry.name, Entry.def>> \in ever[Entry.kind]

Backed == CacheBacked /\ RowsBacked /\ RequestsBacked /\ SetupBacked

\* The history forgets nothing.
LEMMA EverGrows ==
    ASSUME TypeInv, Next
    PROVE  \A kind \in Kinds : ever[kind] \subseteq ever'[kind]
<1>1. \A r \in Requests : DeleteRow(r) => UNCHANGED ever
  BY DEF DeleteRow
<1>2. \A r \in Requests :
        Store(r) => UNCHANGED ever \/ \E kind \in Kinds : \E e : ever' = [ever EXCEPT ![kind] = @ \cup {e}]
  BY RequestType DEF Store, Insert, ReplaceRow
<1>3. SetupStore => UNCHANGED ever \/ \E kind \in Kinds : \E e : ever' = [ever EXCEPT ![kind] = @ \cup {e}]
  <2> SUFFICES ASSUME SetupStore, ~UNCHANGED ever
               PROVE  \E kind \in Kinds : \E e : ever' = [ever EXCEPT ![kind] = @ \cup {e}]
    OBVIOUS
  <2>1. ever' = [ever EXCEPT ![Entry.kind] = @ \cup {<<Entry.name, Entry.def>>}]
    BY DEF SetupStore, Insert, Entry
  <2> QED
    BY <2>1, EntryType
<1>4. UNCHANGED ever \/ \E kind \in Kinds : \E e : ever' = [ever EXCEPT ![kind] = @ \cup {e}]
  BY <1>1, <1>2, <1>3, Writers
<1> QED
  BY <1>4 DEF TypeInv, EverTyped

\* How a request comes to write the cache, to hold rows it found, and to be writing a name.
LEMMA RequestMoves ==
    ASSUME TypeInv, Next, NEW s \in Requests
    PROVE  /\ req'[s].at = "cache" =>
                \/ req'[s] = req[s]
                \/ /\ req'[s].kind = req[s].kind /\ req'[s].kind \in Kinds
                   /\ <<req'[s].name, req'[s].def>> \in ever'[req'[s].kind]
           /\ req'[s].at = "fill" =>
                \/ req'[s] = req[s]
                \/ /\ req'[s].kind = req[s].kind /\ req[s].kind \in Kinds
                   /\ req'[s].found = Page(req[s].kind)
           /\ req'[s].op \in {"create", "update"} =>
                \/ req'[s].op = req[s].op /\ req'[s].kind = req[s].kind /\ req'[s].name = req[s].name
                \/ req'[s].kind = "group" => req'[s].name \notin revoked'
<1>1. ASSUME Begins(s)
      PROVE  /\ req'[s].at \in {"store", "get"}
             /\ req'[s].op = "delete" \/ (req'[s].kind = "group" => req'[s].name \notin revoked')
  <2>1. s \in DOMAIN req
    BY DEF TypeInv, ReqTyped
  <2>2. ASSUME NEW op, NEW kind, NEW id, NEW name, NEW def, Begin(s, op, kind, id, name, def)
        PROVE  req'[s].at = "store" /\ (req'[s].kind = "group" => req'[s].name \notin revoked')
    BY <2>1, <2>2 DEF Begin, Idle
  <2>3. ASSUME NEW kind, NEW name, BeginDelete(s, kind, name)
        PROVE  req'[s].at = "get" /\ req'[s].op = "delete"
    BY <2>1, <2>3 DEF BeginDelete, Idle
  <2> QED
    BY <1>1, <2>2, <2>3 DEF Begins
<1>2. Idle.at = "idle" /\ Idle.op = "none"
  BY DEF Idle
<1>3. /\ DOMAIN req = Requests
      /\ req[s].kind \in Kinds /\ req[s] \in Request(req[s].kind) /\ EquippedAt(req[s])
  BY DEF TypeInv, ReqTyped
<1>4. ASSUME Store(s)
      PROVE  \/ req'[s] = Idle
             \/ /\ req'[s] = [req[s] EXCEPT !.at = "cache"]
                /\ <<req[s].name, req[s].def>> \in ever'[req[s].kind]
  BY <1>3, <1>4 DEF Store, Insert, ReplaceRow, Fail, Goto, TypeInv, EverTyped
<1>5. ASSUME CachePut(s) \/ Uncache(s)
      PROVE  req'[s] = Idle
  BY <1>3, <1>5 DEF CachePut, Uncache, Fail
<1>6. ASSUME GetRow(s)
      PROVE  \/ req'[s] = Idle
             \/ req'[s].at \in {"find", "delete"} /\ req'[s].op = "delete"
  <2>1. req[s].op = "delete"
    BY <1>3, <1>6 DEF GetRow, EquippedAt
  <2> QED
    BY <1>3, <1>6, <2>1 DEF GetRow, Request, Fail
<1>7. ASSUME DeleteRow(s)
      PROVE  req'[s] = Idle \/ req'[s] = [req[s] EXCEPT !.at = "uncache"]
  BY <1>3, <1>7 DEF DeleteRow, Fail, Goto
<1>8. ASSUME SyncCache(s)
      PROVE  req'[s].at = "list" /\ req'[s].op = "sync"
  BY <1>3, <1>8 DEF SyncCache, Idle
<1>9. ASSUME SyncList(s)
      PROVE  \/ req'[s] = Idle
             \/ /\ req'[s].at = "fill" /\ req'[s].op = "sync" /\ req'[s].kind = req[s].kind
                /\ req'[s].found = Page(req[s].kind)
  <2>1. req[s].op = "sync"
    BY <1>3, <1>9 DEF SyncList, EquippedAt
  <2> QED
    BY <1>3, <1>9, <2>1 DEF SyncList, Fail, Request
<1>10. ASSUME SyncFill(s)
       PROVE  req'[s] = Idle \/ (req'[s].at = "list" /\ req'[s].op = "sync")
  <2>1. req[s].op = "sync"
    BY <1>3, <1>10 DEF SyncFill, EquippedAt
  <2> QED
    BY <1>3, <1>10, <2>1 DEF SyncFill, Fail, Request
<1>11. Restart => req'[s] = Idle
  BY DEF Restart
<1>12. \A r \in Requests \ {s} : Begins(r) \/ Step(r) => req'[s] = req[s]
  BY <1>3, RequestStep
<1>13. \/ req'[s] = req[s] \/ req'[s] = Idle \/ Begins(s) \/ Store(s) \/ GetRow(s) \/ DeleteRow(s)
       \/ SyncCache(s) \/ SyncList(s) \/ SyncFill(s)
  BY <1>5, <1>11, <1>12, Writers DEF Step
<1>14. Store(s) => req'[s] = Idle \/
         /\ req'[s].at = "cache" /\ req'[s].op = req[s].op /\ req'[s].kind = req[s].kind
         /\ req'[s].name = req[s].name /\ req'[s].def = req[s].def
         /\ <<req'[s].name, req'[s].def>> \in ever'[req'[s].kind]
  BY <1>3, <1>4 DEF Request
<1>15. DeleteRow(s) => req'[s] = Idle \/
         /\ req'[s].at = "uncache" /\ req'[s].op = req[s].op /\ req'[s].kind = req[s].kind
         /\ req'[s].name = req[s].name
  BY <1>3, <1>7 DEF Request
<1> QED
  BY <1>1, <1>2, <1>3, <1>6, <1>8, <1>9, <1>10, <1>13, <1>14, <1>15

\* An action is granted only on the strength of definitions the collections have held.
THEOREM GrantsRestOnStoredDefinitions == Spec => []GrantsAreBacked
<1>1. Init => Backed
  <2> SUFFICES ASSUME Init PROVE Backed
    OBVIOUS
  <2>1. \A kind \in Kinds : DOMAIN cache[kind] = {} /\ DOMAIN rows[kind] = {}
    BY DEF Init
  <2>2. \A r \in Requests : req[r].at = "idle"
    BY DEF Init, Idle
  <2>3. setup.at = "off"
    BY DEF Init, NoSetup
  <2> QED
    BY <2>1, <2>2, <2>3 DEF Backed, CacheBacked, RowsBacked, RequestsBacked, SetupBacked
<1>2. TypeInv /\ Backed /\ [Next]_vars => Backed'
  <2>1. ASSUME TypeInv, Backed, Next
        PROVE  Backed'
    <3>1. \A kind \in Kinds : ever[kind] \subseteq ever'[kind]
      BY <2>1, EverGrows
    <3>2. CacheBacked'
      <4>1. DOMAIN cache' = Kinds
        BY <2>1, CacheEffect DEF CacheTyped
      <4>2. ASSUME NEW kind \in Kinds, NEW n \in DOMAIN cache'[kind]
            PROVE  <<n, cache'[kind][n]>> \in ever'[kind]
        <5>1. CASE n \in DOMAIN cache[kind] /\ cache'[kind][n] = cache[kind][n]
          BY <5>1, <2>1, <3>1 DEF Backed, CacheBacked
        <5>2. ASSUME NEW r \in Requests, CachePut(r), req[r].kind = kind, req[r].name = n,
                     cache'[kind][n] = req[r].def
              PROVE  <<n, cache'[kind][n]>> \in ever'[kind]
          BY <5>2, <2>1, <3>1 DEF Backed, RequestsBacked, CachePut
        <5>3. ASSUME NEW r \in Requests, SyncFill(r), req[r].kind = kind,
                     IsFound(req[r].found, n, cache'[kind][n])
              PROVE  <<n, cache'[kind][n]>> \in ever'[kind]
          BY <5>3, <2>1, <3>1 DEF Backed, RequestsBacked, SyncFill, IsFound
        <5>4. ASSUME SetupCache, Entry.kind = kind, Entry.name = n, Entry.def = cache'[kind][n]
              PROVE  <<n, cache'[kind][n]>> \in ever'[kind]
          BY <5>4, <2>1, <3>1 DEF Backed, SetupBacked, SetupCache
        <5> QED
          BY <2>1, <5>1, <5>2, <5>3, <5>4, CacheEffect
      <4> QED
        BY <4>2 DEF CacheBacked
    <3>3. RowsBacked'
      <4>1. ASSUME NEW kind \in Kinds, NEW i \in DOMAIN rows'[kind]
            PROVE  <<rows'[kind][i].name, rows'[kind][i].def>> \in ever'[kind]
        <5> DEFINE d == rows'[kind][i]
        <5>1. ASSUME NEW j \in DOMAIN rows[kind], rows[kind][j].name = d.name,
                     rows[kind][j].def = d.def
              PROVE  <<d.name, d.def>> \in ever'[kind]
          <6>1. <<rows[kind][j].name, rows[kind][j].def>> \in ever[kind]
            BY <2>1 DEF Backed, RowsBacked
          <6> QED
            BY <5>1, <6>1, <3>1
        <5>2. \/ \E j \in DOMAIN rows[kind] : rows[kind][j].name = d.name /\ rows[kind][j].def = d.def
              \/ <<d.name, d.def>> \in ever'[kind]
          BY <2>1, RowsEffect
        <5> HIDE DEF d
        <5>3. <<d.name, d.def>> \in ever'[kind]
          BY <5>1, <5>2
        <5> QED
          BY <5>3 DEF d
      <4> QED
        BY <4>1 DEF RowsBacked
    <3>4. RequestsBacked'
      <4>1. ASSUME NEW s \in Requests, req'[s].at = "cache"
            PROVE  <<req'[s].name, req'[s].def>> \in ever'[req'[s].kind]
        <5>1. CASE req'[s] = req[s]
          BY <5>1, <4>1, <2>1, <3>1, RequestType DEF Backed, RequestsBacked
        <5>2. CASE req'[s] # req[s]
          BY <5>2, <4>1, <2>1, RequestMoves
        <5> QED
          BY <5>1, <5>2
      <4>2. ASSUME NEW s \in Requests, req'[s].at = "fill", NEW i \in DOMAIN req'[s].found
            PROVE  <<req'[s].found[i].name, req'[s].found[i].def>> \in ever'[req'[s].kind]
        <5>1. CASE req'[s] = req[s]
          BY <5>1, <4>2, <2>1, <3>1, RequestType DEF Backed, RequestsBacked
        <5>2. CASE req'[s] # req[s]
          <6>1. /\ req'[s].kind = req[s].kind /\ req[s].kind \in Kinds
                /\ req'[s].found = Page(req[s].kind)
            BY <5>2, <4>2, <2>1, RequestMoves
          <6>2. PICK j \in DOMAIN rows[req[s].kind] : Page(req[s].kind)[i] = rows[req[s].kind][j]
            BY <6>1, <4>2, <2>1, PageEffect DEF TypeInv
          <6>3. <<rows[req[s].kind][j].name, rows[req[s].kind][j].def>> \in ever[req[s].kind]
            BY <6>1, <2>1 DEF Backed, RowsBacked
          <6> QED
            BY <6>1, <6>2, <6>3, <3>1
        <5> QED
          BY <5>1, <5>2
      <4> QED
        BY <4>1, <4>2 DEF RequestsBacked
    <3>5. SetupBacked'
      <4>1. SetupStore /\ setup'.at = "cache" => SetupBacked'
        <5> SUFFICES ASSUME SetupStore, setup'.at = "cache" PROVE SetupBacked'
          OBVIOUS
        <5>1. /\ setup \in Setups /\ Entry.kind \in Kinds
              /\ Entry.name \in Names /\ Entry.def \in Defs(Entry.kind)
          BY <2>1, EntryType DEF TypeInv, SetupTyped
        <5>2. setup' = [setup EXCEPT !.at = "cache"]
              /\ Insert(Entry.kind, Entry.name, Entry.name, Entry.def)
          BY <5>1 DEF SetupStore, Setups, Entry
        <5>3. Entry' = Entry
          BY <5>1, <5>2 DEF Entry, Setups
        <5>4. <<Entry.name, Entry.def>> \in ever'[Entry.kind]
          BY <5>1, <5>2, <2>1 DEF Insert, TypeInv, EverTyped
        <5> QED
          BY <5>3, <5>4 DEF SetupBacked
      <4>2. UNCHANGED setup => SetupBacked'
        <5> SUFFICES ASSUME UNCHANGED setup, setup.at = "cache" PROVE SetupBacked'
          BY DEF SetupBacked
        <5>1. setup.step + 1 \in DOMAIN Configuration
          BY <2>1, ConfigurationType DEF TypeInv, SetupTyped, Setups
        <5>2. Entry' = Entry /\ Entry.kind \in Kinds
          BY <5>1, ConfigurationType DEF Entry
        <5> QED
          BY <5>2, <2>1, <3>1 DEF Backed, SetupBacked
      <4>3. ASSUME SetupStep \/ Restart, setup'.at = "cache"
            PROVE  SetupStore
        BY <4>3, <2>1 DEF SetupStep, Restart, SetupDefaultSystem, SetupCache, CreateDefaultUsers,
           CreateDefaultServiceAccounts, TypeInv, SetupTyped, Setups
      <4> QED
        BY <2>1, <4>1, <4>2, <4>3, Writers DEF SetupBacked
    <3> QED
      BY <3>2, <3>3, <3>4, <3>5 DEF Backed
  <2>2. TypeInv /\ Backed /\ UNCHANGED vars => Backed'
    BY DEF vars, Backed, CacheBacked, RowsBacked, RequestsBacked, SetupBacked, Entry
  <2> QED
    BY <2>1, <2>2
<1>3. TypeInv /\ Backed => GrantsAreBacked
  <2> SUFFICES ASSUME TypeInv, Backed, NEW g \in DOMAIN cache.group,
                      NEW resource \in Resources, NEW action \in Manage,
                      Authorize({}, {g}, resource, action)
               PROVE  \E role \in ever.role, group \in ever.group :
                        /\ RoleAllows(role[2], resource, action)
                        /\ group[1] = g /\ role[1] \in group[2]
    BY DEF GrantsAreBacked
  <2>1. PICK n \in cache.group[g] \cap DOMAIN cache.role :
               RoleAllows(cache.role[n], resource, action)
    BY DEF Authorize, RolesToCheck
  <2>2. <<n, cache.role[n]>> \in ever.role /\ <<g, cache.group[g]>> \in ever.group
    BY DEF Backed, CacheBacked, Kinds
  <2> QED
    BY <2>1, <2>2
<1> QED
  BY <1>1, <1>2, <1>3, TypesAreInductive, PTL DEF Spec

-----------------------------------------------------------------------------
(* A group that is revoked stays revoked *)

\* Nothing that could bring the group back is left: no row, no write of the name under way, no
\* search of SyncCache that found it.
NothingLeft(g) ==
    /\ \A i \in DOMAIN rows["group"] : rows["group"][i].name # g
    /\ \A s \in Requests : ~Writing(s, "group", g)
    /\ ~SettingUp(g)
    /\ \A s \in Requests : req[s].at = "fill" /\ req[s].kind = "group" =>
         \A i \in DOMAIN req[s].found : req[s].found[i].name # g
    /\ g \notin DOMAIN cache["group"]
Revoked == \A g \in revoked : NothingLeft(g)

\* A group that DeleteGroup removed for good is out of force until somebody writes it again.
THEOREM RevokedGroupsStayRevoked == Spec => []RevokedStaysRevoked
<1>1. Init => Revoked
  BY DEF Init, Revoked
<1>2. TypeInv /\ Revoked /\ [Next]_vars => Revoked'
  <2>1. ASSUME TypeInv, Revoked, Next
        PROVE  Revoked'
    <3> SUFFICES ASSUME NEW g \in revoked'
                 PROVE  NothingLeft(g)'
      BY DEF Revoked
    <3>1. CASE g \in revoked
      <4>1. NothingLeft(g)
        BY <2>1, <3>1 DEF Revoked
      <4>2. \A i \in DOMAIN rows'["group"] : rows'["group"][i].name # g
        <5> SUFFICES ASSUME NEW i \in DOMAIN rows'["group"], rows'["group"][i].name = g
                     PROVE  FALSE
          OBVIOUS
        <5> DEFINE d == rows'["group"][i]
        <5>1. \/ \E j \in DOMAIN rows["group"] :
                   rows["group"][j].name = d.name /\ rows["group"][j].def = d.def
              \/ \E r \in Requests : Store(r) /\ req[r].kind = "group" /\ req[r].name = d.name
              \/ SetupStore /\ Entry.kind = "group" /\ Entry.name = d.name /\ <<d.name, d.def>> \in ever'["group"]
          BY <2>1, RowsEffect DEF Kinds
        <5> HIDE DEF d
        <5>2. d.name = g
          BY DEF d
        <5>3. ASSUME NEW r \in Requests, Store(r), req[r].kind = "group", req[r].name = g
              PROVE  Writing(r, "group", g)
          BY <5>3, <2>1, RequestType DEF Writing, Store, EquippedAt
        <5>4. SetupStore /\ Entry.name = g => UNCHANGED rows
          BY DEF SetupStore, Entry
        <5> QED
          BY <4>1, <5>1, <5>2, <5>3, <5>4 DEF NothingLeft, d
      <4>3. ASSUME NEW s \in Requests
            PROVE  ~Writing(s, "group", g)'
        BY <4>1, <2>1, RequestMoves DEF NothingLeft, Writing
      <4>4. ~SettingUp(g)'
        <5> SUFFICES ASSUME setup'.at = "cache", Configuration[setup'.step + 1].name = g
                     PROVE  FALSE
          BY DEF SettingUp
        <5>1. setup \in Setups
          BY <2>1 DEF TypeInv, SetupTyped
        <5>2. SetupStore => setup'.step = setup.step /\ Configuration[setup.step + 1].name \notin revoked'
          BY <5>1 DEF SetupStore, Setups
        <5>3. SetupStep \/ Restart => SetupStore
          BY <5>1 DEF SetupStep, Restart, SetupDefaultSystem, SetupCache, CreateDefaultUsers,
             CreateDefaultServiceAccounts, Setups
        <5>4. UNCHANGED setup => SettingUp(g)
          BY DEF SettingUp
        <5> QED
          BY <4>1, <2>1, <5>2, <5>3, <5>4, Writers DEF NothingLeft
      <4>5. ASSUME NEW s \in Requests, req'[s].at = "fill", req'[s].kind = "group",
                   NEW i \in DOMAIN req'[s].found
            PROVE  req'[s].found[i].name # g
        <5>1. CASE req'[s] = req[s]
          BY <5>1, <4>1, <4>5 DEF NothingLeft
        <5>2. CASE req'[s] # req[s]
          <6>1. req[s].kind = "group" /\ req'[s].found = Page("group") /\ "group" \in Kinds
            BY <5>2, <4>5, <2>1, RequestMoves DEF Kinds
          <6>2. PICK j \in DOMAIN rows["group"] : Page("group")[i] = rows["group"][j]
            BY <6>1, <4>5, <2>1, PageEffect DEF TypeInv
          <6> QED
            BY <6>1, <6>2, <4>1 DEF NothingLeft
        <5> QED
          BY <5>1, <5>2
      <4>6. g \notin DOMAIN cache'["group"]
        <5> SUFFICES ASSUME g \in DOMAIN cache'["group"] PROVE FALSE
          OBVIOUS
        <5>1. ASSUME NEW r \in Requests, CachePut(r), req[r].kind = "group", req[r].name = g
              PROVE  Writing(r, "group", g)
          BY <5>1, <2>1, RequestType DEF Writing, CachePut, EquippedAt
        <5>2. ASSUME NEW r \in Requests, SyncFill(r), req[r].kind = "group",
                     IsFound(req[r].found, g, cache'["group"][g])
              PROVE  FALSE
          BY <5>2, <4>1 DEF NothingLeft, SyncFill, IsFound
        <5>3. SetupCache /\ Entry.name = g => SettingUp(g)
          BY DEF SetupCache, SettingUp, Entry
        <5> QED
          BY <4>1, <2>1, <5>1, <5>2, <5>3, CacheEffect DEF NothingLeft, Kinds
      <4> QED
        BY <4>2, <4>3, <4>4, <4>5, <4>6 DEF NothingLeft
    <3>2. CASE g \notin revoked
      <4>1. PICK r \in Requests : Uncache(r) /\ g \in Gone(r)
        <5>1. \A r \in Requests : Begins(r) => revoked' \subseteq revoked
          BY DEF Begins, Begin, BeginDelete
        <5>2. SetupStore => revoked' \subseteq revoked
          BY DEF SetupStore
        <5>3. SetupStep => revoked' \subseteq revoked
          BY <5>2 DEF SetupStep, SetupDefaultSystem, SetupCache, CreateDefaultUsers,
                      CreateDefaultServiceAccounts
        <5> QED
          <6>1. \A r \in Requests : Uncache(r) => revoked' = revoked \cup Gone(r)
            BY DEF Uncache
          <6>2. (\E r \in Requests : Begins(r) \/ Uncache(r)) \/ UNCHANGED revoked \/ SetupStore
            BY <2>1, Writers
          <6> QED
            BY <3>2, <5>1, <5>2, <6>1, <6>2
      <4>2. /\ req[r].kind = "group" /\ req[r].name = g
            /\ Named("group", g) = {}
            /\ \A s \in Requests : ~Writing(s, "group", g)
            /\ ~SettingUp(g)
        BY <4>1 DEF Gone
      <4>3. UNCHANGED <<rows, setup>> /\ mu = "free" /\ Drop("group", g) /\ Fail(r)
        BY <4>1, <4>2 DEF Uncache
      <4>4. \A i \in DOMAIN rows'["group"] : rows'["group"][i].name # g
        BY <4>2, <4>3 DEF Named
      <4>5. DOMAIN req = Requests /\ \A s \in Requests : req'[s] = Idle \/ req'[s] = req[s]
        BY <4>3, <2>1 DEF Fail, TypeInv, ReqTyped
      <4>6. Idle.at = "idle" /\ Idle.op = "none"
        BY DEF Idle
      <4>7. \A s \in Requests : ~Writing(s, "group", g)'
        BY <4>2, <4>5, <4>6 DEF Writing
      <4>8. ~SettingUp(g)'
        BY <4>2, <4>3 DEF SettingUp
      <4>9. \A s \in Requests : req'[s].at # "fill"
        <5>1. \A s \in Requests : req[s].op # "sync"
          BY <4>3, <2>1, RequestsAssumption DEF TypeInv, Mutex
        <5>2. \A s \in Requests : req[s].at # "fill"
          BY <5>1, <2>1, RequestType DEF EquippedAt
        <5> QED
          BY <4>5, <4>6, <5>2
      <4>10. g \notin DOMAIN cache'["group"]
        BY <4>3, <2>1, DropEffect DEF TypeInv, Kinds
      <4> QED
        BY <4>4, <4>7, <4>8, <4>9, <4>10 DEF NothingLeft
    <3> QED
      BY <3>1, <3>2
  <2>2. TypeInv /\ Revoked /\ UNCHANGED vars => Revoked'
    BY DEF vars, Revoked, NothingLeft, Writing, SettingUp
  <2> QED
    BY <2>1, <2>2
<1>3. Revoked => RevokedStaysRevoked
  BY DEF Revoked, NothingLeft, RevokedStaysRevoked
<1> QED
  BY <1>1, <1>2, <1>3, TypesAreInductive, PTL DEF Spec

-----------------------------------------------------------------------------
(* Groups come with their roles *)

\* Each group of the configuration follows the roles it names.
RolesFirst ==
    \A i \in DOMAIN Configuration : Configuration[i].kind = "group" =>
        \A name \in Configuration[i].def :
            \E j \in 1..(i - 1) : Configuration[j].kind = "role" /\ Configuration[j].name = name

\* Rows have IDs, and a request that would delete a role looks for one without: it never gets
\* to the cache of the roles.
RolesStay ==
    /\ \A kind \in Kinds : NoId \notin Ids(kind)
    /\ \A r \in Requests :
         /\ req[r].op = "create" => req[r].id # NoId
         /\ req[r].at = "delete" /\ req[r].kind = "role" => req[r].id = NoId
         /\ req[r].at = "uncache" => req[r].kind = "group"
RolesInForce ==
    setup.at # "failed" =>
        \A i \in 1..setup.step :
            Configuration[i].kind = "role" => Configuration[i].name \in DOMAIN cache["role"]
NotBegun == setup.at = "off" => setup.step = 0
RolesInv == RolesStay /\ RolesInForce /\ NotBegun

\* A role stays in the cache for as long as the process lives.
LEMMA RolesStayIsInductive ==
    ASSUME TypeInv, RolesStay, Next
    PROVE  RolesStay'
<1>1. ASSUME NEW kind \in Kinds, NEW i \in DOMAIN rows'[kind]
      PROVE  rows'[kind][i].id # NoId
  <2>1. CASE UNCHANGED rows
    BY <2>1 DEF RolesStay, Ids
  <2>2. ASSUME NEW r \in Requests, Store(r), ~UNCHANGED rows
        PROVE  rows'[kind][i].id # NoId
    <3> DEFINE q == req[r]
    <3>1. q.kind \in Kinds /\ q.id \in RowIds /\ q.name \in Names /\ q.def \in Defs(q.kind)
      BY <2>2, RequestType DEF Store, EquippedAt
    <3>2. \/ q.op = "create" /\ Insert(q.kind, q.id, q.name, q.def)
          \/ q.id \in Ids(q.kind) /\ ReplaceRow(q.kind, q.id, q.name, q.def)
      BY <2>2 DEF Store
    <3>3. q.id # NoId
      BY <3>1, <3>2 DEF RolesStay
    <3>4. /\ \A k \in Kinds \ {q.kind} : rows'[k] = rows[k]
          /\ \A j \in DOMAIN rows'[q.kind] : rows'[q.kind][j].id \in Ids(q.kind) \cup {q.id}
      BY <3>1, <3>2, InsertEffect, ReplaceEffect DEF TypeInv
    <3>5. CASE kind = q.kind
      BY <3>1, <3>3, <3>4, <3>5 DEF RolesStay
    <3>6. CASE kind # q.kind
      BY <3>4, <3>6 DEF RolesStay, Ids
    <3> QED
      BY <3>5, <3>6
  <2>3. ASSUME SetupStore, ~UNCHANGED rows
        PROVE  rows'[kind][i].id # NoId
    <3>1. /\ Entry.kind \in Kinds /\ Entry.name \in Names /\ Entry.name \in RowIds
          /\ Entry.name # NoId /\ Entry.def \in Defs(Entry.kind)
      BY <2>3, EntryType
    <3>2. Insert(Entry.kind, Entry.name, Entry.name, Entry.def)
      BY <2>3 DEF SetupStore, Entry
    <3>3. /\ \A k \in Kinds \ {Entry.kind} : rows'[k] = rows[k]
          /\ \A j \in DOMAIN rows'[Entry.kind] :
               rows'[Entry.kind][j].id \in Ids(Entry.kind) \cup {Entry.name}
      BY <3>1, <3>2, InsertEffect DEF TypeInv
    <3>4. CASE kind = Entry.kind
      BY <3>1, <3>3, <3>4 DEF RolesStay
    <3>5. CASE kind # Entry.kind
      BY <3>3, <3>5 DEF RolesStay, Ids
    <3> QED
      BY <3>4, <3>5
  <2>4. ASSUME NEW r \in Requests, DeleteRow(r), ~UNCHANGED rows
        PROVE  rows'[kind][i].id # NoId
    <3> DEFINE k == req[r].kind
    <3>1. /\ k \in Kinds /\ req[r].id \in Ids(k)
          /\ rows' = [rows EXCEPT ![k] = Without(rows[k], req[r].id)]
      BY <2>4, RequestType DEF DeleteRow
    <3>2. rows[k] \in Seq(Row(k)) /\ DOMAIN rows = Kinds
      BY <3>1 DEF TypeInv, RowsTyped
    <3>3. \E j \in DOMAIN rows[k] : rows[k][j].id = req[r].id
      BY <3>1 DEF Ids
    <3> HIDE DEF k
    <3>4. \A j \in DOMAIN Without(rows[k], req[r].id) :
            \E l \in DOMAIN rows[k] : Without(rows[k], req[r].id)[j] = rows[k][l]
      BY <3>2, <3>3, WithoutAdds
    <3>5. CASE kind = k
      BY <3>1, <3>2, <3>4, <3>5 DEF RolesStay, Ids
    <3>6. CASE kind # k
      BY <3>1, <3>2, <3>6 DEF RolesStay, Ids
    <3> QED
      BY <3>5, <3>6
  <2> QED
    BY <2>1, <2>2, <2>3, <2>4, Writers
<1>2. ASSUME NEW s \in Requests
      PROVE  /\ req'[s].op = "create" => req'[s].id # NoId
             /\ req'[s].at = "delete" /\ req'[s].kind = "role" => req'[s].id = NoId
             /\ req'[s].at = "uncache" => req'[s].kind = "group"
  <2> DEFINE Good(q) == /\ q.op = "create" => q.id # NoId
                        /\ q.at = "delete" /\ q.kind = "role" => q.id = NoId
                        /\ q.at = "uncache" => q.kind = "group"
  <2>1. Good(req[s]) /\ Good(Idle)
    BY DEF RolesStay, Idle
  <2>2. /\ DOMAIN req = Requests
        /\ req[s].kind \in Kinds /\ req[s] \in Request(req[s].kind) /\ EquippedAt(req[s])
    BY DEF TypeInv, ReqTyped
  <2>3. ASSUME Begins(s)
        PROVE  Good(req'[s])
    <3>1. ASSUME NEW op, NEW kind, NEW id, NEW name, NEW def, op = "create" => id \in NewIds,
                 Begin(s, op, kind, id, name, def)
          PROVE  Good(req'[s])
      BY <2>2, <3>1, IdsAssumption DEF Begin, Idle
    <3>2. ASSUME NEW kind, NEW name, BeginDelete(s, kind, name)
          PROVE  Good(req'[s])
      BY <2>2, <3>2 DEF BeginDelete, Idle
    <3> QED
      BY <2>3, <3>1, <3>2 DEF Begins
  <2>4. ASSUME Store(s)
        PROVE  Good(req'[s])
    <3>1. req'[s] = Idle \/ req'[s] = [req[s] EXCEPT !.at = "cache"]
      BY <2>2, <2>4 DEF Store, Fail, Goto
    <3> QED
      BY <2>1, <2>2, <3>1 DEF Request
  <2>5. ASSUME GetRow(s)
        PROVE  Good(req'[s])
    <3>1. \/ req'[s] = Idle
          \/ req'[s] = [req[s] EXCEPT !.at = IF req[s].at = "get" THEN "find" ELSE "delete",
                                      !.id = ModelId(req[s].kind, req[s].name)]
      BY <2>2, <2>5 DEF GetRow, Fail
    <3>2. req[s].op = "delete"
      BY <2>2, <2>5 DEF GetRow, EquippedAt
    <3>3. req[s].kind = "role" => ModelId(req[s].kind, req[s].name) = NoId
      BY DEF ModelId
    <3> QED
      BY <2>1, <2>2, <3>1, <3>2, <3>3 DEF Request
  <2>6. ASSUME DeleteRow(s)
        PROVE  Good(req'[s])
    <3>1. \/ req'[s] = Idle
          \/ req'[s] = [req[s] EXCEPT !.at = "uncache"] /\ req[s].id \in Ids(req[s].kind)
      BY <2>2, <2>6 DEF DeleteRow, Fail, Goto
    <3>2. req[s].at = "delete" /\ req[s].op = "delete"
      BY <2>2, <2>6 DEF DeleteRow, EquippedAt
    <3>3. req[s].id \in Ids(req[s].kind) => req[s].kind = "group"
      BY <2>1, <2>2, <3>2 DEF RolesStay, Kinds
    <3> QED
      BY <2>1, <2>2, <3>1, <3>2, <3>3 DEF Request
  <2>7. ASSUME SyncCache(s)
        PROVE  Good(req'[s])
    BY <2>2, <2>7 DEF SyncCache, Idle
  <2>8. ASSUME SyncList(s) \/ SyncFill(s)
        PROVE  Good(req'[s])
    <3>1. req[s].op = "sync"
      BY <2>2, <2>8 DEF SyncList, SyncFill, EquippedAt
    <3> QED
      BY ZenonT(60), <2>1, <2>2, <2>8, <3>1 DEF SyncList, SyncFill, Fail, Request
  <2>9. CachePut(s) \/ Uncache(s) \/ Restart => req'[s] = Idle
    BY <2>2 DEF CachePut, Uncache, Fail, Restart
  <2>10. \A r \in Requests \ {s} : Begins(r) \/ Step(r) => req'[s] = req[s]
    BY <2>2, RequestStep
  <2>11. \/ req'[s] = req[s] \/ req'[s] = Idle \/ Begins(s) \/ Store(s) \/ GetRow(s) \/ DeleteRow(s)
         \/ SyncCache(s) \/ SyncList(s) \/ SyncFill(s)
    BY <2>9, <2>10, Writers DEF Step
  <2>12. Good(req'[s])
    <3> HIDE DEF Good
    <3> QED
      BY <2>1, <2>3, <2>4, <2>5, <2>6, <2>7, <2>8, <2>11
  <2> QED
    BY <2>12
<1> QED
  BY <1>1, <1>2 DEF RolesStay, Ids

\* The entries of two sequences of one after the other.
LEMMA ConcatEntries ==
    ASSUME NEW T, NEW s \in Seq(T), NEW t \in Seq(T)
    PROVE  /\ s \o t \in Seq(T) /\ Len(s \o t) = Len(s) + Len(t)
           /\ \A i \in 1..(Len(s) + Len(t)) :
                (s \o t)[i] = IF i <= Len(s) THEN s[i] ELSE t[i - Len(s)]
BY ConcatProperties

\* The configuration as it is written in the code, or any first part of it, does so.
LEMMA ConfigurationHasRolesFirst ==
    ASSUME \A k \in DOMAIN Setup : Setup[k] = k
    PROVE  RolesFirst
<1> DEFINE A == WorkerRoles \o ResourcePoolRoles
           B == A \o TaskRoles
           C == ResourceConfiguration
           D == IAMConfiguration
<1>1. /\ Len(ProjectConfiguration) = 5 /\ Len(WorkerRoles) = 4 /\ Len(ResourcePoolRoles) = 2
      /\ Len(TaskRoles) = 4 /\ Len(ResourceGroups) = 8
  BY DEF ProjectConfiguration, WorkerRoles, ResourcePoolRoles, TaskRoles, ResourceGroups
<1>3. PICK T : /\ \A e \in T : e.kind \in Kinds /\ e.name # NoId
               /\ ProjectConfiguration \in Seq(T) /\ WorkerRoles \in Seq(T)
               /\ ResourcePoolRoles \in Seq(T) /\ TaskRoles \in Seq(T) /\ ResourceGroups \in Seq(T)
  BY PartsAreSequences
<1>4. /\ A \in Seq(T) /\ Len(A) = 6
      /\ \A i \in 1..6 : A[i] = IF i <= 4 THEN WorkerRoles[i] ELSE ResourcePoolRoles[i - 4]
  <2>1. A = WorkerRoles \o ResourcePoolRoles
    OBVIOUS
  <2> HIDE DEF A, B, C, D
  <2>2. /\ WorkerRoles \o ResourcePoolRoles \in Seq(T)
        /\ Len(WorkerRoles \o ResourcePoolRoles) = Len(WorkerRoles) + Len(ResourcePoolRoles)
        /\ \A i \in 1..(Len(WorkerRoles) + Len(ResourcePoolRoles)) : (WorkerRoles \o ResourcePoolRoles)[i] =
             IF i <= Len(WorkerRoles) THEN WorkerRoles[i] ELSE ResourcePoolRoles[i - Len(WorkerRoles)]
    <3>1. WorkerRoles \in Seq(T) /\ ResourcePoolRoles \in Seq(T)
      BY <1>3
    <3> QED
      BY <3>1, ConcatEntries
  <2>3. Len(WorkerRoles) = 4 /\ Len(ResourcePoolRoles) = 2
    BY <1>1
  <2> QED
    BY <2>1, <2>2, <2>3
<1>5. /\ B \in Seq(T) /\ Len(B) = 10
      /\ \A i \in 1..10 : B[i] = IF i <= 6 THEN A[i] ELSE TaskRoles[i - 6]
  <2>1. B = A \o TaskRoles
    OBVIOUS
  <2> HIDE DEF A, B, C, D
  <2>2. /\ A \o TaskRoles \in Seq(T)
        /\ Len(A \o TaskRoles) = Len(A) + Len(TaskRoles)
        /\ \A i \in 1..(Len(A) + Len(TaskRoles)) : (A \o TaskRoles)[i] =
             IF i <= Len(A) THEN A[i] ELSE TaskRoles[i - Len(A)]
    <3>1. A \in Seq(T) /\ TaskRoles \in Seq(T)
      BY <1>3, <1>4
    <3> QED
      BY <3>1, ConcatEntries
  <2>3. Len(A) = 6 /\ Len(TaskRoles) = 4
    BY <1>1, <1>4
  <2> QED
    BY <2>1, <2>2, <2>3
<1>6. /\ C \in Seq(T) /\ Len(C) = 18
      /\ \A i \in 1..18 : C[i] = IF i <= 10 THEN B[i] ELSE ResourceGroups[i - 10]
  <2>1. C = B \o ResourceGroups
    BY DEF ResourceConfiguration
  <2> HIDE DEF A, B, C, D
  <2>2. /\ B \o ResourceGroups \in Seq(T)
        /\ Len(B \o ResourceGroups) = Len(B) + Len(ResourceGroups)
        /\ \A i \in 1..(Len(B) + Len(ResourceGroups)) : (B \o ResourceGroups)[i] =
             IF i <= Len(B) THEN B[i] ELSE ResourceGroups[i - Len(B)]
    <3>1. B \in Seq(T) /\ ResourceGroups \in Seq(T)
      BY <1>3, <1>5
    <3> QED
      BY <3>1, ConcatEntries
  <2>3. Len(B) = 10 /\ Len(ResourceGroups) = 8
    BY <1>1, <1>5
  <2>4. C \in Seq(T)
    BY <2>1, <2>2
  <2>5. Len(C) = 18
    BY <2>1, <2>2, <2>3
  <2>6. ASSUME NEW i \in 1..18
        PROVE  C[i] = IF i <= 10 THEN B[i] ELSE ResourceGroups[i - 10]
    <3>1. i \in 1..(Len(B) + Len(ResourceGroups))
      BY <2>3
    <3>2. (B \o ResourceGroups)[i] = IF i <= Len(B) THEN B[i] ELSE ResourceGroups[i - Len(B)]
      BY <2>2, <3>1, Zenon
    <3> QED
      BY <2>1, <2>3, <3>2
  <2> QED
    BY <2>4, <2>5, <2>6
<1>7. /\ D \in Seq(T) /\ Len(D) = 23
      /\ \A i \in 1..23 : D[i] = IF i <= 5 THEN ProjectConfiguration[i] ELSE C[i - 5]
  <2>1. D = ProjectConfiguration \o C
    BY DEF IAMConfiguration
  <2> HIDE DEF A, B, C, D
  <2>2. /\ ProjectConfiguration \o C \in Seq(T)
        /\ Len(ProjectConfiguration \o C) = Len(ProjectConfiguration) + Len(C)
        /\ \A i \in 1..(Len(ProjectConfiguration) + Len(C)) : (ProjectConfiguration \o C)[i] =
             IF i <= Len(ProjectConfiguration) THEN ProjectConfiguration[i] ELSE C[i - Len(ProjectConfiguration)]
    <3>1. ProjectConfiguration \in Seq(T) /\ C \in Seq(T)
      BY <1>3, <1>6
    <3> QED
      BY <3>1, ConcatEntries
  <2>3. Len(ProjectConfiguration) = 5 /\ Len(C) = 18
    BY <1>1, <1>6
  <2>4. D \in Seq(T)
    BY <2>1, <2>2
  <2>5. Len(D) = 23
    BY <2>1, <2>2, <2>3
  <2>6. ASSUME NEW i \in 1..23
        PROVE  D[i] = IF i <= 5 THEN ProjectConfiguration[i] ELSE C[i - 5]
    <3>1. i \in 1..(Len(ProjectConfiguration) + Len(C))
      BY <2>3
    <3>2. (ProjectConfiguration \o C)[i] = IF i <= Len(ProjectConfiguration) THEN ProjectConfiguration[i] ELSE C[i - Len(ProjectConfiguration)]
      BY <2>2, <3>1, Zenon
    <3> QED
      BY <2>1, <2>3, <3>2
  <2> QED
    BY <2>4, <2>5, <2>6
<1> HIDE DEF A, B, C, D
<1>8. /\ D[1] = ProjectConfiguration[1] /\ D[2] = ProjectConfiguration[2]
      /\ D[3] = ProjectConfiguration[3] /\ D[4] = ProjectConfiguration[4]
      /\ D[5] = ProjectConfiguration[5]
  BY <1>7
<1>9. /\ \A i \in 1..4 : D[5 + i] = WorkerRoles[i]
      /\ \A i \in 1..2 : D[9 + i] = ResourcePoolRoles[i]
      /\ \A i \in 1..4 : D[11 + i] = TaskRoles[i]
      /\ \A i \in 1..8 : D[15 + i] = ResourceGroups[i]
  <2>1. ASSUME NEW i \in 6..23 PROVE D[i] = C[i - 5]
    <3>1. i \in 1..23 /\ ~(i <= 5)
      OBVIOUS
    <3>2. D[i] = IF i <= 5 THEN ProjectConfiguration[i] ELSE C[i - 5]
      BY <1>7, <3>1, Zenon
    <3> QED
      BY <3>1, <3>2, Zenon
  <2>2. \A i \in 1..10 : D[5 + i] = B[i]
    <3> SUFFICES ASSUME NEW i \in 1..10 PROVE D[5 + i] = B[i]
      OBVIOUS
    <3>1. 5 + i \in 6..23 /\ (5 + i) - 5 = i /\ i \in 1..18 /\ i <= 10
      OBVIOUS
    <3>2. D[5 + i] = C[i]
      BY <2>1, <3>1
    <3>3. C[i] = B[i]
      BY <1>6, <3>1
    <3> QED
      BY <3>2, <3>3
  <2>3. \A i \in 1..6 : D[5 + i] = A[i]
    <3> SUFFICES ASSUME NEW i \in 1..6 PROVE D[5 + i] = A[i]
      OBVIOUS
    <3>1. i \in 1..10 /\ i <= 6
      OBVIOUS
    <3> QED
      BY <2>2, <3>1, <1>5
  <2>4. \A i \in 1..4 : D[5 + i] = WorkerRoles[i]
    <3> SUFFICES ASSUME NEW i \in 1..4 PROVE D[5 + i] = WorkerRoles[i]
      OBVIOUS
    <3>1. i \in 1..6 /\ i <= 4
      OBVIOUS
    <3> QED
      BY <2>3, <3>1, <1>4
  <2>5. \A i \in 1..2 : D[9 + i] = ResourcePoolRoles[i]
    <3> SUFFICES ASSUME NEW i \in 1..2 PROVE D[9 + i] = ResourcePoolRoles[i]
      OBVIOUS
    <3>1. 4 + i \in 1..6 /\ ~(4 + i <= 4) /\ (4 + i) - 4 = i /\ 5 + (4 + i) = 9 + i
      OBVIOUS
    <3>2. D[9 + i] = A[4 + i]
      BY <2>3, <3>1
    <3> QED
      BY <3>1, <3>2, <1>4
  <2>6. \A i \in 1..4 : D[11 + i] = TaskRoles[i]
    <3> SUFFICES ASSUME NEW i \in 1..4 PROVE D[11 + i] = TaskRoles[i]
      OBVIOUS
    <3>1. 6 + i \in 1..10 /\ ~(6 + i <= 6) /\ (6 + i) - 6 = i /\ 5 + (6 + i) = 11 + i
      OBVIOUS
    <3>2. D[11 + i] = B[6 + i]
      BY <2>2, <3>1
    <3> QED
      BY <3>1, <3>2, <1>5
  <2>7. \A i \in 1..8 : D[15 + i] = ResourceGroups[i]
    <3> SUFFICES ASSUME NEW i \in 1..8 PROVE D[15 + i] = ResourceGroups[i]
      OBVIOUS
    <3>1. /\ 15 + i \in 6..23 /\ (15 + i) - 5 = 10 + i
          /\ 10 + i \in 1..18 /\ ~(10 + i <= 10) /\ (10 + i) - 10 = i
      OBVIOUS
    <3>2. D[15 + i] = C[10 + i]
      BY <2>1, <3>1
    <3> QED
      BY <3>1, <3>2, <1>6
  <2> QED
    BY <2>4, <2>5, <2>6, <2>7
<1> DEFINE Follows(i) ==
             D[i].kind = "group" => \A name \in D[i].def :
                 \E j \in 1..(i - 1) : D[j].kind = "role" /\ D[j].name = name
<1>10. \A i \in 1..3 : D[i].kind = "role"
  BY <1>8 DEF ProjectConfiguration, RoleEntry
<1>11. \A i \in 6..15 : D[i].kind = "role"
  <2>1. /\ \A i \in 1..4 : D[5 + i].kind = "role"
        /\ \A i \in 1..2 : D[9 + i].kind = "role"
        /\ \A i \in 1..4 : D[11 + i].kind = "role"
    BY <1>9 DEF WorkerRoles, ResourcePoolRoles, TaskRoles, RoleEntry
  <2> QED
    BY <2>1
<1>12. Follows(4) /\ Follows(5)
  <2>1. D[4].def = {"Admin"} /\ D[5].def = {"ProjectEditor"}
    BY <1>8 DEF ProjectConfiguration, GroupEntry
  <2>2. D[1].name = "Admin" /\ D[3].name = "ProjectEditor"
    BY <1>8 DEF ProjectConfiguration, RoleEntry
  <2> QED
    BY <1>10, <2>1, <2>2
<1>13. ASSUME NEW i \in 1..8
       PROVE  \E j \in 6..15 : \A name \in D[15 + i].def : D[j].name = name
  <2>1. /\ D[6].name = "WorkerAdmin" /\ D[7].name = "WorkerCreator" /\ D[8].name = "WorkerOperator"
        /\ D[10].name = "ResourcePoolAdmin" /\ D[11].name = "ResourcePoolUser"
        /\ D[12].name = "TaskAdmin" /\ D[13].name = "TaskCreator" /\ D[14].name = "TaskExecutor"
    <3>1. /\ D[6] = WorkerRoles[1] /\ D[7] = WorkerRoles[2] /\ D[8] = WorkerRoles[3]
          /\ D[10] = ResourcePoolRoles[1] /\ D[11] = ResourcePoolRoles[2]
          /\ D[12] = TaskRoles[1] /\ D[13] = TaskRoles[2] /\ D[14] = TaskRoles[3]
      BY <1>9
    <3> QED
      BY <3>1 DEF WorkerRoles, ResourcePoolRoles, TaskRoles, RoleEntry
  <2>2. D[15 + i].def \in {{"WorkerAdmin"}, {"WorkerCreator"}, {"WorkerOperator"},
                           {"ResourcePoolAdmin"}, {"ResourcePoolUser"},
                           {"TaskAdmin"}, {"TaskCreator"}, {"TaskExecutor"}}
    BY <1>9 DEF ResourceGroups, GroupEntry
  <2> QED
    BY <2>1, <2>2
<1>14. \A i \in 16..23 : Follows(i)
  <2> SUFFICES ASSUME NEW i \in 16..23, NEW name \in D[i].def
               PROVE  \E j \in 1..(i - 1) : D[j].kind = "role" /\ D[j].name = name
    OBVIOUS
  <2>1. i - 15 \in 1..8 /\ 15 + (i - 15) = i
    OBVIOUS
  <2>2. PICK j \in 6..15 : \A n \in D[15 + (i - 15)].def : D[j].name = n
    BY <2>1, <1>13
  <2> QED
    BY <2>1, <2>2, <1>11
<1>15. \A i \in 1..23 : Follows(i)
  BY <1>10, <1>11, <1>12, <1>14
<1>16. \A i \in DOMAIN Configuration : Configuration[i] = D[i] /\ i \in 1..23
  BY <1>7, SetupAssumption DEF Configuration, D
<1>17. ASSUME NEW i \in DOMAIN Configuration, NEW j \in 1..(i - 1)
       PROVE  j \in DOMAIN Configuration
  BY ConfigurationType
<1> QED
  BY <1>15, <1>16, <1>17 DEF RolesFirst

\* When the configuration puts roles before the groups that name them, a group that the set-up
\* has put in force has its roles in force as well, however far the set-up got.
THEOREM GroupsHaveTheirRoles == RolesFirst => (Spec => []GroupsComeWithRoles)
<1> SUFFICES ASSUME RolesFirst PROVE Spec => []GroupsComeWithRoles
  OBVIOUS
<1>1. Init => RolesInv
  <2> SUFFICES ASSUME Init PROVE RolesInv
    OBVIOUS
  <2>1. \A kind \in Kinds : Ids(kind) = {}
    BY DEF Init, Ids
  <2>2. \A r \in Requests : req[r].op = "none" /\ req[r].at = "idle"
    BY DEF Init, Idle
  <2>3. setup.step = 0
    BY DEF Init, NoSetup
  <2>4. RolesStay
    BY <2>1, <2>2 DEF RolesStay
  <2>5. RolesInForce /\ NotBegun
    BY <2>3 DEF RolesInForce, NotBegun
  <2> QED
    BY <2>4, <2>5 DEF RolesInv
<1>2. TypeInv /\ RolesInv /\ [Next]_vars => RolesInv'
  <2>1. ASSUME TypeInv, RolesInv, Next
        PROVE  RolesInv'
    <3>1. RolesStay'
      BY <2>1, RolesStayIsInductive DEF RolesInv
    <3>2. RolesInForce'
      <4> SUFFICES ASSUME setup'.at # "failed", NEW i \in 1..setup'.step,
                          Configuration[i].kind = "role"
                   PROVE  Configuration[i].name \in DOMAIN cache'["role"]
        BY DEF RolesInForce
      <4> DEFINE name == Configuration[i].name
      <4>1. setup \in Setups /\ (setup.at = "cache" => setup.step < Len(Configuration))
        BY <2>1 DEF TypeInv, SetupTyped
      <4>2. CASE Restart
        <5>1. setup.at = "off" /\ setup'.step = setup.step
          BY <4>1, <4>2 DEF Restart, Setups
        <5>2. setup'.step = 0
          BY <5>1, <2>1 DEF RolesInv, NotBegun
        <5> QED
          BY <5>2
      <4>3. CASE i \in 1..setup.step /\ setup.at # "failed" /\ ~Restart
        <5>1. name \in DOMAIN cache["role"] /\ "role" \in Kinds
          BY <4>3, <2>1 DEF RolesInv, RolesInForce, Kinds
        <5>2. \A r \in Requests : Uncache(r) => req[r].kind # "role"
          BY <2>1 DEF RolesInv, RolesStay, Uncache
        <5> QED
          BY <4>3, <5>1, <5>2, <2>1, CacheEffect
      <4>4. CASE SetupCache /\ i \notin 1..setup.step
        <5>1. setup' = [at |-> "store", step |-> setup.step + 1] /\ setup.step \in Nat
          <6>1. setup' = [setup EXCEPT !.at = "store", !.step = @ + 1]
            BY <4>4 DEF SetupCache
          <6>2. setup.step \in Nat
            BY <4>1, ConfigurationType DEF Setups
          <6> QED
            BY <6>1, <6>2, <4>1 DEF Setups
        <5>2. i = setup.step + 1
          BY <4>4, <5>1
        <5>3. Put(Entry.kind, Entry.name, Entry.def) /\ Entry = Configuration[i]
          BY <4>4, <5>2 DEF SetupCache, Entry
        <5>4. Put("role", name, Entry.def) /\ CacheTyped /\ "role" \in Kinds
          BY <5>3, <2>1 DEF TypeInv, Kinds
        <5> HIDE DEF name
        <5>5. DOMAIN cache'["role"] = DOMAIN cache["role"] \cup {name}
          BY <5>4, PutEffect
        <5> QED
          BY <5>5 DEF name
      <4>5. ASSUME SetupStep, ~SetupCache
            PROVE  setup'.step = setup.step /\ setup.at # "failed"
        BY <4>1, <4>5 DEF SetupStep, SetupDefaultSystem, SetupStore, CreateDefaultUsers,
                          CreateDefaultServiceAccounts, Setups
      <4>6. SetupCache => setup.at # "failed"
        BY DEF SetupCache
      <4> QED
        BY <2>1, <4>2, <4>3, <4>4, <4>5, <4>6, Writers
    <3>3. NotBegun'
      <4>1. setup \in Setups /\ NotBegun
        BY <2>1 DEF TypeInv, SetupTyped, RolesInv
      <4>2. SetupStep => setup'.at # "off"
        BY <4>1 DEF SetupStep, SetupDefaultSystem, SetupStore, SetupCache, CreateDefaultUsers,
                    CreateDefaultServiceAccounts, Setups
      <4>3. Restart /\ setup'.at = "off" => setup.at = "off" /\ setup'.step = setup.step
        BY <4>1 DEF Restart, Setups
      <4> QED
        BY <2>1, <4>1, <4>2, <4>3, Writers DEF NotBegun
    <3> QED
      BY <3>1, <3>2, <3>3 DEF RolesInv
  <2>2. TypeInv /\ RolesInv /\ UNCHANGED vars => RolesInv'
    BY DEF vars, RolesInv, RolesStay, RolesInForce, NotBegun, Ids
  <2> QED
    BY <2>1, <2>2
<1>3. TypeInv /\ RolesInv => GroupsComeWithRoles
  <2> SUFFICES ASSUME TypeInv, RolesInv, setup.at # "failed", NEW i \in 1..setup.step,
                      Configuration[i].kind = "group", NEW name \in Configuration[i].def
               PROVE  name \in DOMAIN cache["role"]
    BY DEF GroupsComeWithRoles
  <2>1. i \in DOMAIN Configuration /\ setup.step \in Nat
    BY ConfigurationType DEF TypeInv, SetupTyped, Setups
  <2>2. PICK j \in 1..(i - 1) : Configuration[j].kind = "role" /\ Configuration[j].name = name
    BY <2>1 DEF RolesFirst
  <2>3. j \in 1..setup.step
    BY <2>1
  <2> QED
    BY <2>2, <2>3 DEF RolesInv, RolesInForce
<1> QED
  BY <1>1, <1>2, <1>3, TypesAreInductive, PTL DEF Spec

=============================================================================
