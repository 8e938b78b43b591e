---------------------------- MODULE Definitions ----------------------------
(***************************************************************************)
(* The tasks and the worker definitions: the two services, the HTTP        *)
(* handlers in front of them, the generic repository behind them and the   *)
(* documents it stores.                                                    *)
(*                                                                         *)
(* A handler holds no lock: what a service reads with one call of the      *)
(* repository it writes back, or acts upon, with another, and the calls of *)
(* several clients interleave there.  Each call of the repository is one   *)
(* step, except InsertMany and DeleteMany, which go row by row, and        *)
(* FindByCriteria, which counts first and reads the page afterwards.  A    *)
(* write that fails may have had its effect all the same, which the error  *)
(* does not tell: it is the answer "unsure" here.                          *)
(*                                                                         *)
(* An entity is abstracted to its name, the type of worker, the state of   *)
(* its status, and when it was created: the number of the call that set    *)
(* CreatedAt to the time it ran at, or 0, a time the client chose.         *)
(***************************************************************************)
EXTENDS Integers, Sequences, FiniteSets, SequencesExt, FiniteSetsExt

CONSTANTS MaxCalls,   \* bound: the calls, numbered as they arrive
          Ops,        \* the operations each call may be of
          Ids,        \* _id of the rows, numbers: they are sorted
          Names,      \* metadata.name, numbers too; many rows may have one, a batch's 1
          Start,      \* the rows of each collection a run starts with
          Sizes,      \* the page sizes clients ask for; 0 for none
          DefaultSize \* defaultPageSize (10 in the code)

Collections == {"tasks", "workers"}

ASSUME DefinitionsAssumption ==
    /\ MaxCalls \in Nat
    /\ Ids \subseteq Nat /\ IsFiniteSet(Ids)
    /\ Names \subseteq Nat \ {0} /\ 1 \in Names
    /\ Sizes \subseteq Nat
    /\ DefaultSize \in Nat \ {0}

VARIABLES rows,   \* the two collections of documents
          taken,  \* worker ids the generator gave out, or rows have had
          version,\* how often each collection was written: of the model, not of the code
          call    \* what each call holds and was answered

definitionsVars == <<rows, taken, version, call>>

Calls == 1..MaxCalls
NoDocument == [name |-> 0, state |-> "none", created |-> 0]
States == {"none", "UNKNOWN", "PENDING", "RUNNING"}
Documents == [name : Names, state : States, created : Calls \cup {0}]

ASSUME StartAssumption ==
    /\ Start \in [Collections -> [Ids -> Documents \cup {NoDocument}]]
    /\ \A i \in Ids : Start["tasks"][i].state = "none"

Present(coll) == {i \in Ids : rows[coll][i] # NoDocument}

WorkerTypes == {"docker", "kubernetes", "vm"}
Entities == [name : Names \cup {0}, type : WorkerTypes \cup {""},
             state : States, created : Calls \cup {0}]
NoEntity == [name |-> 0, type |-> "", state |-> "none", created |-> 0]

IdleCall == [op |-> "none", coll |-> "tasks", pc |-> "idle", id |-> 0,
             entity |-> NoEntity, answer |-> "none", left |-> <<>>, batch |-> 1,
             removed |-> 0, list |-> <<>>]

DefinitionsInit ==
    /\ rows = Start
    /\ taken = {i \in Ids : Start["workers"][i] # NoDocument}
    /\ version = [coll \in Collections |-> 0]
    /\ call = [c \in Calls |-> IdleCall]

-----------------------------------------------------------------------------
(* Documents.                                                              *)

(* The document of a worker definition has no field for the type, so that  *)
(* a definition read from the database has none, and the factory of worker *)
(* instances refuses it.  A task has neither a type nor a status.          *)
WorkerToDocument(e) == [name |-> e.name, state |-> e.state, created |-> e.created]
WorkerToModel(d) == [name |-> d.name, type |-> "", state |-> d.state, created |-> d.created]

TaskToDocument(e) == [NoDocument EXCEPT !.name = e.name, !.created = e.created]
TaskToModel(d) == [NoEntity EXCEPT !.name = d.name, !.created = d.created]

ToDocument(coll, e) == IF coll = "tasks" THEN TaskToDocument(e) ELSE WorkerToDocument(e)

Create(worker) == worker.type \in {"docker", "kubernetes"}

(* The path in the documents of the field a client sorts by.               *)
TaskSortField(field) ==
    CASE field = "name"      -> "metadata.name"
      [] field = "workerID"  -> "spec.worker_id"
      [] field = "createdAt" -> "created_at"
      [] field = "updatedAt" -> "updated_at"
      [] OTHER               -> "_id"

WorkerSortField(field) ==
    CASE field = "name"      -> "metadata.name"
      [] field = "type"      -> "spec.type"
      [] field = "status"    -> "status.status"
      [] field = "createdAt" -> "created_at"
      [] field = "updatedAt" -> "updated_at"
      [] OTHER               -> "_id"

MapSortField(coll, field) ==
    IF coll = "tasks" THEN TaskSortField(field) ELSE WorkerSortField(field)

(* What a row has there.  No document has a path that is not named here,   *)
(* or it is the same in all (spec.worker_id): then all rows are equal, and *)
(* come in any order.                                                      *)
Field(coll, id, path) ==
    CASE path = "_id"           -> id
      [] path = "metadata.name" -> rows[coll][id].name
      [] OTHER                  -> 0

(* Whether a worker passes a filter (the only caller with one asks for a   *)
(* name): unknown filters are ignored, and one on a path that no document  *)
(* has matches nothing.                                                    *)
WorkerFilter(filter, d) ==
    CASE filter.by \in {"name", "nameContains"}  -> d.name = filter.value
      [] filter.by \in {"type", "image", "status", "owner", "tenantId", "templateId"} -> FALSE
      [] OTHER                                   -> TRUE

-----------------------------------------------------------------------------
(* The repository.                                                         *)

Store(coll, id, d) ==
    /\ rows' = [rows EXCEPT ![coll][id] = d]
    /\ version' = [version EXCEPT ![coll] = @ + 1]

Unchanged == UNCHANGED <<rows, version>>

Answer(c, answer) == call' = [call EXCEPT ![c] =
    [IdleCall EXCEPT !.op = call[c].op, !.coll = call[c].coll, !.pc = "done",
                     !.answer = answer, !.batch = call[c].batch]]

(* Save: InsertOne refuses an _id that is there.                           *)
Save(coll, id, entity) ==
    /\ rows[coll][id] = NoDocument
    /\ Store(coll, id, ToDocument(coll, entity))

(* Update: ReplaceOne, no upsert.                                          *)
Update(coll, id, entity) ==
    /\ rows[coll][id] # NoDocument
    /\ Store(coll, id, ToDocument(coll, entity))

(* Delete: an error when nothing was deleted.                              *)
Delete(coll, id) ==
    /\ rows[coll][id] # NoDocument
    /\ Store(coll, id, NoDocument)

(* buildFindOptions: the order of the rows, which leaves equals in any     *)
(* order, and the rows of one page of it.                                  *)
Sorted(coll, ids, sortBy, desc) ==
    LET key(i) == Field(coll, i, MapSortField(coll, sortBy))
    IN  {order \in SetToSeqs(ids) :
            \A j, k \in DOMAIN order : j < k =>
                IF desc THEN key(order[j]) >= key(order[k])
                        ELSE key(order[j]) <= key(order[k])}

PageSize(size) == IF size = 0 THEN DefaultSize ELSE size
Skip(page, size) == (page - 1) * PageSize(size)

Page(order, page, size) ==
    SubSeq(order, Skip(page, size) + 1, Min({Skip(page, size) + PageSize(size), Len(order)}))

TotalPages(total, size) ==
    total \div PageSize(size) + (IF total % PageSize(size) # 0 THEN 1 ELSE 0)

-----------------------------------------------------------------------------
(* Calls.                                                                  *)

Creations == {"createTask", "createWorker"}
Removals  == {"deleteTask", "deleteWorker"}

Begin(c, op) ==
    /\ call[c].pc = "idle"
    /\ op \in Ops[c]
    /\ \A d \in 1..(c - 1) : call[d].pc # "idle"

Started(c, op, coll, pc) == [IdleCall EXCEPT !.op = op, !.coll = coll, !.pc = pc]

Ended(c, op, coll, answer) ==
    call' = [call EXCEPT ![c] = [Started(c, op, coll, "done") EXCEPT !.answer = answer]]

(* A call the validation of the handler or of the service refuses, and one *)
(* whose first access to the database fails, without effect.               *)
Refuse(c, op) ==
    /\ Begin(c, op)
    /\ \E answer \in {"refused", "error"} : Ended(c, op, "tasks", answer)
    /\ Unchanged
    /\ UNCHANGED taken

(* CreateTask: the id is the client's, and so may be the time.             *)
CreateTask(c, id, name, created) ==
    /\ Begin(c, "createTask")
    /\ \/ /\ Save("tasks", id, [NoEntity EXCEPT !.name = name, !.created = created])
          /\ \E answer \in {"created", "unsure"} : Ended(c, "createTask", "tasks", answer)
       \/ /\ rows["tasks"][id] # NoDocument
          /\ Ended(c, "createTask", "tasks", "error")
          /\ Unchanged
    /\ UNCHANGED taken

Pending(state) == IF state = "UNKNOWN" THEN "PENDING" ELSE state

(* CreateWorkerDefinition: whatever id the client gave is replaced.        *)
CreateWorkerDefinition(c, id, name, state) ==
    /\ Begin(c, "createWorker")
    /\ id \in Ids \ taken
    /\ taken' = taken \cup {id}
    /\ Save("workers", id, [name |-> name, type |-> "docker", state |-> Pending(state),
                            created |-> c])
    /\ \E answer \in {"created", "unsure"} : Ended(c, "createWorker", "workers", answer)

(* The first half of an update: FindByID.                                  *)
FindByID(c, op, coll, id, entity) ==
    /\ Begin(c, op)
    /\ IF rows[coll][id] = NoDocument
       THEN Ended(c, op, coll, "missing")
       ELSE call' = [call EXCEPT ![c] = [Started(c, op, coll, "write") EXCEPT
                !.id = id, !.entity = entity]]
    /\ Unchanged
    /\ UNCHANGED taken

(* Mutant: the update keeps the time the client sent.                      *)
UpdateTaskGivenTime(c, id, name) ==
    FindByID(c, "updateTask", "tasks", id, [NoEntity EXCEPT !.name = name])

UpdateTask(c, id, name) ==
    FindByID(c, "updateTask", "tasks", id,
        [TaskToModel(rows["tasks"][id]) EXCEPT !.name = name])

UpdateWorkerDefinition(c, id, name, state) ==
    FindByID(c, "updateWorker", "workers", id,
        [name |-> name, type |-> "docker", state |-> state,
         created |-> rows["workers"][id].created])

(* UpdateWorkerStatus writes back all of what it read.                     *)
UpdateWorkerStatus(c, id, state) ==
    FindByID(c, "updateStatus", "workers", id,
        [WorkerToModel(rows["workers"][id]) EXCEPT !.state = state])

(* The second half of an update.                                           *)
Write(c) ==
    /\ call[c].pc = "write"
    /\ \/ /\ Update(call[c].coll, call[c].id, call[c].entity)
          /\ \E answer \in {"updated", "unsure"} : Answer(c, answer)
       \/ /\ rows[call[c].coll][call[c].id] = NoDocument
          /\ Answer(c, "missing")
          /\ Unchanged
       \/ Answer(c, "unsure") /\ Unchanged
    /\ UNCHANGED taken

(* DeleteTask and DeleteWorkerDefinition: Exists, and then Delete.         *)
DeleteById(c, op, coll, id) ==
    /\ Begin(c, op)
    /\ IF rows[coll][id] = NoDocument
       THEN Ended(c, op, coll, "missing")
       ELSE call' = [call EXCEPT ![c] = [Started(c, op, coll, "remove") EXCEPT !.id = id]]
    /\ Unchanged
    /\ UNCHANGED taken

DeleteTask(c, id) == DeleteById(c, "deleteTask", "tasks", id)
DeleteWorkerDefinition(c, id) == DeleteById(c, "deleteWorker", "workers", id)

(* Mutant: the count of what was deleted is not looked at.                 *)
FinishDeleteUncounted(c) ==
    /\ call[c].pc = "remove"
    /\ Answer(c, "deleted")
    /\ Store(call[c].coll, call[c].id, NoDocument)
    /\ UNCHANGED taken

FinishDelete(c) ==
    /\ call[c].pc = "remove"
    /\ \/ /\ Delete(call[c].coll, call[c].id)
          /\ \E answer \in {"deleted", "unsure"} : Answer(c, answer)
       \/ /\ rows[call[c].coll][call[c].id] = NoDocument
          /\ Answer(c, "missing")
          /\ Unchanged
       \/ Answer(c, "unsure") /\ Unchanged
    /\ UNCHANGED taken

(* CreateWorkersBatch: an empty id gets a new one; InsertMany inserts in   *)
(* order up to the first that is refused, or until it fails, and what it   *)
(* inserted stays.                                                         *)
CreateWorkersBatch(c, ids) ==
    /\ Begin(c, "createBatch")
    /\ taken' = taken \cup Range(ids)
    /\ call' = [call EXCEPT ![c] = [Started(c, "createBatch", "workers", "insert") EXCEPT
                    !.left = ids, !.batch = Len(ids)]]
    /\ Unchanged

InsertNext(c) ==
    /\ call[c].pc = "insert"
    /\ \/ call[c].left = <<>> /\ Answer(c, "created") /\ Unchanged
       \/ /\ call[c].left # <<>>
          /\ Save("workers", Head(call[c].left), [name |-> 1, type |-> "docker", created |-> c,
                                                  state |-> Pending("UNKNOWN")])
          /\ call' = [call EXCEPT ![c].left = Tail(@)]
       \/ Answer(c, "partial") /\ Unchanged   \* one was there already, or the database failed
    /\ UNCHANGED taken

(* DeleteWorkersBatch: DeleteMany deletes what it finds, and the answer is *)
(* an error if that were not all, or if it failed on the way, though those *)
(* it found are gone.                                                      *)
DeleteWorkersBatch(c, ids) ==
    /\ Begin(c, "deleteBatch")
    /\ call' = [call EXCEPT ![c] = [Started(c, "deleteBatch", "workers", "sweep") EXCEPT
                    !.left = ids, !.batch = Len(ids)]]
    /\ Unchanged
    /\ UNCHANGED taken

SweepNext(c) ==
    /\ call[c].pc = "sweep"
    /\ \/ /\ call[c].left = <<>> /\ call[c].removed = call[c].batch
          /\ Answer(c, "deleted")
          /\ Unchanged
       \/ Answer(c, "partial") /\ Unchanged   \* not all were found, or the database failed
       \/ /\ call[c].left # <<>>
          /\ Delete("workers", Head(call[c].left))
          /\ call' = [call EXCEPT ![c].left = Tail(@), ![c].removed = @ + 1]
       \/ /\ call[c].left # <<>> /\ rows["workers"][Head(call[c].left)] = NoDocument
          /\ call' = [call EXCEPT ![c].left = Tail(@)]
          /\ Unchanged
    /\ UNCHANGED taken

(* FindWorkerDefinitionByName, with which HodeiApp chooses the worker of a *)
(* task, and GetTask: of the rows with that name, the first by _id.        *)
FindWorkerDefinitionByName(c, name) ==
    /\ Begin(c, "findByName")
    /\ LET found == {i \in Present("workers") :
                        WorkerFilter([by |-> "name", value |-> name], rows["workers"][i])}
       IN  Ended(c, "findByName", "workers",
               IF found = {} THEN "missing"
               ELSE IF Create(WorkerToModel(rows["workers"][Min(found)])) THEN "usable"
               ELSE "unusable")
    /\ Unchanged
    /\ UNCHANGED taken

(* A client that lists a collection: it asks for a page, and for the next  *)
(* one as long as the answer says HasNext.                                 *)
List(c, coll, sortBy, desc, size) ==
    /\ Begin(c, "list")
    /\ call' = [call EXCEPT ![c] = [Started(c, "list", coll, "count") EXCEPT
           !.list = [sortBy |-> sortBy, desc |-> desc, size |-> size, page |-> 1,
                     total |-> 0, seen |-> <<>>, from |-> version[coll]]]]
    /\ Unchanged
    /\ UNCHANGED taken

Count(c) ==
    /\ call[c].pc = "count"
    /\ call' = [call EXCEPT ![c].pc = "find",
                            ![c].list.total = Cardinality(Present(call[c].coll))]
    /\ Unchanged
    /\ UNCHANGED taken

(* Mutant: the number of pages is rounded down.                            *)
FindRoundsDown(c) ==
    /\ call[c].pc = "find"
    /\ LET l == call[c].list
       IN  \E order \in Sorted(call[c].coll, Present(call[c].coll), l.sortBy, l.desc) :
             call' = [call EXCEPT
                 ![c].list.seen = @ \o Page(order, l.page, l.size),
                 ![c].list.page = @ + 1,
                 ![c].pc = IF l.page < l.total \div PageSize(l.size) THEN "count" ELSE "done"]
    /\ Unchanged
    /\ UNCHANGED taken

Find(c) ==
    /\ call[c].pc = "find"
    /\ LET l == call[c].list
       IN  \E order \in Sorted(call[c].coll, Present(call[c].coll), l.sortBy, l.desc) :
             call' = [call EXCEPT
                 ![c].list.seen = @ \o Page(order, l.page, l.size),
                 ![c].list.page = @ + 1,
                 ![c].pc = IF l.page < TotalPages(l.total, l.size) THEN "count" ELSE "done"]
    /\ Unchanged
    /\ UNCHANGED taken

-----------------------------------------------------------------------------
Tasks(c) ==
    \/ \E id \in Ids, name \in Names : \/ \E created \in {0, c} : CreateTask(c, id, name, created)
                                       \/ UpdateTask(c, id, name)
    \/ \E id \in Ids : DeleteTask(c, id)

Workers(c) ==
    \/ \E id \in Ids, name \in Names :
          \/ CreateWorkerDefinition(c, id, name, "UNKNOWN")
          \/ UpdateWorkerDefinition(c, id, name, "UNKNOWN")
    \/ \E id \in Ids : UpdateWorkerStatus(c, id, "RUNNING") \/ DeleteWorkerDefinition(c, id)
    \/ \E i, j \in Ids : i # j /\ (CreateWorkersBatch(c, <<i, j>>) \/ DeleteWorkersBatch(c, <<i, j>>))
    \/ \E name \in Names : FindWorkerDefinitionByName(c, name)

Lists(c) ==
    \E coll \in Collections, sortBy \in {"name", "createdAt", "id"}, desc \in BOOLEAN,
       size \in Sizes : List(c, coll, sortBy, desc, size)

DefinitionsNext == \E c \in Calls :
    \/ \E op \in Ops[c] : Refuse(c, op)
    \/ Tasks(c) \/ Workers(c) \/ Lists(c)
    \/ Write(c) \/ FinishDelete(c) \/ InsertNext(c) \/ SweepNext(c) \/ Count(c) \/ Find(c)

DefinitionsSpec == DefinitionsInit /\ [][DefinitionsNext]_definitionsVars

-----------------------------------------------------------------------------
(* Properties.                                                             *)

DefinitionsTypeOK ==
    /\ \A coll \in Collections, i \in Ids : rows[coll][i] \in Documents \cup {NoDocument}
    /\ taken \subseteq Ids
    /\ version \in [Collections -> Nat]
    /\ \A c \in Calls :
          /\ call[c].op \in Ops[c] \cup {"none"}
          /\ call[c].coll \in Collections
          /\ call[c].pc \in {"idle", "write", "remove", "insert", "sweep", "count", "find",
                             "done"}
          /\ call[c].entity \in Entities
          /\ call[c].answer \in {"none", "refused", "error", "missing", "created", "updated",
                                 "deleted", "partial", "unsure", "usable", "unusable"}
          /\ call[c].left \in Seq(Ids)

(* A client that walks the pages of a collection while nobody writes to it *)
(* sees every row once and none twice, in either direction and whatever    *)
(* the page size, if the rows differ in the field it sorts by.  (Otherwise *)
(* each page is cut from an order of its own; read_repository.go:140,      *)
(* :174, :182.)                                                            *)
Ordered(coll, sortBy) ==
    \A i, j \in Present(coll) : i # j =>
        LET path == MapSortField(coll, sortBy)
        IN  Field(coll, i, path) # Field(coll, j, path)

WalkIsComplete ==
    \A c \in Calls :
        /\ call[c].op = "list" /\ call[c].list # <<>> /\ call[c].pc = "done"
        /\ call[c].list.from = version[call[c].coll]
        /\ Ordered(call[c].coll, call[c].list.sortBy)
        => /\ IsInjective(call[c].list.seen)
           /\ Range(call[c].list.seen) = Present(call[c].coll)

(* What was created when survives every update: the time a row was created *)
(* at changes only where an update that had read the row is late, its row  *)
(* was deleted (perhaps by a call that was answered an error) and another  *)
(* with its id took its place, and then it becomes the time of the row     *)
(* that was read (task_service.go:62, worker_definition_service.go:96).    *)
Deletes(x) ==
    \/ x.answer \in {"deleted", "partial"} \/ x.pc = "sweep"
    \/ x.answer = "unsure" /\ x.op \in Removals

CreatedKept ==
    [][\A coll \in Collections, i \in Ids :
          rows[coll][i] # NoDocument /\ rows'[coll][i] # NoDocument =>
             \/ rows'[coll][i].created = rows[coll][i].created
             \/ \E c, d \in Calls :
                   /\ call[c].pc = "write" /\ call'[c].answer \in {"updated", "unsure"}
                   /\ call[c].coll = coll /\ call[c].id = i
                   /\ call[c].entity.created = rows'[coll][i].created
                   /\ call[d].coll = coll /\ Deletes(call[d])]_definitionsVars

(* The answers account for the rows: as many are there as at the start and *)
(* were answered to be created, less those answered to be deleted, however *)
(* the calls overlap; each deletion is answered to one client only, and no *)
(* late update brings a row back.  Each creation answered an error may     *)
(* have added one all the same, and each such deletion have taken one, but *)
(* never more (write_repository.go:37, :70).  Batches excepted that are    *)
(* under way or failed, for those leave what they had done.                *)
Batched(coll) ==
    \E c \in Calls : /\ call[c].coll = coll
                     /\ call[c].answer = "partial" \/ call[c].pc \in {"insert", "sweep"}

Answered(coll, answer) ==
    Cardinality(UNION {{c} \X (1..call[c].batch) :
                          c \in {d \in Calls : call[d].coll = coll /\ call[d].answer = answer}})

Unsure(coll, ops) ==
    Cardinality({c \in Calls : call[c].coll = coll /\ call[c].answer = "unsure"
                                                 /\ call[c].op \in ops})

RowsAccounted ==
    \A coll \in Collections : ~Batched(coll) =>
        LET expected == Cardinality({i \in Ids : Start[coll][i] # NoDocument})
                          + Answered(coll, "created") - Answered(coll, "deleted")
        IN  Cardinality(Present(coll))
              \in (expected - Unsure(coll, Removals))..(expected + Unsure(coll, Creations))
=============================================================================
