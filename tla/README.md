# Hodei DevOps: TLA+ models, checks and proofs

Hodei runs tasks on remote workers. A client asks for a task over a websocket,
`hodei-app` queues it, starts a container (Docker or Kubernetes) in a resource
pool, connects to the `remote_worker` inside it over gRPC, has the command run
there, and forwards the output to the client. Around that path are the
definitions of tasks, workers and pools, the login and authorization of its
users, and the file synchronisation of the remote worker. This directory holds
the models of these parts, the TLC runs that check them and the proofs TLAPS checks. Paths
below are relative to `src/`; `HA` is `hodei-app/internal`, `RW` is
`remote_worker/internal`.

Run `tlc -config X.cfg M` for a run of `PROJECT.json`, `tlapm M.tla` for the proofs.

## 1. Inventory

### The path of a task

```
websocket client
   |  start_task                              output, told what happened
   v                                                    ^
HodeiApp.AddTask --pendingTasksChan--> processTask      |  processTaskOutput
   |  row: Pending                        |             |  (second reader)
   |                                      | AddTask     |
   v                                      v             |
task_executions  <--- status ---  WorkerInstanceManager |
   ^                               taskQueue, pending   |
   | CancelTaskExecution           slots (tokens)       |
                                          | one goroutine per task
                                          v             |
                                   processTask ----OutputChan (100)
                                          |  Start / Run / Stop
                                          v
                                   DockerWorker --gRPC--> RemoteProcessServer
                                                              | outputChan (100)
                                                          LocalProcessExecutor
```

| Component | State | Operations | Interacts with | What is hard |
|---|---|---|---|---|
| Instance manager (`HA/domain/application/manager/worker_instance_manager.go`) | `taskQueue`, the dispatcher's `pendingTasks`, tokens in `workerSlots`, `activeWorkers`, `shutdown` | `AddTask`, `taskDispatcher`, `processTask`, `Stop` | HodeiApp (calls), one goroutine per task | a select over its own channel; tokens returned by deferred calls; goroutines that never end |
| One run of `processTask` (same file, `worker_state.go`) | the health state machine, `stateChanged`, `runErrChan`, the output channel | create, start, run, six arms of a select, timeout, confirm, deferred stop | worker, remote process, websocket goroutine, row | two readers of one channel, a re-send to the channel read, sends that block, timeouts |
| Docker worker (`.../worker/factories/docker_instance.go`) | container, `connectionInfo` | `Start`, `Run`, `Stop` | Docker, gRPC client | an error after the container exists; a stop that takes longer than its context |
| HodeiApp (`hodei_app.go`) | `pendingTasksChan` | `AddTask`, `ProcessTasks`, `processTask` | pool service, scheduler, manager, rows | full channel, ignored errors, a state written too early |
| Execution service (`task_execution_service.go`, `domain/model/state_machine.go`) | rows of `task_executions` | create, update status, cancel | repository | read-then-write by three writers, no version |
| Websocket handler (`adapters/incoming/websockets/tasks_handlers.go`) | the connection | start, stop, output loop | HodeiApp, output channel | takes messages the manager needs; concurrent writers of one connection |
| Remote executor (`RW/application/api/process_executor.go`) | `processes`, `healthStatuses`, output channel, mutexes | `Start`, `Stop`, `MonitorHealth` | OS process, gRPC handler | four goroutines and a handler over one bounded channel, sends under a mutex, two `Wait`s |
| Remote server (`RW/adapters/grpc/remote_process_server.go`) | none | stream handlers | executor | returns without draining |
| Pool service (`resource_pool_service.go`), factory, pools | map of active pools, definitions | register, create, create all, update, delete | HodeiApp, repository | check then act; two keys for one pool |
| Schedulers (`scheduler/*.go`) | `LastWorker` | candidates, score, pick | HodeiApp, one goroutine per task | an unsynchronised counter used twice in a pick |
| Tokens and login (`iam/auth_service.go`, `token_service.go`, `repository/iam/token_repository.go`) | cache and collection of tokens | login, refresh, logout, validate, clean | users | two stores, validate then delete, rows written back whole, failing writes |
| Authorization (`iam/authorization_service.go`, `default_*.go`) | role and group caches | create, update, delete, sync, set up, authorize | repositories | cache and store written apart, a mutex held across searches, a set-up of many steps |
| Task and worker definitions (`task_service.go`, `worker_definition_service.go`, their handlers and documents) | rows | create, update, delete, batches, list by page | repository | read then write, exists then delete, count then find |
| Repositories (`repository/generic`) | collections | save, find, update, delete, page | MongoDB | each call is atomic, pairs are not |
| File sync (`RW/application/services/sync_service.go`) | a progress channel in a field, uploads | sync, upload by chunk, list, delete | file system, streams | the field is shared by concurrent calls; the copy loop at end of file |
| Metrics, migrations, HTTP layer, configuration, `archiva_go` | little or none | | | |

### What makes each component correct

* **Manager**: a slot is never lost or made; at most `MaxConcurrent` tasks run;
  an accepted task is started once, and started unless every slot is stuck;
  the dispatcher and `Stop` do not hang, and `AddTask` only on an output channel
  that nobody reads any more.
* **processTask**: it ends and gives its slot back; no container outlives its
  slot; the stored outcome is the process's; a client that reads learns how it ended.
* **HodeiApp and rows**: a row says what happened; end time and state agree;
  a terminal state is not overwritten; an accepted request does not stay Pending.
* **Executor**: never a send on a closed channel; a failure is told before any
  FINISHED; a success is called a failure only where a tick, the kill of the context or a
  second `Wait` raced with the waiter's; `Stop` tells the truth and answers;
  everything is cleaned up, unless `Stop` took the answer of the waiter's `Wait`.
* **Pools**: an error leaves no pool behind (only a mismatch of ids does); a pool that was
  answered stays, or is replaced by a call that looked before it was there or searched
  another key; a deleted definition does not come back.
* **Tokens**: a revoked token is out of the database for good, and in the cache only after a
  race; a refresh token is consumed once, but for refreshes that overlap; the cache vouches for
  nothing that was not stored; a deleted user gets no tokens and does not come back.
* **Authorization**: nothing is granted that was not stored; what was revoked stays
  revoked; a default group never lacks its role.
* **Definitions**: pages partition the rows; creation times survive; answers account for rows.
* **File sync**: progress goes to the caller it belongs to; a client learns the
  verdict; Done means synchronised; a cancelled call ends.

The hazards of `PROJECT.json` list, line by line, what can go wrong, and the
properties that would catch it.

## 2. Plan

Done, in this order: `WorkerState`, `TaskLifecycle`, `ProcessTask`, `TaskSlots`,
`WorkerInstanceManager` with its proofs, `HodeiApp`, `ProcessExecutor`,
`ResourcePools`, `Sessions`, `Authorization`, `FileSync`, `Definitions`; then the
schedulers in `HodeiApp` and the Kubernetes worker in `ProcessTask`; then the proofs of every
module above, those of `Definitions` last.

What is left, most valuable first:

| Work | Aimed at |
|---|---|
| lemmas on the abstraction between `ProcessExecutor` and `ProcessTask` | that what the executor sends is what `ProcessTask` lets it send, now linked by properties only |
| several processes under one executor mutex | what a wedged sender does to the other processes' health |
| `ExecuteCommand` and the metrics stream of the remote server | a stream that ends while its producer sends |

Modules that are proved about declare no RECURSIVE operator; parameters are
CONSTANTS with named assumptions; each operation is one action.

## 3. Modules and their correspondence to the code

| Module | Models | State |
|---|---|---|
| `WorkerState` | the health state machine and the conversion to a stored state | none: operators |
| `TaskLifecycle` | abstract: what the manager needs to know of one task | `phase`, `wedged` |
| `ProcessTask` | one run of `processTask`, its worker, its stream, its client | `task` (program counter, message being sent, machine, slot), `out` (the channel), `run`, `worker`, `client`, `db` |
| `TaskSlots` | abstract: accept, start, finish under a limit | sets of tasks |
| `WorkerInstanceManager` | AddTask with both its sends, dispatcher, queue, pending slice, tokens, Stop | `phase`, `notice` (AddTask's send on OutputChan), `wedged`, `taskQueue`, `pendingTasks`, `workerSlots`, `dispatcher`, `manager`, `stop` |
| `HodeiApp` | AddTask, ProcessTasks, the scheduler's pick, rows and their writers | `app`, `pendingTasksChan`, `scheduler` (the shared index of the round robin), `run`, `cancel`, `row`, `client` |
| `ProcessExecutor` | the goroutines of the remote executor for one process, and the `exec.Cmd` they share | `child` (the process, what `cmd` knows of its exit, and the goroutine of `cmd` that watches the context), `wait` (the two calls of `cmd.Wait`), one variable per goroutine, the channel, the mutex, the maps' entries, and the history `told` |
| `ResourcePools` | the operations of the pool service as concurrent calls | `row`, `active` (by name), `call`, and the history `since` |
| `MCResourcePools` | the definitions clients send and the symmetry set of its run | |
| `Sessions` | login, refresh, logout, validation, users, the cleaner and the TTL index, over cache and collection | `row` (users), `db`, `cache`, `claims`, `expired`, `req` (one record per request), `faults`, and the histories `given`, `spent`, `raced` |
| `MCSessions` | the symmetry set of its run | |
| `Authorization` | the operations on roles and groups, SyncCache, SetupDefaultSystem, Authorize | `rows` and `cache` by kind, `mu`, `req`, `setup`, `calls`, and the histories `ever`, `revoked` |
| `MCAuthorization` | what clients send, the symmetry set | |
| `FileSync` | the synchronisation service and its gRPC handler: per call a goroutine that works and a handler that forwards | `fs`, `progressChan` (the shared field), `chan` (the channels made), `worker`, `handler`, `client`, `crashed`, `faults` |
| `MCFileSync` | the trees and requests of its run | |
| `Definitions` | the two definition services, their handlers, the generic repository and the documents | `rows`, `taken`, `version` (of the model), `call` |
| `MCDefinitions` | the operations and rows of its run | |
| `ApplicationProofs` | the theorems about `HodeiApp` and `Definitions`, the services of the Go package `application` | |
| `WorkerInstanceManagerProofs`, `ProcessTaskProofs`, `ProcessExecutorProofs`, `ResourcePoolsProofs`, `SessionsProofs`, `AuthorizationProofs`, `FileSyncProofs` | the theorems about the module of that name, with the invariants they need (section 5) | |

Granularity: an action is what one goroutine does between two points where
another can interfere: a channel operation, taking a mutex, a database call. A
`select` with several arms is several actions, and a blocked send is a guard on
the channel's length. Where a mutex is held across a send or a database call, the
holder is a state (`lock` in `ProcessExecutor`, `mu` in `Authorization`). Reads followed by writes of the same row
are two actions (`AppFinds`, `AppUpdates`). A definition headed "Mutant" is a
plausible slip in the definition that follows it, used to show that a property
can fail; no specification uses it.

How they fit together. `ProcessTask` implements `TaskLifecycle`
(`LifecycleImplemented`), and the tasks of `WorkerInstanceManager` take exactly
the steps of `TaskLifecycle`, so the manager's slots are checked against a
summary that is itself checked. `WorkerInstanceManager` implements `TaskSlots`
(`SlotsImplemented`), which is all `HodeiApp` relies on. What `ProcessTask` lets
the remote process send (RUNNING, lines, outcome, FINISHED in any case, an ERROR
for a success now and then) is what `ProcessExecutor` shows it sends
(`FailureToldFirst`, `SuccessMisjudged`). These two links are by those
properties, not by a refinement TLC checks.

Abstractions. Messages are statuses or "note" or "final": the text is not kept.
One note stands for the several that precede a status, so the capacities of the
runs (2, 4) stand for 100: what matters is that it can be full with the
reader gone. Times (5 min, 30 s, 5 s) are timers that may fire at any moment
once set. A database or Docker call may fail at any moment, and a write that answers an error
may have had its effect all the same (`Written`, `Faulty`, `WriteRow`, the answer "unsure" of
`Definitions`); the effect, if there is one, comes before the answer.
In `ProcessTask` the copy of the state in the row is the manager's own
(`db`); `HodeiApp` has the row with all its writers. The worker of `ProcessTask` is
of either type: the Kubernetes one gets the text of a compose file as the path of
its template, so it fails before it makes a pod, and its `Stop` fails without a
client. In `HodeiApp` greedy and EPVM take some candidate (which one is best does not
matter to the rows), while round robin moves its index in one step and uses it in
another. `ProcessExecutor` keeps the number of messages in the channel (what was sent is in `told`) and
models `exec.Cmd` of
Go 1.23, the version the code builds with, as far as two concurrent `Wait`s and
`exec.CommandContext` show it: reaping the exit, storing it in `cmd.ProcessState`, and receiving
from the goroutine that watches the context, over a channel without buffer that carries one
value. In `Sessions` a JWT is the user it was signed for; in `Authorization` a
permission is a set of actions on a resource; in `FileSync` a file is a sequence of
blocks; in `Definitions` an entity is its name, type, state and creation.

Each module has a `TypeOK` (`DefinitionsTypeOK`), which is proved (`TypeCorrect`,
`TypeInvariant`, `DefinitionsTypes`); the runs check what could really go wrong. The names of
`Definitions` that `HodeiApp` also needs (`Init`, `Next`, `Spec`, `vars`) carry the name of the
module, for the proofs extend both.

## 4. Runs

| Run | Instance | Shows |
|---|---|---|
| `manager` | 4 tasks, 2 slots, queue of 1, one task whose notice may wait | conservation of slots, single placement, refinement of `TaskSlots`, accepted tasks start, `AddTask` returns, `Stop` ends. With four tasks two hold the slots, for ever perhaps, and two wait, in the queue, the hand or the slice, or in `AddTask` behind a full queue. The notice of a task touches nothing but itself, so one that waits is as good as several (65,082 states) |
| `process_task` | channel of 4, 2 lines, either type of worker | outcome, containers, termination or wedge, the client is told, `AddTask`'s notice, refinement of `TaskLifecycle`. Both the channel full of lines and the reader gone or stalled are reached (996,533 states) |
| `process_task_slot` | same | *violated*: finding 1 |
| `executions` | 2 requests, channel of 1, greedy or round robin over at most 2 pools, one execution may be cancelled | rows under three writers, and that a row leaves "none" and Pending, but for what `RequestLeavesPending` names; the second request finds the channel full; two picks of the round robin overlap with 1 and 2 candidates, the least that takes its index out of range (`CrashIsARace`). Rows are apart, so one that may be cancelled and one that may not are all the cases (707,922 states) |
| `executions_completed` | 1 request, 1 pool | *violated*: finding 2 |
| `executor` | 1 pipe, channel of 2, 1 line, 1 tick | closing, verdicts, Stop's answers, clean-up and closing once the process has exited. One pipe is enough: the two readers are the same code and only more of one. RUNNING with what comes before it, the outcome and the last FINISHED fill a channel of 2 even without lines (433,109 states) |
| `executor_stop` | as `executor` | *violated*: finding 3 |
| `pools` | 4 calls, 2 strings for ids and names, 5 definitions | errors, replacements and deletions over rows and map. Four calls: one or two create rows, two race for an instance, one updates or deletes; with two strings a name can be the id of another definition (331,413 states with symmetry) |
| `sessions` | 1 user, 2 requests, 2 pairs of tokens, 1 expiry, of a token of the first pair, 1 failing write | revocation, single use of a refresh token, cache against collection, deletion of users. Two requests are any pair of operations that overlap, one after another without limit; two pairs are the one presented and the one a refresh makes (5,117,405 states with symmetry) |
| `authorization` | 2 requests, 4 calls, 6 of the entries of the set-up, pages of 2 | what the cache grants. The six entries are three roles and three groups, of the project and of the resources; a page of 2 is shorter than the collection, as the code's page of 10 is than the set-up's thirteen roles (867,437 states) |
| `sync` | 2 calls, 2 names, channel of 1, 1 fault, 2 messages of an upload | overlap and its harm, verdicts, Done, cancellation. Two calls are what one shared field needs; a channel of 1 fills, as the code's 100 does with many files; old content is longer than the new, so a missing truncation shows |
| `definitions` | 3 calls, 3 ids, 2 names, page sizes none, 1 and 2 | paging, creation times, accounting. Three calls: an update that is late, a deletion, and a creation with the freed id; each may be answered an error after it took effect (2,582,462 states) |

`CHECK_DEADLOCK FALSE` everywhere: tasks end, the manager stops, processes
finish, so every model has final states; that they are not reached by accident
is what the liveness properties and `EndsOrWedges` say.

### Fairness

* A goroutine that can run does (weak fairness of its steps): the Go scheduler.
* A `select` picks at random among its ready arms, so an arm that is ready again
  and again is taken: strong fairness of `Receive`, `DispatcherExit` and of the
  timeout arm (`LoopTimeout`), which once fired stays ready.
* A Go mutex is not starved (its starvation mode hands it over): strong fairness of
  goroutines that wait for `healthStatusMu`.
* Not assumed: that a client leaves or stays, calls, stops or cancels, that a
  process exits by itself, that a tick falls anywhere, that a call succeeds.
* `manager` assumes that a task that is not wedged ends, which is
  `EndsOrWedges` of `process_task`. A send of `AddTask` that can go on does (weak fairness of
  `AddTask`, `AnnounceQueued`; strong fairness of `AddTaskAnnounces` in `process_task`, for the
  senders of a channel are served in turn); what else can become of its notice is
  `AnnouncedOrJammed`, which the manager's model takes over as `OutputJams`.
* `executions` assumes that the manager's `AddTask` gets past its first send, which is
  `AddTaskReturns`, and nothing of the second (`Announced` is not fair). A client that is in the
  middle of a write to the websocket, which has no deadline, may stay there for ever
  (`ReaderStalls`). The client of `MonitorHealth` is assumed to read or
  leave: if it does neither the executor's mutex is lost, a hazard of the code.
* `sync` assumes that the goroutine of a call goes on (weak fairness of `Work(c)`), not that
  its client gives up: what it shows is what happens once the context is done.
* `sessions`, `authorization`, `definitions` and `pools` check safety and state no fairness.

### Findings

1. `processTask` can keep its slot for ever. `runDoneChan` is closed and its arm stays
   ready. When the arm has been taken once and gave nil, the loop goes on; if the
   select picks it again, as it may at random even while messages are unread, the
   receive from `runErrChan` (`worker_instance_manager.go:260`) waits for a second value
   that never comes. Each occurrence lowers the limit of concurrent tasks by one.
2. `hodei_app.go:194` stores Completed when the task has been queued; Running
   or Failed may follow, against `state_machine.go:31`.
3. `process_executor.go:279` (and 253) sends with `healthStatusMu` held. When the
   handler has returned on a broken stream nobody reads the channel: `Stop` waits for ever.
4. `process_executor.go:334` calls `cmd.Wait` while the goroutine of line 264 is in its own. One
   of the two never returns, for `exec.Cmd` has one value for both. When that is the waiter,
   as always where `StopProcess` answered success for a process the waiter already waits on, the
   context is not cancelled, nothing is unlisted and the channel is never closed: the call of
   `StartProcess` and the ticker outlive the process. (No run of its own:
   `EndsUnlessAbandoned` names the circumstance, `WaitStolen`.)
5. (No run.) `resource_pool_service.go:245` refuses to delete an active pool by its state
   column only. A definition set to INACTIVE and deleted leaves its pool in the map.
6. (No run.) The factory knows `docker` and `kubernetes` (`resource_pool_factory.go:35`), the
   validator only `Kubernetes`, `Docker` and `VM` (`model/resource_pool.go:25`). With this
   factory no pool is ever made. `FactoryTypes` is a constant of `ResourcePools` because the
   service is written against the port `ports.ResourcePoolFactory`; its run uses a factory
   that accepts one of the valid types.

The following have no run of their own. The models contain the behaviour, and what still
holds around it is stated by their properties.

7. `worker_instance_manager.go:229` starts a Kubernetes worker with the text of a compose file;
   `k8s_instance.go:92` opens it as a file. No Kubernetes worker ever starts.
8. `round_robin.go:41` and 42 use the shared index twice. Two overlapping picks with different
   numbers of candidates panic (`RacedPick` of `HodeiApp`).
9. `repository/worker/document.go:26` has no field for the worker type, which `model/worker.go:63`
   requires: a definition read from the database is refused by `factories.go:37`.
10. `token_repository.go:278` fills the cache from a read that a logout may have overtaken. The
   token is revoked in the database (`RevokedForGood`) and accepted by this process until it
   expires; `RevokedForGood` and `CacheVouches` say that it takes this race.
11. `token_repository.go:194`, `DeleteRefreshToken`, does not look at the count of deleted documents:
    of two refreshes with one token that overlap both get a pair. `ConsumedOnce` says that it takes
    this overlap.
12. `user_mongodb_repository.go:123` (and the same test for roles and groups) compares the page
    size with 0: looking for a name that does not exist panics.
13. `repository/iam/documents.go:281` drops the id of a role: no role can be deleted.
14. `default_identity.go`: the second default service account, without an id like the first, is refused, so
    `SetupDefaultSystem` always ends in an error before its `SyncCache`.
15. `role_repository_adapter.go:65` lists the first ten roles; the set-up stores thirteen.
16. `sync_service.go:785`: `break` leaves the select only. No copy ends before its context does.
17. `sync_service.go:578`: `SyncDirectory` applies its changes to paths relative to the worker's
    directory. `:606`: a single file with Delete empties the destination. `dry_run` is ignored.

The positive properties are stated around these: `EndsOrWedges` names the two
places where `processTask` can hang and says there are no others;
`AcceptedIsStarted` says what still holds when slots are lost, `AddTaskReturns` and
`AnnouncedOrJammed` what keeps `AddTask` blocked: a stopped manager, or an output channel that
is full and has lost both its readers. `OutcomeIsOfTheProcess`, `FailureOverwrittenOnlyLate` and
`ContainerReaped` name exactly the circumstances in which the ideal statement fails, and so do
`SuccessMisjudged` (a tick between reaping and storing the exit, the kill of the context, the
`Wait` of `Stop`), `EndsUnlessAbandoned` (the handler gone, or finding 4), `RequestLeavesPending`
(what is not found, a full queue, no pool, a failed call such as the ignored one that creates the
row, a notice that is blocked, a raced pick), `RevokedForGood` and `CacheVouches` (a
token deleted while another request held it), `ConsumedOnce` (two refreshes that overlap),
`HarmOnlyByOverlap`, `NobodyLeftGuessing` (a full channel), `CreatedKept` (a late update) and
`RowsAccounted` (a write that answered an error, or a batch).
`DoneMeansSynced` holds only because of finding 16: if copies ended, the missing truncation
would leave old tails and interrupted copies could pass for new ones.

## 5. Proofs

Every safety property that a passing run checks on a small instance is also proved for all
values of the constants. Two that the runs do not check are proved besides, since they follow
from the same invariants: `SlotSendsNeverBlock` and `CompletedIsHandedOver`.

| Module | Theorem | Says |
|---|---|---|
| `WorkerInstanceManagerProofs` | `IInvInvariant`, `TypeCorrect` | the inductive invariant `IInv`; `TypeOK` |
| | `TasksPlacedOnce` | `PlacedOnce`: a task not started is in one place, once |
| | `SlotsConserved` | `SlotConservation`: tokens in the channel + in the dispatcher's hand + held = `MaxConcurrent` |
| | `SendsFindRoom` | `SlotSendsNeverBlock` |
| | `ActiveWorkersBounded` | `activeWorkers` never holds more workers than slots |
| | `ManagerImplementsSlots` | `SlotsImplemented`: every step is a step of `TaskSlots` or a stutter |
| `ProcessTaskProofs` | `TypeCorrect` | `TypeOK` |
| | `TaskImplementsLifecycle` | `LifecycleImplemented`: every step is a step of `TaskLifecycle` or a stutter, and a wedged task stays wedged |
| | `NoContainerIsLeft` | `ContainerReaped` |
| | `StoredOutcomeIsOfTheProcess` | `OutcomeIsOfTheProcess` |
| `ApplicationProofs`, of `HodeiApp` | `TypeCorrect` | `TypeOK` |
| | `CompletedRowsWereHandedOver` | `CompletedIsHandedOver` |
| | `EndTimesAgree` | `EndTimeConsistent` |
| | `OnlyRacedPicksCrash` | `CrashIsARace` |
| | `FailuresLastButForLateWriters` | `FailureOverwrittenOnlyLate` |
| `ApplicationProofs`, of `Definitions` | `DefinitionsTypes` | `DefinitionsTypeOK` |
| | `UpdatesKeepTheTime` | `CreatedKept` |
| | `AnswersAccountForTheRows` | `RowsAccounted` |
| | `WalksSeeEveryRow` | `WalkIsComplete` |
| `ProcessExecutorProofs` | `TypeCorrect` | `TypeOK` |
| | `ClosedChannelIsLeftAlone` | `NoSendAfterClose` |
| | `FailuresAreToldFirst` | `FailureToldFirst` |
| | `MisjudgementsAreRaces` | `SuccessMisjudged` |
| | `StoppedProcessIsGone` | `StoppedIsGone` |
| `ResourcePoolsProofs` | `TypeCorrect` | `TypeOK` |
| | `FailedCallsLeaveNoPool` | `ErrorLeavesNoPool` |
| | `AnsweredPoolsStay` | `AnsweredPoolIsActive` |
| | `PoolsAreReplacedByOverlap` | `ReplacedOnlyByOverlap` |
| | `DeletedDefinitionsStayDeleted` | `DeletedStaysDeleted` |
| `SessionsProofs` | `TypeInvariant` | `TypeOK`, and that pairs are numbered and requests hold what they work on |
| | `RevokedTokensStayOut` | `RevokedForGood` |
| | `RefreshTokensAreConsumedOnce` | `ConsumedOnce` |
| | `CacheVouchesForStored` | `CacheVouches` |
| | `DeletedUsersStayDeleted` | `DeletedStaysDeleted` |
| | `LateRefreshGetsNothing` | `DeletedUserGetsNothing` |
| `AuthorizationProofs` | `TypeInvariant` | `TypeOK` |
| | `GrantsRestOnStoredDefinitions` | `GrantsAreBacked` |
| | `RevokedGroupsStayRevoked` | `RevokedStaysRevoked` |
| | `GroupsHaveTheirRoles` | `GroupsComeWithRoles`, if the configuration lists a group after its roles |
| `FileSyncProofs` | `TypeCorrect` | `TypeOK` |
| | `OverlapAloneDoesHarm` | `HarmOnlyByOverlap` |
| | `NobodyIsLeftGuessing` | `NobodyLeftGuessing` |
| | `DoneIsSynced` | `DoneMeansSynced` |

A proof of a module has the same shape everywhere: an inductive invariant, a lemma that says each
step keeps it with a case per action, and a temporal step. Where threads take many
kinds of steps (`ProcessTask`, `FileSync`, `Definitions`) lemmas first say what all of them leave alone
(`TaskMoves`; `WorkEffect`, `HandlerKeeps`, `CallKeeps`; `StepEffect`), and the invariants are proved
from those.

### The inductive invariants, and why they are needed

**`WorkerInstanceManager`.** `IInv` is `TypeOK /\ PlacedOnce /\ SlotConservation`. None of the three
is inductive alone. Admitting a task takes a token and adds a holder, and adds
exactly one only if the task was not already running, which `PlacedOnce` gives:
what is in the queue, hand or slice is "accepted". `TypeOK` bounds `workerSlots`
by its capacity only because conservation leaves a place for each token that
comes back. `PlacedOnce` speaks of sequences without repetition, so two
lemmas say what `Append` and `Tail` do to them (`AppendNew`, `TailOfInjective`),
and three say what a step does to the number of holders. For the
refinement a further invariant says that the dispatcher has left when `Stop` has returned.

**`ProcessTask`.** `Lives` ties the registration and the slot to the program counter, `StateKnown` that
messages are waited for in RUNNING only. `Roomy` is why the first sends never
block: until the stream is there only the announcement of `AddTask` can be in the channel, which
therefore needs room for a few messages and no more. That is what the refinement needs: a task
can be wedged in the loop only. `Reaped` follows the container from `Start` to
the deferred `Stop`. The outcome takes two: `StreamTells` (what the stream has
of the exit) and `ChannelTells`: while the task waits, an ERROR that was sent is
still in the channel before any FINISHED, or the websocket goroutine has taken it. The task re-sends
messages to the channel it reads, so order in the channel is not the order of
sending; that the re-send can put nothing misleading before the ERROR is the heart of it.

**`HodeiApp`.** The row has three writers, so what it says is tied to how far each of them is:
`QueuedOnce` (a request is in the channel once, and only while it is queued), `HandedOver` (the
manager knows of a request exactly from the hand-over on, while HodeiApp is still in `AddTask`), `RowsCreated`, and `FailedIsFinal` (a
manager that stored a failure has ended). The end time agrees with the state because every
writer writes the row whole and `StoredStatus` sets the end time of a terminal state; that a
Completed row without one is the manager's last word takes that HodeiApp always gives one. `PickedInRange` bounds the index of the round robin when no other
pick came in between.

**`ProcessExecutor`.** `OffTogether`: nothing of a process runs before `Start`, nor if it failed.
`ReapedByOne`: of the two `Wait`s at most one reaps the exit, the other gets an error or nothing,
and whoever returns with the exit has taken the one value that comes from the watching goroutine.
That is how a success can be called a failure, and why a `Stop` that answers "stopped" has left
the waiter without a good answer. `ToldOfExit`: what was told, or is about to be sent by the ticker, is of
an exit that happened; an ERROR for a success has one of the three excuses of `SuccessMisjudged`;
a waiter past its verdict has told a failure as one. `ClosedLast`:
past the join the readers and the ticker have returned, so nobody can send when the channel is closed.

**`ResourcePools`.** `OwnersAreFine`: a pool in the map belongs to a call that registered it under the name of its definition and
neither failed before nor after. `Settled` (a call answers once), `Kept` (an answered
pool is there, or one that took its place, or a call that could not write its row took it out), and
`Watches`: a call that found no pool under its id has noted each one registered there since.

**`Sessions`.** A token that is out of the database stays out because of who can insert one.
`Fresh`: a pair being stored belongs to one request, and no client has it. `RevokedWasGiven`: only
what a client was given can be revoked. So the two never meet. `Consumed` says that a refresh that got past its
delete finds the old token gone to its end, also when a second refresh
validated it before. The memory is another matter, and there `Races` says what a race is:
a token that is being deleted, or was, is in the cache, or with a request that has found it
valid or consumed it, only if it is in `raced`. The deletion takes the token out of the cache
first and the database second, so a request that holds it when the second happens is the only
one that can cache or consume it later; that gives `ConsumedOnce` and the second half of
`RevokedForGood`. `FillsWhatItFound` says that the token a
validation is about to put back is stored, or has expired, or is in `raced`; a step that takes a
token out of the database leaves none that the cache holds without a race (`NothingLost`).
`Acquainted` and `LateStaysOut` follow a deleted user: a refresh
begun after the deletion never gets past the lookup of the user.

**`Authorization`.** `Backed`: what is in the cache, in the rows, in the hands of a request or of the set-up has been
in the collections. `Revoked`: of a group revoked with nobody racing, nothing is left that could
bring it back (no row, no write, no search of `SyncCache` that found it). `RolesInv`: until it fails the set-up has in force every role it
has come past, since a role never leaves the cache: `DeleteRole` looks for a row without an
id, and there is none (finding 13). `GroupsHaveTheirRoles` has the hypothesis `RolesFirst`;
the lemma `ConfigurationHasRolesFirst` proves it of the configuration of the code and of every first
part of it. The constant `Setup` of the model, the increasing positions of the entries that are set
up, is there so that the run can take a few of the entries.

**`FileSync`.** The types come with `Located`, where the two threads of a call can be together. `OverlapInv`: `Apart` (two unfinished calls both know
that they are not alone) and `AllOwn` (a call that ran alone uses its own channel
only, which holds its own messages and is closed once its goroutine has ended). `AllTold`
adds what the verdict is and where: heard, or the last message in the channel;
a call returns with the channel drained or its client gone. `AllMatched`: at the
head of the loop of a call that compares checksums and made no error, what it listed and is done with is the same on both
sides. Copies count an error, for they end only with
their context (finding 16); so what was done is a link made again or a file that needed no copy.

**`Definitions`.** Every step is one call's, and does one of four things to the rows (`Effect`): nothing, or it
makes, replaces or takes away one. `CreatedKept` is not inductive: what an update writes was read
earlier. `HoldsTime` says that since then the row has kept the time the update holds, or that somebody has
deleted in that collection, or was answered an error by a deletion. `RowsAccounted` counts answers, which come at the end of a call, and a batch
has made rows before; so `Accounts` counts what each call has made and taken away
so far, by its record, as pairs of the call and a number, and beside them the calls that were
answered an error and may have made a row, or taken one, all the same: the two sets bound the
rows from above and from below. A step adds at most one pair or one such call and one row, so no
sum over the calls is needed. Pairs and answers agree once no batch is under way. `Walked` follows a client through its pages as long as nobody has
written since it began: it has seen the first `Skip(page)` rows of *every* order by its field. That is
one order only, for the rows differ in that field (`OrderIsUnique`, by the least position
in which two orders differ), so the next page goes on where the last ended although each page is
cut from an order of its own. `HasNextPage` is the arithmetic of the number of pages: it says that there
is another page exactly when rows are left.

### Assumptions

| Module | On the constants |
|---|---|
| `WorkerInstanceManager` | `TasksAssumption` (finite, `NoTask` outside), `MaxConcurrentAssumption` and `QueueCapAssumption` (natural numbers) |
| `ProcessTask` | `OutputCapAssumption`: a channel of more than 3 messages (the code's has 100); `MaxLinesAssumption` |
| `HodeiApp` | `PendingCapAssumption`, `MaxPoolsAssumption` (natural numbers), `SchedulersAssumption` (the three of the code), `RequestsAssumption` (a value for "nobody" outside) |
| `Definitions` | `DefinitionsAssumption` (a number of calls; ids, finitely many, and names are numbers, one of them the name the rows of a batch get; a positive default page), `StartAssumption` (the rows at the start are documents, those of tasks without a status) |
| `ProcessExecutor` | `OutputCapAssumption`: a channel of more than 1 message (the code's has 100); `BoundsAssumption`; nothing on the pipes |
| `ResourcePools` | `KeysAssumption` (finitely many strings; `NoCall` is none of the calls), `DefinitionsAssumption` (definitions are rows, `NoRow` is not) |
| `Sessions` | `NoUserAssumption`, `BoundsAssumption` (natural numbers) |
| `Authorization` | `PageSizeAssumption` (positive), `MaxCallsAssumption`, `RequestsAssumption`, `SetupAssumption` (entries of the configuration in its order), `IdsAssumption` (a new row has an id) |
| `FileSync` | `ServiceAssumption` (bounds, names, a channel with room for a message, the five operations), `TreesAssumption` (the initial trees are trees of files, directories and links) |

TLC evaluates each of them in the run of its module. The bounds among the constants (`MaxLines`,
`MaxTicks`, `MaxPairs`, `MaxFaults`, `MaxCalls`...) are any natural number, or any set (`Slow`,
`Cancellable`, `Mortal`).

### Only model-checked, and why

* Liveness: `AcceptedIsStarted`, `AddTaskReturns`, `StopTerminates`, `EndsOrWedges`, `ClientIsTold`,
  `AnnouncedOrJammed`, `RequestLeavesPending`, `EndsUnlessAbandoned`, `CancelledEnds`. Fairness and ENABLED are out of the
  prover's reach.
* The disagreements of the findings, which are counterexamples.

## 6. Not modelled, and why

* `SetConcurrencyLimit` sends on a channel without a reader: it blocks its caller and
  touches nothing else. No code calls it. `StopTask` of the manager is a stub returning nil.
* The part of the Kubernetes worker after its template is loaded (creating, polling and deleting
  the pod): the program never gets there.
* Image pulling, ports, TLS, scores of pools, signatures, hashing, permissions and owners of files,
  formatting, logging: data the properties do not see.
* Several processes under one executor mutex: one process shows the wedge; what it does to
  the others is in the plan.
* A crash of `hodei-app`: nothing is recovered at start-up (queues are in
  memory and no code reads rows back), so there is no recovery to model. Its caches of tokens,
  roles and groups do start empty over full collections: `Restart` of `Sessions` and `Authorization`.
* Migrations: nothing calls `InitializePostgres` or `NewMigrationManager`.
* `BatchUpdate`, `GetFileMetadata` of the sync service: no caller outside tests.
* `archiva_go`, metrics, configuration, HTTP decoding: no state or concurrency
  of their own worth a model.
