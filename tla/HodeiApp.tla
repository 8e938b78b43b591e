----------------------------- MODULE HodeiApp ------------------------------
(***************************************************************************)
(* HodeiApp and the row it keeps of every execution.  A request is handed  *)
(* from the websocket handler (AddTask) to the pending channel, from there *)
(* to a goroutine of its own (processTask) and on to the instance manager; *)
(* HodeiApp, the manager and CancelTaskExecution all write its row, each   *)
(* with a FindByID and an Update that nothing makes atomic.  The manager   *)
(* is here what ProcessTask says of it: it reports RUNNING and then the    *)
(* outcome, if at all.  The scheduler, of which the program has one, picks *)
(* a pool for each request, in the goroutine of that request.              *)
(***************************************************************************)
EXTENDS Integers, Sequences, WorkerState

CONSTANTS Requests,   \* calls of AddTask, each with an execution ID of its own
          PendingCap, \* capacity of pendingTasksChan
          Schedulers, \* what SCHEDULER_TYPE may say
          MaxPools,   \* bound: the pools that match a worker definition
          Cancellable \* bound: the requests whose execution somebody may cancel

ASSUME PendingCapAssumption == PendingCap \in Nat
ASSUME SchedulersAssumption == Schedulers \subseteq {"greedy", "epvm", "roundrobin"}
ASSUME MaxPoolsAssumption == MaxPools \in Nat
ASSUME RequestsAssumption == "nobody" \notin Requests  \* who has not written LastWorker

VARIABLES
  app,               \* of each request: how far AddTask and processTask are
  pendingTasksChan,
  scheduler,         \* the scheduler, and whether its panic took the program down
  run,               \* of each request: the goroutine of the manager
  cancel,            \* of each request: CancelTaskExecution has found the row, not yet written
  row,               \* of each request: its row of task_executions
  client             \* of each request: [left: its context is done, failed: a call failed]

vars == <<app, pendingTasksChan, scheduler, run, cancel, row, client>>

NoRow == [state |-> "none", ended |-> FALSE]
Row(state, ended) == [state |-> state, ended |-> ended]

\* TaskState.IsTerminal: Completed and Stopped are not.
IsTerminal(state) == state \in {"Done", "Failed"}

\* stateTransitionMap; nothing calls ValidStateTransition.
ValidStateTransition(src, dst) ==
    dst \in CASE src = "Pending"   -> {"Scheduled"}
              [] src = "Scheduled" -> {"Scheduled", "Running", "Failed", "Stopped"}
              [] src = "Running"   -> {"Running", "Completed", "Failed", "Scheduled", "Stopped"}
              [] src = "Completed" -> {"Done"}
              [] src = "Failed"    -> {"Scheduled"}
              [] src = "Stopped"   -> {"Scheduled"}
              [] src = "Skipped"   -> {"Done"}
              [] src = "Unknown"   -> {"Pending", "Scheduled", "Running", "Completed",
                                       "Failed", "Stopped"}
              [] OTHER             -> {}

Init ==
    /\ app = [r \in Requests |-> "idle"]
    /\ pendingTasksChan = <<>>
    /\ scheduler \in [type    : Schedulers,
                      last    : {-1},                      \* RoundRobin.LastWorker
                      by      : {"nobody"},                \* who wrote it (of the model)
                      counted : {[r \in Requests |-> 0]},  \* the candidates each pick was given
                      crashed : {FALSE}]
    /\ run = [r \in Requests |-> [stage |-> "none", writing |-> "none"]]
    /\ cancel = [r \in Requests |-> FALSE]
    /\ row = [r \in Requests |-> NoRow]
    /\ client = [r \in Requests |-> [left |-> FALSE, failed |-> FALSE]]

-----------------------------------------------------------------------------
(* The repository *)

\* A call with the request's context fails when the context is done, and may fail anyway.
\* FindByID and Update also fail when there is no row.
CallFails(r) == client' = [client EXCEPT ![r].failed = TRUE]
CallSucceeds(r) == ~client[r].left /\ UNCHANGED client
RowFound(r) == row[r] # NoRow /\ CallSucceeds(r)

SetRow(r, new) == row' = [row EXCEPT ![r] = new]

\* A write that answers an error may have had its effect, unless the context was done before it.
WriteRow(r, new) ==
    \/ SetRow(r, new) /\ ~client[r].left /\ (UNCHANGED client \/ CallFails(r))
    \/ UNCHANGED row /\ CallFails(r)

\* Mutant: a terminal state gets no EndTime.
StatusAsGiven(state, ended) == Row(state, ended)

\* UpdateTaskExecutionStatus stores the status it is given, and stamps a terminal one.
StoredStatus(state, ended) == Row(state, ended \/ IsTerminal(state))

-----------------------------------------------------------------------------
(* AddTask *)

\* The task or its worker definition is not found: no row, an error to the client.
LookupFails(r) ==
    /\ app[r] = "idle"
    /\ app' = [app EXCEPT ![r] = "refused"]
    /\ UNCHANGED <<pendingTasksChan, scheduler, run, cancel, row, client>>

\* CreateTaskExecution; its error is ignored.
CreateExecution(r) ==
    /\ app[r] = "idle"
    /\ app' = [app EXCEPT ![r] = "send"]
    /\ WriteRow(r, Row("Pending", FALSE))
    /\ UNCHANGED <<pendingTasksChan, scheduler, run, cancel>>

Enqueue(r) ==
    /\ app[r] = "send"
    /\ Len(pendingTasksChan) < PendingCap
    /\ pendingTasksChan' = Append(pendingTasksChan, r)
    /\ app' = [app EXCEPT ![r] = "queued"]
    /\ UNCHANGED <<scheduler, run, cancel, row, client>>

\* "cola llena": the row stays, Pending.
QueueFull(r) ==
    /\ app[r] = "send"
    /\ Len(pendingTasksChan) >= PendingCap
    /\ app' = [app EXCEPT ![r] = "refused"]
    /\ UNCHANGED <<pendingTasksChan, scheduler, run, cancel, row, client>>

-----------------------------------------------------------------------------
(* ProcessTasks and processTask *)

Dequeue ==
    /\ pendingTasksChan # <<>>
    /\ pendingTasksChan' = Tail(pendingTasksChan)
    /\ app' = [app EXCEPT ![Head(pendingTasksChan)] = "select"]
    /\ UNCHANGED <<scheduler, run, cancel, row, client>>

\* selectWorker finds no active pool, or none that matches: the error is only logged.
NoPool(r) ==
    /\ app[r] = "select"
    /\ app' = [app EXCEPT ![r] = "dropped"]
    /\ UNCHANGED <<pendingTasksChan, scheduler, run, cancel, row, client>>

\* Pick of Greedy and Epvm: a candidate of the highest score, whichever that is.  There is one
\* when there is a candidate, for every score is above the maximum they start from.
PickBest(r) ==
    /\ app[r] = "select"
    /\ scheduler.type # "roundrobin"
    /\ app' = [app EXCEPT ![r] = "handover"]
    /\ UNCHANGED <<pendingTasksChan, scheduler, run, cancel, row, client>>

\* Mutant: one too many, the modulus is the number of candidates and itself.
PickNextPastEnd(r) ==
    /\ app[r] = "select"
    /\ scheduler.type = "roundrobin"
    /\ \E n \in 1..MaxPools :
         scheduler' = [scheduler EXCEPT !.last = (@ + 1) % (n + 1), !.by = r, !.counted[r] = n]
    /\ app' = [app EXCEPT ![r] = "pick"]
    /\ UNCHANGED <<pendingTasksChan, run, cancel, row, client>>

\* Pick of RoundRobin advances a field that the goroutines of all requests share, by the number
\* of candidates of this one ...
PickNext(r) ==
    /\ app[r] = "select"
    /\ scheduler.type = "roundrobin"
    /\ \E n \in 1..MaxPools :
         scheduler' = [scheduler EXCEPT !.last = (@ + 1) % n, !.by = r, !.counted[r] = n]
    /\ app' = [app EXCEPT ![r] = "pick"]
    /\ UNCHANGED <<pendingTasksChan, run, cancel, row, client>>

\* ... and reads it again for the index, which another pick may have moved out of range: a panic
\* in a goroutine of its own, where nothing recovers.
PickIndexed(r) ==
    /\ app[r] = "pick"
    /\ IF scheduler.last < scheduler.counted[r]
       THEN /\ app' = [app EXCEPT ![r] = "handover"]
            /\ scheduler' = [scheduler EXCEPT !.counted[r] = 0,
                                             !.by = IF @ = r THEN "nobody" ELSE @]
       ELSE /\ scheduler' = [scheduler EXCEPT !.crashed = TRUE]
            /\ UNCHANGED app
    /\ UNCHANGED <<pendingTasksChan, run, cancel, row, client>>

\* instanceManager.AddTask puts the task in its queue, which is not to have run it ...
HandOver(r) ==
    /\ app[r] = "handover"
    /\ run' = [run EXCEPT ![r].stage = "handed"]
    /\ app' = [app EXCEPT ![r] = "announce"]
    /\ UNCHANGED <<pendingTasksChan, scheduler, cancel, row, client>>

\* Mutant: the row is not updated after the hand-over.
AnnouncedOnly(r) ==
    /\ app[r] = "announce"
    /\ app' = [app EXCEPT ![r] = "done"]
    /\ UNCHANGED <<pendingTasksChan, scheduler, run, cancel, row, client>>

\* ... then sends its notice on OutputChan and returns nil, unless the worker's messages have
\* filled that channel and its client has left or stopped reading (WorkerInstanceManager,
\* OutputJams): then it stays here.
Announced(r) ==
    /\ app[r] = "announce"
    /\ app' = [app EXCEPT ![r] = "find"]
    /\ UNCHANGED <<pendingTasksChan, scheduler, run, cancel, row, client>>

\* UpdateTaskExecutionStatus(Completed, EndTime = now), its error ignored: FindByID ...
AppFinds(r) ==
    /\ app[r] = "find"
    /\ \/ RowFound(r) /\ app' = [app EXCEPT ![r] = "update"]
       \/ CallFails(r) /\ app' = [app EXCEPT ![r] = "done"]
    /\ UNCHANGED <<pendingTasksChan, scheduler, run, cancel, row>>

\* ... and Update.
AppUpdates(r) ==
    /\ app[r] = "update"
    /\ app' = [app EXCEPT ![r] = "done"]
    /\ WriteRow(r, StoredStatus("Completed", TRUE))
    /\ UNCHANGED <<pendingTasksChan, scheduler, run, cancel>>

-----------------------------------------------------------------------------
(* The instance manager: its copy of the execution never has an EndTime *)

\* RUNNING is reported once at most, and nothing after a final status.
StageAfter(status) == IF status \in FinalHealth THEN "ended" ELSE "following"

\* A HEALTH message reaches processTask: any may be missing, for the websocket goroutine reads
\* the same channel, and then FINISHED is what comes after the ERROR of a process that failed.
ManagerFinds(r) ==
    /\ run[r].writing = "none"
    /\ \E status \in {"RUNNING", "FINISHED", "ERROR"} :
         /\ run[r].stage \in (IF status = "RUNNING" THEN {"handed"} ELSE {"handed", "following"})
         /\ \/ RowFound(r) /\ run' = [run EXCEPT ![r].writing = status]
            \/ CallFails(r) /\ run' = [run EXCEPT ![r].stage = StageAfter(status)]
    /\ UNCHANGED <<app, pendingTasksChan, scheduler, cancel, row>>

\* Mutant: processTask does not leave its loop on a final status.
ManagerUpdatesAndGoesOn(r) ==
    /\ run[r].writing # "none"
    /\ run' = [run EXCEPT ![r] = [stage |-> "following", writing |-> "none"]]
    /\ WriteRow(r, StoredStatus(ConvertHealth(run[r].writing), FALSE))
    /\ UNCHANGED <<app, pendingTasksChan, scheduler, cancel>>

ManagerUpdates(r) ==
    /\ run[r].writing # "none"
    /\ run' = [run EXCEPT ![r] = [stage |-> StageAfter(@.writing), writing |-> "none"]]
    /\ WriteRow(r, StoredStatus(ConvertHealth(run[r].writing), FALSE))
    /\ UNCHANGED <<app, pendingTasksChan, scheduler, cancel>>

\* Every other end of processTask writes nothing: creation, start, Run or the transition failed,
\* the timeout, the client left.
ManagerGivesUp(r) ==
    /\ run[r].stage \in {"handed", "following"} /\ run[r].writing = "none"
    /\ run' = [run EXCEPT ![r].stage = "ended"]
    /\ UNCHANGED <<app, pendingTasksChan, scheduler, cancel, row, client>>

-----------------------------------------------------------------------------
(* CancelTaskExecution, and the client *)

\* FindByID, then the check of the state it returned: an error when it is terminal.
CancelFinds(r) ==
    /\ r \in Cancellable /\ ~cancel[r]
    /\ row[r] # NoRow /\ ~IsTerminal(row[r].state)
    /\ cancel' = [cancel EXCEPT ![r] = TRUE]
    /\ UNCHANGED <<app, pendingTasksChan, scheduler, run, row, client>>

\* Only the row changes: no running task is told.
CancelUpdates(r) ==
    /\ cancel[r]
    /\ cancel' = [cancel EXCEPT ![r] = FALSE]
    /\ row' \in {row, [row EXCEPT ![r] = Row("Stopped", TRUE)]}
    /\ UNCHANGED <<app, pendingTasksChan, scheduler, run, client>>

\* The websocket connection ends, and with it the context of the request.
ClientLeaves(r) ==
    /\ app[r] # "idle" /\ ~client[r].left
    /\ client' = [client EXCEPT ![r].left = TRUE]
    /\ UNCHANGED <<app, pendingTasksChan, scheduler, run, cancel, row>>

-----------------------------------------------------------------------------
\* What the goroutines of a request do of themselves.
Proceeds(r) ==
    \/ Enqueue(r) \/ QueueFull(r)
    \/ NoPool(r) \/ PickBest(r) \/ PickNext(r) \/ PickIndexed(r)
    \/ HandOver(r) \/ AppFinds(r) \/ AppUpdates(r)

ManagerNext(r) ==
    ManagerFinds(r) \/ ManagerUpdates(r) \/ ManagerGivesUp(r)

Next ==
    /\ ~scheduler.crashed
    /\ \/ Dequeue
       \/ \E r \in Requests :
            \/ LookupFails(r) \/ CreateExecution(r) \/ Proceeds(r) \/ Announced(r)
            \/ ManagerNext(r) \/ CancelFinds(r) \/ CancelUpdates(r) \/ ClientLeaves(r)

Spec == Init /\ [][Next]_vars

\* Ready goroutines run.  HandOver is fair because the manager's queue always has room again
\* (WorkerInstanceManager, AddTaskReturns), and Dequeue because ProcessTasks does nothing else.
\* Announced is not: nothing frees a channel that nobody reads.
FairSpec ==
    /\ Spec
    /\ WF_vars(~scheduler.crashed /\ Dequeue)
    /\ \A r \in Requests : WF_vars(~scheduler.crashed /\ Proceeds(r))

-----------------------------------------------------------------------------
(* Properties *)

Places == {"idle", "send", "refused", "queued", "select", "dropped", "pick", "handover",
           "announce", "find", "update", "done"}
Scheduler == [type : Schedulers, last : -1..(MaxPools - 1), by : Requests \cup {"nobody"},
              counted : [Requests -> 0..MaxPools], crashed : BOOLEAN]
Run == [stage : {"none", "handed", "following", "ended"},
        writing : {"none", "RUNNING", "FINISHED", "ERROR"}]
Execution == [state : {"none", "Pending"} \cup ManagerTaskState, ended : BOOLEAN]
Client == [left : BOOLEAN, failed : BOOLEAN]

TypeOK ==
    /\ app \in [Requests -> Places]
    /\ pendingTasksChan \in Seq(Requests) /\ Len(pendingTasksChan) <= PendingCap
    /\ scheduler \in Scheduler
    /\ run \in [Requests -> Run]
    /\ cancel \in [Requests -> BOOLEAN]
    /\ row \in [Requests -> Execution]
    /\ client \in [Requests -> Client]

\* A row that says Completed is of a task the manager has or had: HodeiApp writes it when the
\* task has been queued, so this is all that Completed says.
CompletedIsHandedOver ==
    \A r \in Requests : row[r].state = "Completed" => run[r].stage # "none"

\* A row that says how the task ended without success has an EndTime, one that says it has not
\* ended has none, even when late writers overwrite one another.  Completed is not in IsTerminal:
\* without an EndTime it is the last word of a manager that is done with the task, never of
\* HodeiApp, so a row Completed before its time shows itself by its EndTime.
EndTimeConsistent ==
    \A r \in Requests :
       /\ row[r].state \in {"Failed", "Stopped"} => row[r].ended
       /\ row[r].state \in {"Pending", "Running"} => ~row[r].ended
       /\ row[r].state = "Completed" /\ ~row[r].ended => run[r].stage = "ended"

\* Once the manager has stored that the task failed it never stores anything else; only an
\* update that had read the row before may replace it: HodeiApp's Completed, or a cancellation.
FailureOverwrittenOnlyLate ==
    [][\A r \in Requests : row[r].state = "Failed" /\ row'[r].state # "Failed"
           => \/ app[r] = "update" /\ row'[r].state = "Completed"
              \/ cancel[r] /\ row'[r].state = "Stopped"]_vars

\* The one way a pick takes the program down: another request moved the index between its two
\* uses, when the two had different numbers of candidates.
RacedPick ==
    /\ scheduler.crashed
    /\ \E r \in Requests : /\ app[r] = "pick" /\ scheduler.by # r
                          /\ scheduler.last >= scheduler.counted[r]

\* The program goes down in a pick in no other way.
CrashIsARace == scheduler.crashed => RacedPick

\* A request whose goroutines leave it for good with no row, or with one that still says Pending,
\* was refused (what it needs is not found, or the queue is full), matched no pool, announces
\* itself for ever, had a call to the repository fail (as all do once the client has left), or
\* lost the program to two picks of the round robin that raced; picks apart never do that.
RequestLeavesPending ==
    \A r \in Requests :
        \/ <>[](app[r] = "announce")
        \/ (app[r] # "idle") ~> \/ row[r].state \notin {"none", "Pending"}
                               \/ app[r] \in {"refused", "dropped"}
                               \/ client[r].failed \/ RacedPick

\* state_machine.go:31, "Completed: {Done}": what has been completed is not run, failed or
\* stopped afterwards.
CompletedFollowsTransitionMap ==
    [][\A r \in Requests : row[r].state = "Completed" /\ row'[r].state # "Completed"
           => ValidStateTransition("Completed", row'[r].state)]_vars
=============================================================================
