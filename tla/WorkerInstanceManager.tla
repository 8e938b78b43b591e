----------------------- MODULE WorkerInstanceManager -----------------------
(***************************************************************************)
(* WorkerInstanceManagerImpl: AddTask, the goroutines taskDispatcher and   *)
(* workerManager, Stop, and the goroutine of each task, here only as far   *)
(* as the manager sees it (module TaskLifecycle; ProcessTask has the       *)
(* detail).  A slot is a token: the channel workerSlots is the number of   *)
(* tokens in it.                                                           *)
(***************************************************************************)
EXTENDS Naturals, Sequences, FiniteSets, Functions

CONSTANTS Tasks,          \* the executions HodeiApp hands over, each with an ID of its own
          NoTask,
          MaxConcurrent,  \* capacity of workerSlots
          QueueCap,       \* capacity of taskQueue (100 in the code)
          Slow            \* bound: the tasks whose notice may wait after the send; the notice of
                          \* another finds room at once

ASSUME TasksAssumption == IsFiniteSet(Tasks) /\ NoTask \notin Tasks
ASSUME MaxConcurrentAssumption == MaxConcurrent \in Nat
ASSUME QueueCapAssumption == QueueCap \in Nat

VARIABLES
  phase,         \* of each task, see Phases
  notice,        \* the second half of AddTask, the notice on OutputChan, see Notices
  wedged,        \* the tasks whose goroutine is blocked for ever
  taskQueue,     \* the channel
  pendingTasks,  \* the dispatcher's slice
  workerSlots,   \* number of tokens in the channel
  dispatcher,    \* where taskDispatcher is, and the task it has received
  manager,       \* whether workerManager runs
  stop           \* the call of Stop; shutdown is closed once it is not "uncalled"

vars == <<phase, notice, wedged, taskQueue, pendingTasks, workerSlots, dispatcher, manager, stop>>

\* "new": AddTask not called; "calling": in AddTask; "accepted": AddTask's send is done;
\* then the goroutine of the task, which ends at "ended".
Phases == {"new", "calling", "accepted", "admitted", "registered", "unregistered", "ended"}

\* "none": not reached, or sent; "due": AddTask is at the send; "blocked": OutputChan is full and
\* nobody reads it any more, so the send never returns.
Notices == {"none", "due", "blocked"}

\* NewWorkerInstanceManager puts every token in the channel before starting the goroutines.
Init ==
    /\ phase = [t \in Tasks |-> "new"]
    /\ notice = [t \in Tasks |-> "none"]
    /\ wedged = {}
    /\ taskQueue = <<>>
    /\ pendingTasks = <<>>
    /\ workerSlots = MaxConcurrent
    /\ dispatcher = [pc |-> "select", hand |-> NoTask]
    /\ manager = "running"
    /\ stop = "uncalled"

SetPhase(t, p) == phase' = [phase EXCEPT ![t] = p]

SlotFree == workerSlots > 0
TakeSlot == workerSlots' = workerSlots - 1

\* The send of a token blocks while the channel is full.
GiveSlot == workerSlots < MaxConcurrent /\ workerSlots' = workerSlots + 1

-----------------------------------------------------------------------------
(* AddTask, called by a goroutine of HodeiApp.processTask per task *)

CallAddTask(t) ==
    /\ phase[t] = "new"
    /\ SetPhase(t, "calling")
    /\ UNCHANGED <<notice, wedged, taskQueue, pendingTasks, workerSlots, dispatcher, manager, stop>>

\* The send on taskQueue blocks while it is full; shutdown does not interrupt it.  The task may
\* start before AddTask goes on.
AddTask(t) ==
    /\ phase[t] = "calling"
    /\ Len(taskQueue) < QueueCap
    /\ taskQueue' = Append(taskQueue, t)
    /\ SetPhase(t, "accepted")
    /\ notice' = [notice EXCEPT ![t] = IF t \in Slow THEN "due" ELSE "none"]
    /\ UNCHANGED <<wedged, pendingTasks, workerSlots, dispatcher, manager, stop>>

\* sendOutput finds room, and AddTask returns.
AnnounceQueued(t) ==
    /\ notice[t] = "due"
    /\ notice' = [notice EXCEPT ![t] = "none"]
    /\ UNCHANGED <<phase, wedged, taskQueue, pendingTasks, workerSlots, dispatcher, manager, stop>>

\* The messages of the task's worker have filled OutputChan ahead of the notice, and neither of
\* its readers is left: the client has gone or takes nothing in, and the task has ended or is
\* wedged (ProcessTask, AnnouncedOrJammed).
OutputJams(t) ==
    /\ notice[t] = "due"
    /\ phase[t] = "ended" \/ t \in wedged
    /\ notice' = [notice EXCEPT ![t] = "blocked"]
    /\ UNCHANGED <<phase, wedged, taskQueue, pendingTasks, workerSlots, dispatcher, manager, stop>>

-----------------------------------------------------------------------------
(* taskDispatcher: the arms of its outer select, then the inner one *)

Selecting == dispatcher.pc = "select"

\* Mutant: the pending tasks are drained before the dispatcher leaves.
DispatcherExitsWhenIdle ==
    /\ Selecting
    /\ stop # "uncalled"
    /\ pendingTasks = <<>>
    /\ dispatcher' = [dispatcher EXCEPT !.pc = "exited"]
    /\ UNCHANGED <<phase, notice, wedged, taskQueue, pendingTasks, workerSlots, manager, stop>>

\* <-w.shutdown; the pending tasks are lost with the goroutine's slice.
DispatcherExit ==
    /\ Selecting
    /\ stop # "uncalled"
    /\ dispatcher' = [dispatcher EXCEPT !.pc = "exited"]
    /\ UNCHANGED <<phase, notice, wedged, taskQueue, pendingTasks, workerSlots, manager, stop>>

\* Mutant: no task is received while there is no slot for it.
ReceiveWhenFree ==
    /\ Selecting
    /\ taskQueue # <<>>
    /\ SlotFree
    /\ dispatcher' = [pc |-> "offer", hand |-> Head(taskQueue)]
    /\ taskQueue' = Tail(taskQueue)
    /\ UNCHANGED <<phase, notice, wedged, pendingTasks, workerSlots, manager, stop>>

\* task := <-w.taskQueue
Receive ==
    /\ Selecting
    /\ taskQueue # <<>>
    /\ dispatcher' = [pc |-> "offer", hand |-> Head(taskQueue)]
    /\ taskQueue' = Tail(taskQueue)
    /\ UNCHANGED <<phase, notice, wedged, pendingTasks, workerSlots, manager, stop>>

\* A slot is free: the task received starts, ahead of those already pending.
AdmitReceived ==
    /\ dispatcher.pc = "offer"
    /\ SlotFree /\ TakeSlot
    /\ SetPhase(dispatcher.hand, "admitted")
    /\ dispatcher' = [pc |-> "select", hand |-> NoTask]
    /\ UNCHANGED <<notice, wedged, taskQueue, pendingTasks, manager, stop>>

Defer ==
    /\ dispatcher.pc = "offer"
    /\ ~SlotFree
    /\ pendingTasks' = Append(pendingTasks, dispatcher.hand)
    /\ dispatcher' = [pc |-> "select", hand |-> NoTask]
    /\ UNCHANGED <<phase, notice, wedged, taskQueue, workerSlots, manager, stop>>

\* Mutant: the task stays in the slice.
AdmitPendingKeepsIt ==
    /\ Selecting
    /\ SlotFree /\ TakeSlot
    /\ pendingTasks # <<>>
    /\ SetPhase(Head(pendingTasks), "admitted")
    /\ UNCHANGED <<notice, wedged, taskQueue, pendingTasks, dispatcher, manager, stop>>

\* <-w.workerSlots with a pending task.
AdmitPending ==
    /\ Selecting
    /\ SlotFree /\ TakeSlot
    /\ pendingTasks # <<>>
    /\ SetPhase(Head(pendingTasks), "admitted")
    /\ pendingTasks' = Tail(pendingTasks)
    /\ UNCHANGED <<notice, wedged, taskQueue, dispatcher, manager, stop>>

\* <-w.workerSlots with none: the dispatcher takes the slot only to return it.
TakeIdleSlot ==
    /\ Selecting
    /\ SlotFree /\ TakeSlot
    /\ pendingTasks = <<>>
    /\ dispatcher' = [dispatcher EXCEPT !.pc = "putBack"]
    /\ UNCHANGED <<phase, notice, wedged, taskQueue, pendingTasks, manager, stop>>

\* Mutant: the slot taken is not returned.
PutBackForgotten ==
    /\ dispatcher.pc = "putBack"
    /\ dispatcher' = [dispatcher EXCEPT !.pc = "select"]
    /\ UNCHANGED <<phase, notice, wedged, taskQueue, pendingTasks, workerSlots, manager, stop>>

PutBack ==
    /\ dispatcher.pc = "putBack"
    /\ GiveSlot
    /\ dispatcher' = [dispatcher EXCEPT !.pc = "select"]
    /\ UNCHANGED <<phase, notice, wedged, taskQueue, pendingTasks, manager, stop>>

DispatcherNext ==
    \/ DispatcherExit \/ Receive \/ AdmitReceived \/ Defer
    \/ AdmitPending \/ TakeIdleSlot \/ PutBack

-----------------------------------------------------------------------------
(* The goroutine of a task: the steps of TaskLifecycle, and its token *)

Register(t) ==
    /\ phase[t] = "admitted"
    /\ SetPhase(t, "registered")
    /\ UNCHANGED <<notice, wedged, taskQueue, pendingTasks, workerSlots, dispatcher, manager, stop>>

\* Mutant: the error path returns the slot that the deferred call returns too.
CreateFailsReleasesToo(t) ==
    /\ phase[t] = "admitted"
    /\ SetPhase(t, "unregistered")
    /\ GiveSlot
    /\ UNCHANGED <<notice, wedged, taskQueue, pendingTasks, dispatcher, manager, stop>>

CreateFails(t) ==
    /\ phase[t] = "admitted"
    /\ SetPhase(t, "unregistered")
    /\ UNCHANGED <<notice, wedged, taskQueue, pendingTasks, workerSlots, dispatcher, manager, stop>>

Wedge(t) ==
    /\ phase[t] = "registered"
    /\ t \notin wedged
    /\ wedged' = wedged \cup {t}
    /\ UNCHANGED <<phase, notice, taskQueue, pendingTasks, workerSlots, dispatcher, manager, stop>>

\* Mutant: the slot is returned with the registration, before the task has ended.
UnregisterReleases(t) ==
    /\ phase[t] = "registered" /\ t \notin wedged
    /\ SetPhase(t, "unregistered")
    /\ GiveSlot
    /\ UNCHANGED <<notice, wedged, taskQueue, pendingTasks, dispatcher, manager, stop>>

Unregister(t) ==
    /\ phase[t] = "registered" /\ t \notin wedged
    /\ SetPhase(t, "unregistered")
    /\ UNCHANGED <<notice, wedged, taskQueue, pendingTasks, workerSlots, dispatcher, manager, stop>>

ReleaseSlot(t) ==
    /\ phase[t] = "unregistered"
    /\ GiveSlot
    /\ SetPhase(t, "ended")
    /\ UNCHANGED <<notice, wedged, taskQueue, pendingTasks, dispatcher, manager, stop>>

\* What a task does of itself; Wedge is what may befall it.
TaskProgress(t) == Register(t) \/ CreateFails(t) \/ Unregister(t) \/ ReleaseSlot(t)

-----------------------------------------------------------------------------
(* Stop, and workerManager: nothing is ever sent on workerChan *)

\* A second call would close a closed channel and panic; nobody makes one.
CallStop ==
    /\ stop = "uncalled"
    /\ stop' = "waiting"
    /\ UNCHANGED <<phase, notice, wedged, taskQueue, pendingTasks, workerSlots, dispatcher, manager>>

WorkerManagerExit ==
    /\ manager = "running" /\ stop # "uncalled"
    /\ manager' = "exited"
    /\ UNCHANGED <<phase, notice, wedged, taskQueue, pendingTasks, workerSlots, dispatcher, stop>>

\* w.wg.Wait(): the tasks that run are not waited for.
StopReturns ==
    /\ stop = "waiting"
    /\ dispatcher.pc = "exited" /\ manager = "exited"
    /\ stop' = "returned"
    /\ UNCHANGED <<phase, notice, wedged, taskQueue, pendingTasks, workerSlots, dispatcher, manager>>

-----------------------------------------------------------------------------
Next ==
    \/ DispatcherNext
    \/ CallStop \/ WorkerManagerExit \/ StopReturns
    \/ \E t \in Tasks : 
           \/ CallAddTask(t) \/ AddTask(t) \/ AnnounceQueued(t) \/ OutputJams(t)
           \/ TaskProgress(t) \/ Wedge(t)

Spec == Init /\ [][Next]_vars

\* The Go scheduler runs a ready goroutine, and a select picks at random among its ready arms,
\* so the arms of shutdown and taskQueue are not passed over for ever while the dispatcher
\* takes and returns idle slots.  A task that does not wedge ends (ProcessTask, EndsOrWedges).
\* A send that waits on OutputChan gets its turn unless nobody reads the channel any more
\* (ProcessTask, AnnouncedOrJammed).  Nobody has to call AddTask or Stop.
Fairness ==
    /\ WF_vars(DispatcherNext) /\ SF_vars(DispatcherExit) /\ SF_vars(Receive)
    /\ WF_vars(WorkerManagerExit \/ StopReturns)
    /\ \A t \in Tasks :
         WF_vars(AddTask(t)) /\ WF_vars(AnnounceQueued(t)) /\ WF_vars(TaskProgress(t))

FairSpec == Spec /\ Fairness

-----------------------------------------------------------------------------
(* Properties *)

TypeOK ==
    /\ phase \in [Tasks -> Phases]
    /\ notice \in [Tasks -> Notices]
    /\ wedged \subseteq {t \in Tasks : phase[t] = "registered"}
    /\ taskQueue \in Seq(Tasks) /\ Len(taskQueue) <= QueueCap
    /\ pendingTasks \in Seq(Tasks)
    /\ workerSlots \in 0..MaxConcurrent
    /\ dispatcher \in [pc : {"select", "offer", "putBack", "exited"}, hand : Tasks \cup {NoTask}]
    /\ manager \in {"running", "exited"}
    /\ stop \in {"uncalled", "waiting", "returned"}

\* The tasks whose goroutine has been started and has not returned its token.
Holders == {t \in Tasks : phase[t] \in {"admitted", "registered", "unregistered"}}

SlotInHand == IF dispatcher.pc = "putBack" THEN 1 ELSE 0

\* No token is lost or made: those in the channel, the one the dispatcher took to return it and
\* those of the tasks that hold one are always MaxConcurrent.
SlotConservation == workerSlots + SlotInHand + Cardinality(Holders) = MaxConcurrent

\* The two sends on workerSlots, PutBack's and the deferred one of processTask, always find
\* room: the dispatcher never deadlocks on its own channel, and no task waits to end.
SlotSendsNeverBlock ==
    dispatcher.pc = "putBack" \/ (\E t \in Tasks : phase[t] = "unregistered")
        => workerSlots < MaxConcurrent

Held == IF dispatcher.pc = "offer" THEN {dispatcher.hand} ELSE {}

\* A task that was accepted and not started is in exactly one of the queue, the dispatcher's
\* hand and the pending slice, and there once; no other task is in any of them.  So no task
\* is lost and none is started twice.
PlacedOnce ==
    /\ IsInjective(taskQueue) /\ IsInjective(pendingTasks)
    /\ Range(taskQueue) \cap Range(pendingTasks) = {}
    /\ Held \cap (Range(taskQueue) \cup Range(pendingTasks)) = {}
    /\ Range(taskQueue) \cup Held \cup Range(pendingTasks)
         = {t \in Tasks : phase[t] = "accepted"}

\* Every slot is held by a task that will never return it.
Starved == Cardinality(wedged) = MaxConcurrent

\* A task handed to AddTask is started, unless the manager is stopped or starved.
AcceptedIsStarted ==
    \A t \in Tasks : (phase[t] = "accepted")
        ~> (phase[t] # "accepted" \/ stop # "uncalled" \/ Starved)

InAddTask(t) == phase[t] = "calling" \/ notice[t] # "none"

\* AddTask returns even when no slot will ever be free again, for the dispatcher always goes on
\* to empty taskQueue.  Two things leave its caller blocked for ever: Stop, while it sends the
\* task, and a full OutputChan whose client has left, while it announces it.
AddTaskReturns ==
    \A t \in Tasks : InAddTask(t)
        ~> (~InAddTask(t) \/ notice[t] = "blocked" \/ (phase[t] = "calling" /\ stop # "uncalled"))

\* Stop returns whatever is queued, pending or wedged when it is called.
StopTerminates == (stop = "waiting") ~> (stop = "returned")

-----------------------------------------------------------------------------
(* Refinement *)

Slots == INSTANCE TaskSlots WITH
    waiting  <- {t \in Tasks : phase[t] = "accepted"},
    running  <- Holders,
    finished <- {t \in Tasks : phase[t] = "ended"},
    closed   <- stop = "returned"

\* The manager accepts, starts and ends tasks as TaskSlots says: never more than MaxConcurrent
\* at a time, none twice, none after Stop has returned.
SlotsImplemented == Slots!SlotsSpec
=============================================================================
