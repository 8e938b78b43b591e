---------------------------- MODULE ProcessTask ----------------------------
(***************************************************************************)
(* One run of WorkerInstanceManagerImpl.processTask: the goroutine that    *)
(* owns a worker slot, the goroutine it spawns for workerInstance.Run, the *)
(* websocket goroutine that reads the same OutputChan, and the client that *)
(* may disconnect.  The worker is the Docker or the Kubernetes one; its    *)
(* container (or pod) and its connectionInfo are kept because Stop depends *)
(* on them.                                                                *)
(*                                                                         *)
(* A message of OutputChan is a HEALTH status, "note" for any other        *)
(* message, or "final" for one that tells the client how the task ended.   *)
(* One note stands for the several a phase sends, so OutputCap > 3 says of *)
(* the model what the capacity 100 says of the code: the messages sent     *)
(* before the loop always fit in the channel.                              *)
(***************************************************************************)
EXTENDS Naturals, Sequences, WorkerState

CONSTANTS OutputCap,  \* capacity of OutputChan (100 in the code)
          MaxLines    \* bound: lines the remote process writes

ASSUME OutputCapAssumption == OutputCap \in Nat /\ OutputCap > 3
ASSUME MaxLinesAssumption == MaxLines \in Nat

VARIABLES
  task,    \* the goroutine of processTask and what it owns
  out,     \* OutputChan
  run,     \* the goroutine of workerInstance.Run and the remote process behind it
  worker,  \* the worker instance
  client,  \* the websocket goroutine, the client's context, AddTask's pending message
  db       \* the state of the execution as the manager stored it

vars == <<task, out, run, worker, client, db>>

None == "none"
RemoteHealth == {"RUNNING", "ERROR", "FINISHED"}  \* the HEALTH messages the worker sends
Messages == {"note", "final"} \cup RemoteHealth
Locations == {"create", "prepare", "start", "spawn", "loop", "resend", "runErr",
              "confirm", "stop", "unregister", "release", "done"}

Init ==
    /\ task = [pc         |-> "create",
               sending    |-> None,      \* the message it is blocked in sendOutput with
               hand       |-> None,      \* a message received, about to be sent again
               state      |-> "UNKNOWN", \* WorkerState.currentState
               changed    |-> None,      \* WorkerState.stateChanged, capacity 1
               registered |-> FALSE,     \* it is in activeWorkers
               slotHeld   |-> TRUE]      \* its slot is not back in workerSlots
    /\ out = <<>>
    /\ run = [stream |-> "off",          \* the stream Run reads; "over": runDoneChan closed
              err    |-> None,           \* runErrChan, capacity 1
              exit   |-> None,           \* how the remote process ended
              wrong  |-> FALSE,          \* it succeeded, and an ERROR was sent
              lines  |-> 0]
    /\ worker \in [type       : {"docker", "kubernetes"},
                   container  : {FALSE},   \* the container exists
                   connected  : {FALSE},   \* connectionInfo # nil
                   stopFailed : {FALSE}]   \* the last Stop returned an error
    /\ client = [cancelled |-> FALSE,    \* op.Ctx is done
                 reading   |-> TRUE,     \* the websocket goroutine reads OutputChan
                 adding    |-> TRUE,     \* AddTask still has its own message to send
                 told      |-> FALSE,    \* a final message reached the client
                 took      |-> FALSE]    \* the websocket goroutine took an ERROR status
    /\ db = "Pending"

-----------------------------------------------------------------------------
(* The goroutine of processTask, up to its loop *)

At(location) == task.pc = location /\ task.sending = None

\* state.SetState(to): stateChanged holds the latest state pushed.
AfterSetState(to, stopFails) ==
    LET set == SetState(task.state, to, stopFails)
    IN  [task EXCEPT !.state = set.state, !.changed = IF set.changed THEN to ELSE @]

\* sendOutput blocks until the channel has room.
FlushSend ==
    /\ task.sending # None
    /\ Len(out) < OutputCap
    /\ out' = Append(out, task.sending)
    /\ task' = [task EXCEPT !.sending = None]
    /\ UNCHANGED <<run, worker, client, db>>

\* WorkerFactory.Create fails: only the release of the slot is deferred yet.
CreateFails ==
    /\ At("create")
    /\ task' = [task EXCEPT !.pc = "release", !.sending = "final"]
    /\ UNCHANGED <<out, run, worker, client, db>>

Create ==
    /\ At("create")
    /\ task' = [task EXCEPT !.pc = "prepare", !.sending = "note", !.registered = TRUE]
    /\ UNCHANGED <<out, run, worker, client, db>>

\* NewWorkerState, SetState(RUNNING): never refused from UNKNOWN.
Prepare ==
    /\ At("prepare")
    /\ task' = [AfterSetState("RUNNING", FALSE) EXCEPT !.pc = "start"]
    /\ UNCHANGED <<out, run, worker, client, db>>

\* DockerWorker.Start sets connectionInfo last: an error may leave a container behind.
\* K8sWorker.Start gets from processTask the text of a compose file where it expects the path of
\* a pod template: it cannot read that, so no pod is ever made.
TemplateFails == worker.type = "kubernetes"

StartFails ==
    /\ At("start")
    /\ \E left \in BOOLEAN :
         /\ left => ~TemplateFails
         /\ worker' = [worker EXCEPT !.container = left]
    /\ task' = [AfterSetState("ERROR", FALSE) EXCEPT !.pc = "stop", !.sending = "final"]
    /\ UNCHANGED <<out, run, client, db>>

Start ==
    /\ At("start")
    /\ ~TemplateFails
    /\ worker' = [worker EXCEPT !.container = TRUE, !.connected = TRUE]
    /\ task' = [task EXCEPT !.pc = "spawn", !.sending = "note"]
    /\ UNCHANGED <<out, run, client, db>>

SpawnRun ==
    /\ At("spawn")
    /\ run' = [run EXCEPT !.stream = "setup"]
    /\ task' = [task EXCEPT !.pc = "loop"]
    /\ UNCHANGED <<out, worker, client, db>>

-----------------------------------------------------------------------------
(* The loop: one action per arm of the select *)

\* The statuses after which processTask sets taskCompleted.
Completes(status) == status \in FinalHealth

\* Mutant: a failed process is not announced.
AnnouncementOfSuccessOnly(status) ==
    IF status = "FINISHED" THEN "final" ELSE None

\* The message sent when a HEALTH status has been stored.
Announcement(status) ==
    CASE status \in FinalHealth -> "final"
      [] status = "HEALTHY"     -> "note"
      [] OTHER                  -> None

\* runDoneChan is closed, so its arm is ready again after a nil error has been read: reading
\* the empty runErrChan then blocks for ever.
LoopRunDone ==
    /\ At("loop")
    /\ run.stream = "over"
    /\ run' = [run EXCEPT !.err = None]
    /\ task' = CASE run.err = "err" -> [AfterSetState("ERROR", FALSE) EXCEPT
                                            !.pc = "confirm", !.sending = "final"]
                 [] run.err = "nil" -> task
                 [] run.err = None  -> [task EXCEPT !.pc = "runErr"]
    /\ UNCHANGED <<out, worker, client, db>>

\* The container found by its name is removed, or it stays.  A failure is likely enough: Stop
\* allows 5 seconds for a docker stop that may take 10.
CleanupExistingContainer(fails) == [worker EXCEPT !.container = @ /\ fails]

\* K8sWorker.Stop needs a gRPC client, and that a connectionInfo, which Start never set.
StopWithoutClient == [worker EXCEPT !.stopFailed = TRUE]

\* The effect of DockerWorker.Stop: without connectionInfo it succeeds and does nothing.
WorkerStop(fails) ==
    IF worker.type = "kubernetes" THEN StopWithoutClient
    ELSE IF ~worker.connected THEN worker
    ELSE [CleanupExistingContainer(fails) EXCEPT !.stopFailed = fails]

\* UpdateTaskExecutionStatus uses op.Ctx, and its error is ignored.
Store(newState) == db' \in IF client.cancelled THEN {db} ELSE {db, newState}

\* A HEALTH message: a refused transition is logged and the message forgotten.
LoopHealth ==
    /\ At("loop")
    /\ out # <<>> /\ Head(out) \in RemoteHealth
    /\ out' = Tail(out)
    /\ \E stopFails \in BOOLEAN :
         LET status == Head(out)
             set == SetState(task.state, status, stopFails)
         IN  /\ worker' = IF set.stopped THEN WorkerStop(stopFails) ELSE worker
             /\ IF ~set.ok
                THEN task' = task /\ db' = db
                ELSE /\ Store(ConvertHealth(status))
                     /\ task' = [AfterSetState(status, stopFails) EXCEPT
                                   !.sending = Announcement(status),
                                   !.pc = IF Completes(status) THEN "confirm" ELSE "loop"]
    /\ UNCHANGED <<run, client>>

\* Any other message is sent back to the channel it came from ...
LoopNote ==
    /\ At("loop")
    /\ out # <<>> /\ Head(out) \notin RemoteHealth
    /\ out' = Tail(out)
    /\ task' = [task EXCEPT !.pc = "resend", !.hand = Head(out)]
    /\ UNCHANGED <<run, worker, client, db>>

\* Mutant: the message waits for room in the channel that processTask itself empties.
ResendBlocks ==
    /\ At("resend")
    /\ Len(out) < OutputCap
    /\ out' = Append(out, task.hand)
    /\ task' = [task EXCEPT !.pc = "loop", !.hand = None]
    /\ UNCHANGED <<run, worker, client, db>>

\* ... at its tail, and dropped if the channel is full.
Resend ==
    /\ At("resend")
    /\ out' = IF Len(out) < OutputCap THEN Append(out, task.hand) ELSE out
    /\ task' = [task EXCEPT !.pc = "loop", !.hand = None]
    /\ UNCHANGED <<run, worker, client, db>>

LoopStateChanged ==
    /\ At("loop")
    /\ task.changed # None
    /\ task' = [task EXCEPT !.changed = None,
                            !.pc = IF Completes(task.changed) THEN "confirm" ELSE "loop"]
    /\ UNCHANGED <<out, run, worker, client, db>>

\* time.After(5 minutes).
LoopTimeout ==
    /\ At("loop")
    /\ task' = [AfterSetState("ERROR", FALSE) EXCEPT !.pc = "confirm", !.sending = "final"]
    /\ UNCHANGED <<out, run, worker, client, db>>

\* op.Ctx.Done(): SetState(STOPPED) is refused unless the state is HEALTHY.
LoopCancelled ==
    /\ At("loop")
    /\ client.cancelled
    /\ task' = [AfterSetState("STOPPED", FALSE) EXCEPT !.pc = "confirm", !.sending = "final"]
    /\ UNCHANGED <<out, run, worker, client, db>>

-----------------------------------------------------------------------------
(* The end of processTask and its deferred calls, last deferred first *)

\* Mutant: the wait for doneChan has no timeout.
ConfirmWithoutTimeout == At("confirm") /\ FALSE /\ UNCHANGED vars

\* Mutant: the deferred Stop is lost on this path.
ConfirmSkipsStop ==
    /\ At("confirm")
    /\ task' = [task EXCEPT !.pc = "unregister", !.sending = "note"]
    /\ UNCHANGED <<out, run, worker, client, db>>

\* doneChan is closed only when processTask returns, so the select always takes its timeout.
Confirm ==
    /\ At("confirm")
    /\ task' = [task EXCEPT !.pc = "stop", !.sending = "note"]
    /\ UNCHANGED <<out, run, worker, client, db>>

StopWorker ==
    /\ At("stop")
    /\ worker' \in {WorkerStop(fails) : fails \in BOOLEAN}
    /\ task' = [task EXCEPT !.pc = "unregister", !.sending = "note"]
    /\ UNCHANGED <<out, run, client, db>>

\* Mutant: the slot is released while the worker is still registered.
UnregisterAfterRelease ==
    /\ At("unregister")
    /\ task' = [task EXCEPT !.pc = "release", !.slotHeld = FALSE]
    /\ UNCHANGED <<out, run, worker, client, db>>

Unregister ==
    /\ At("unregister")
    /\ task' = [task EXCEPT !.pc = "release", !.registered = FALSE]
    /\ UNCHANGED <<out, run, worker, client, db>>

\* Never blocks: the slot's place in workerSlots is free (WorkerInstanceManager).
ReleaseSlot ==
    /\ At("release")
    /\ task' = [task EXCEPT !.pc = "done", !.slotHeld = FALSE]
    /\ UNCHANGED <<out, run, worker, client, db>>

-----------------------------------------------------------------------------
(* The goroutine of workerInstance.Run, and the remote process it follows *)

Streaming == run.stream \in {"setup", "running", "exited", "closed"}

\* RPSClient.StartProcess forwards a message of the stream; it blocks while OutputChan is full.
Forward(message, new) ==
    /\ Len(out) < OutputCap
    /\ out' = Append(out, message)
    /\ run' = new
    /\ UNCHANGED <<task, worker, client, db>>

\* What the remote executor sends: RUNNING, the lines, the outcome, FINISHED in any case.  Its
\* outcome may be an ERROR for a process that succeeded (ProcessExecutor!SuccessMisjudged).
RunStarted == run.stream = "setup" /\ Forward("RUNNING", [run EXCEPT !.stream = "running"])

RunLine ==
    /\ run.stream = "running" /\ run.lines < MaxLines
    /\ Forward("note", [run EXCEPT !.lines = @ + 1])

RunExit ==
    /\ run.stream = "running"
    /\ \/ Forward("FINISHED", [run EXCEPT !.stream = "exited", !.exit = "ok"])
       \/ Forward("ERROR", [run EXCEPT !.stream = "exited", !.exit = "fail"])
       \/ Forward("ERROR", [run EXCEPT !.stream = "exited", !.exit = "ok", !.wrong = TRUE])

RunLast == run.stream = "exited" /\ Forward("FINISHED", [run EXCEPT !.stream = "closed"])

\* The stream ends: Run returns nil.
RunReturnsNil ==
    /\ run.stream = "closed"
    /\ run' = [run EXCEPT !.stream = "over", !.err = "nil"]
    /\ UNCHANGED <<task, out, worker, client, db>>

\* No connection, a broken stream, runCtx cancelled, or its 30 seconds over.
RunReturnsError ==
    /\ Streaming
    /\ run' = [run EXCEPT !.stream = "over", !.err = "err"]
    /\ UNCHANGED <<task, out, worker, client, db>>

RunNext ==
    RunStarted \/ RunLine \/ RunExit \/ RunLast \/ RunReturnsNil \/ RunReturnsError

-----------------------------------------------------------------------------
(* The client, its websocket goroutine, and AddTask *)

\* The websocket goroutine is a second reader of OutputChan: what it takes, processTask misses.
ClientReads ==
    /\ client.reading
    /\ out # <<>>
    /\ out' = Tail(out)
    /\ client' = [client EXCEPT
                    !.told = @ \/ Head(out) = "final",
                    !.took = @ \/ Head(out) = "ERROR"]
    /\ UNCHANGED <<task, run, worker, db>>

\* The write to the websocket has no deadline: a client that takes nothing in keeps the
\* goroutine in it, with the message it received.
ReaderStalls ==
    /\ client.reading
    /\ out # <<>>
    /\ out' = Tail(out)
    /\ client' = [client EXCEPT !.reading = FALSE, !.took = @ \/ Head(out) = "ERROR"]
    /\ UNCHANGED <<task, run, worker, db>>

ClientLeaves ==
    /\ ~client.cancelled
    /\ client' = [client EXCEPT !.cancelled = TRUE]
    /\ UNCHANGED <<task, out, run, worker, db>>

ReaderReturns ==
    /\ client.reading /\ client.cancelled
    /\ client' = [client EXCEPT !.reading = FALSE]
    /\ UNCHANGED <<task, out, run, worker, db>>

\* AddTask announces the task after queueing it, when processTask may already be running.
AddTaskAnnounces ==
    /\ client.adding
    /\ Len(out) < OutputCap
    /\ out' = Append(out, "note")
    /\ client' = [client EXCEPT !.adding = FALSE]
    /\ UNCHANGED <<task, run, worker, db>>

-----------------------------------------------------------------------------
LoopNext ==
    LoopRunDone \/ LoopHealth \/ LoopNote \/ Resend \/ LoopStateChanged \/ LoopTimeout
    \/ LoopCancelled

TaskNext ==
    \/ FlushSend \/ CreateFails \/ Create \/ Prepare \/ StartFails \/ Start \/ SpawnRun
    \/ LoopNext
    \/ Confirm \/ StopWorker \/ Unregister \/ ReleaseSlot

ClientNext ==
    ClientReads \/ ReaderStalls \/ ClientLeaves \/ ReaderReturns \/ AddTaskAnnounces

Next == TaskNext \/ RunNext \/ ClientNext

Spec == Init /\ [][Next]_vars

\* A ready goroutine runs, and the timer of 5 minutes expires: its arm is ready from then on,
\* and a select picks among its ready arms at random.  The senders of a channel are served in
\* turn, so AddTask is not passed over for ever.  The client need never leave or stall; one that
\* does neither reads on.
Fairness ==
    /\ WF_vars(TaskNext) /\ SF_vars(LoopTimeout)
    /\ WF_vars(RunNext)
    /\ WF_vars(ClientReads)
    /\ SF_vars(AddTaskAnnounces)

FairSpec == Spec /\ Fairness

-----------------------------------------------------------------------------
(* Properties *)

TypeOK ==
    /\ task \in [pc : Locations, sending : {None, "note", "final"},
                  hand : {None, "note", "final"}, state : HealthStatus,
                  changed : HealthStatus \cup {None}, registered : BOOLEAN,
                  slotHeld : BOOLEAN]
    /\ out \in Seq(Messages) /\ Len(out) <= OutputCap
    /\ run \in [stream : {"off", "setup", "running", "exited", "closed", "over"},
                 err : {None, "nil", "err"}, exit : {None, "ok", "fail"}, wrong : BOOLEAN,
                 lines : 0..MaxLines]
    /\ worker \in [type : {"docker", "kubernetes"}, container : BOOLEAN, connected : BOOLEAN,
                   stopFailed : BOOLEAN]
    /\ client \in [cancelled : BOOLEAN, reading : BOOLEAN, adding : BOOLEAN, told : BOOLEAN,
                    took : BOOLEAN]
    /\ db \in ManagerTaskState \cup {"Pending"}

\* processTask can never take another step: it reads an empty runErrChan, or sends on a full
\* OutputChan that nobody reads any more.
Wedged ==
    \/ task.pc = "runErr"
    \/ task.sending # None /\ Len(out) = OutputCap /\ ~client.reading

\* A stored outcome is the one the process had, unless the executor told a wrong one, or the
\* websocket goroutine took the ERROR status from the channel both goroutines read.
OutcomeIsOfTheProcess ==
    /\ db = "Failed" => run.exit = "fail" \/ run.wrong
    /\ db = "Completed" =>
          \/ run.exit = "ok" /\ ~run.wrong
          \/ run.exit # None /\ client.took

\* When the slot is given back no container of the task is left, unless Start failed after
\* creating it (Stop then sees no connectionInfo and reports success) or Stop itself failed.
\* The number of slots bounds the containers up to these two cases.
ContainerReaped ==
    ~task.slotHeld /\ worker.container => ~worker.connected \/ worker.stopFailed

\* Nothing but a wedge keeps processTask from returning: every path through the loop ends, by
\* the process, the client or the 5 minutes, and the deferred calls follow.
EndsOrWedges == <>[](task.pc = "done" \/ Wedged)

\* Its client has left, or takes nothing in any more.
Deserted == client.cancelled \/ ~client.reading

\* A client that stays connected and reads is told how its task ended, unless the task wedges.
ClientIsTold == <>(client.told \/ Deserted \/ Wedged)

\* AddTask returns, unless its notice finds the channel full for good: the client is gone or
\* stalled, and processTask, which reads the channel too, has returned or wedged.
AnnouncedOrJammed ==
    \/ <>(~client.adding)
    \/ <>[](Len(out) = OutputCap /\ ~client.reading /\ (task.pc = "done" \/ Wedged))

\* Line 147, "Release slot when done": once Run has returned, the slot of a client that stays
\* connected and reads goes back to workerSlots.
SlotReleasedWhenDone == (run.stream = "over" /\ ~Deserted) ~> (~task.slotHeld \/ Deserted)

-----------------------------------------------------------------------------
(* Refinement: to the rest of the manager, processTask is a TaskLifecycle *)

Phase ==
    CASE task.pc = "create"     -> "admitted"
      [] task.pc = "done"       -> "ended"
      [] task.registered        -> "registered"
      [] OTHER                  -> "unregistered"

Lifecycle == INSTANCE TaskLifecycle WITH phase <- Phase, wedged <- Wedged

\* Every step of processTask is a step of TaskLifecycle or leaves its phase alone.
LifecycleImplemented == Lifecycle!LifeSpec
=============================================================================
