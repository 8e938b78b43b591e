---------------------------- MODULE WorkerState ----------------------------
(***************************************************************************)
(* The health state machine one task carries while the instance manager    *)
(* runs it (manager/worker_state.go), and the conversion of a health       *)
(* status into the state stored for the execution.  Pure operators: the    *)
(* mutex of WorkerState is never contended, because only the goroutine of  *)
(* the task calls SetState.                                                *)
(***************************************************************************)

HealthStatus == {"UNKNOWN", "RUNNING", "HEALTHY", "ERROR", "STOPPED", "FINISHED", "PENDING", "DONE"}

\* The statuses on which processTask leaves its monitoring loop.
FinalHealth == {"FINISHED", "ERROR", "STOPPED"}

\* The states the conversion below can give the manager to store for an execution.
ManagerTaskState == {"Running", "Completed", "Failed", "Stopped", "Done", "Unknown"}

\* Transitions whose action stops the worker; the state changes only if it succeeds.
StopWorkerTransitions == {<<"RUNNING", "FINISHED">>, <<"HEALTHY", "FINISHED">>}

\* Mutant: the RUNNING -> ERROR transition was forgotten.
TransitionsWithoutRunningError ==
    {<<"UNKNOWN", "RUNNING">>, <<"RUNNING", "HEALTHY">>, <<"HEALTHY", "ERROR">>,
     <<"HEALTHY", "STOPPED">>} \cup StopWorkerTransitions

\* There is no RUNNING -> STOPPED: a task cancelled before its first HEALTHY keeps RUNNING.
Transitions ==
    {<<"UNKNOWN", "RUNNING">>, <<"RUNNING", "HEALTHY">>, <<"RUNNING", "ERROR">>,
     <<"HEALTHY", "ERROR">>, <<"HEALTHY", "STOPPED">>} \cup StopWorkerTransitions

\* What WorkerState.SetState(to) answers in state from: whether it returns nil, the state
\* it leaves, whether it pushes on stateChanged, whether it ran the stop action.
SetState(from, to, stopFails) ==
    LET stops == <<from, to>> \in StopWorkerTransitions
        moves == <<from, to>> \in Transitions /\ ~(stops /\ stopFails)
    IN  [ok      |-> from = to \/ moves,
         state   |-> IF moves THEN to ELSE from,
         changed |-> moves,
         stopped |-> stops /\ from # to]

\* convertHealthStatusToTaskState; PENDING, HEALTHY and UNKNOWN all become Unknown.  DONE is
\* what the manager itself announces when a worker was removed: no worker reports it.
ConvertHealth(status) ==
    CASE status = "RUNNING"  -> "Running"
      [] status = "FINISHED" -> "Completed"
      [] status = "ERROR"    -> "Failed"
      [] status = "STOPPED"  -> "Stopped"
      [] status = "DONE"     -> "Done"
      [] OTHER               -> "Unknown"
=============================================================================
