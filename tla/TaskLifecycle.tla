--------------------------- MODULE TaskLifecycle ---------------------------
(***************************************************************************)
(* What the instance manager needs to know of one run of processTask, and  *)
(* nothing else: the task holds a worker slot from its admission until it  *)
(* ends; its worker is registered in activeWorkers only in between; it may *)
(* wedge, and then it keeps both for ever.  ProcessTask implements this    *)
(* specification, and each task of WorkerInstanceManager follows it once   *)
(* it has been admitted.                                                   *)
(***************************************************************************)
VARIABLES phase,  \* "admitted", "registered", "unregistered", "ended"
          wedged  \* the goroutine of the task is blocked for ever

lifeVars == <<phase, wedged>>

LifeInit == phase = "admitted" /\ wedged = FALSE

\* The worker is created and stored in activeWorkers.
Register == phase = "admitted" /\ phase' = "registered" /\ UNCHANGED wedged

\* The factory fails: nothing is registered, only the release remains.
CreateFails == phase = "admitted" /\ phase' = "unregistered" /\ UNCHANGED wedged

\* The deferred calls of processTask, last deferred first.
Unregister == phase = "registered" /\ ~wedged /\ phase' = "unregistered" /\ UNCHANGED wedged
ReleaseSlot == phase = "unregistered" /\ phase' = "ended" /\ UNCHANGED wedged

\* Only a task whose worker is registered reaches a send or a receive that can block for ever.
Wedge == phase = "registered" /\ ~wedged /\ wedged' = TRUE /\ UNCHANGED phase

LifeNext == Register \/ CreateFails \/ Unregister \/ ReleaseSlot \/ Wedge

LifeSpec == LifeInit /\ [][LifeNext]_lifeVars
=============================================================================
