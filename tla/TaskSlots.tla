----------------------------- MODULE TaskSlots -----------------------------
(***************************************************************************)
(* What the instance manager promises to those who give it tasks: a task   *)
(* it has accepted is started at most once, at most MaxConcurrent tasks    *)
(* run at a time, and none starts once the manager has been stopped.       *)
(* WorkerInstanceManager implements it with three queues of tasks and a    *)
(* channel of tokens.                                                      *)
(***************************************************************************)
EXTENDS Naturals, FiniteSets

CONSTANTS Tasks, MaxConcurrent

VARIABLES waiting,   \* accepted, not started
          running,   \* started, not finished
          finished,
          closed     \* the manager has been stopped

slotVars == <<waiting, running, finished, closed>>

SlotsInit == waiting = {} /\ running = {} /\ finished = {} /\ closed = FALSE

Accept(t) ==
    /\ t \notin waiting \cup running \cup finished
    /\ waiting' = waiting \cup {t}
    /\ UNCHANGED <<running, finished, closed>>

Start(t) ==
    /\ ~closed
    /\ t \in waiting
    /\ Cardinality(running) < MaxConcurrent
    /\ waiting' = waiting \ {t}
    /\ running' = running \cup {t}
    /\ UNCHANGED <<finished, closed>>

Finish(t) ==
    /\ t \in running
    /\ running' = running \ {t}
    /\ finished' = finished \cup {t}
    /\ UNCHANGED <<waiting, closed>>

Close == closed' = TRUE /\ UNCHANGED <<waiting, running, finished>>

SlotsNext == Close \/ \E t \in Tasks : Accept(t) \/ Start(t) \/ Finish(t)

SlotsSpec == SlotsInit /\ [][SlotsNext]_slotVars
=============================================================================
