------------------------- MODULE ApplicationProofs -------------------------
(***************************************************************************)
(* Proofs about the services of the application package of hodei-app:      *)
(* HodeiApp, which queues the executions, and Definitions, the tasks and   *)
(* the worker definitions.                                                 *)
(*                                                                         *)
(* HodeiApp, for every number of requests and pools and every capacity of  *)
(* the channel.  The row of a request is written by three goroutines, so   *)
(* what it says is tied to how far each of them is: before the hand-over   *)
(* the manager has nothing of the request (HandedOver), a request is in    *)
(* the channel once and nowhere else (QueuedOnce), and the manager that    *)
(* has stored a failure has ended (FailedIsFinal).                         *)
(*                                                                         *)
(* Definitions, for every number of calls, every finite set of ids and of  *)
(* names and every page size.  Each step is one of a call that makes a     *)
(* row, replaces one, takes one away or leaves the rows alone (Effect), so *)
(* that its three theorems need look at four cases only: what an update    *)
(* holds since it read its row (HoldsTime), what each call has made and    *)
(* taken away so far (Accounts), and what a walk has seen (Walked).        *)
(***************************************************************************)
EXTENDS HodeiApp, Definitions, SequenceTheorems, FiniteSetTheorems, WellFoundedInduction, TLAPS

\* The channel holds each request that waits in it once.
QueuedOnce ==
    /\ \A i \in 1..Len(pendingTasksChan) : app[pendingTasksChan[i]] = "queued"
    /\ \A i, j \in 1..Len(pendingTasksChan) :
          pendingTasksChan[i] = pendingTasksChan[j] => i = j

\* The manager knows of a request from the hand-over on.
AfterHandOver == {"announce", "find", "update", "done"}
HandedOver ==
    \A r \in Requests :
        /\ app[r] \in AfterHandOver <=> run[r].stage # "none"
        /\ run[r].writing # "none" => run[r].stage \in {"handed", "following"}

\* Before AddTask creates the row there is none, to write or to cancel.
RowsCreated == \A r \in Requests : app[r] = "idle" => row[r] = NoRow /\ ~cancel[r]

\* The manager stores a failure last.
FailedIsFinal ==
    \A r \in Requests :
        row[r].state = "Failed" => run[r].stage = "ended" /\ run[r].writing = "none"

\* The index of a pick nobody has interfered with is in range.
PickedInRange ==
    \A r \in Requests :
        app[r] = "pick" /\ scheduler.by = r => scheduler.last < scheduler.counted[r]

RowInv == QueuedOnce /\ HandedOver /\ RowsCreated /\ FailedIsFinal
Picks == PickedInRange /\ CrashIsARace
Rows == CompletedIsHandedOver /\ EndTimeConsistent
IInv == TypeOK /\ RowInv /\ Picks /\ Rows
-----------------------------------------------------------------------------
(* The executions: types *)

\* What the manager stores of the statuses it acts on.
LEMMA StoredOutcomes ==
    /\ ConvertHealth("RUNNING") = "Running"
    /\ ConvertHealth("FINISHED") = "Completed"
    /\ ConvertHealth("ERROR") = "Failed"
BY DEF ConvertHealth

\* No action but the twelve of HodeiApp, the three of the manager, those of a cancellation and of the
\* client: what a step is.
LEMMA NextCases ==
    ASSUME Next
    PROVE  \/ Dequeue
           \/ \E r \in Requests :
                \/ LookupFails(r) \/ CreateExecution(r) \/ Enqueue(r) \/ QueueFull(r) \/ NoPool(r)
                \/ PickBest(r) \/ PickNext(r) \/ PickIndexed(r) \/ HandOver(r) \/ Announced(r)
                \/ AppFinds(r) \/ AppUpdates(r) \/ ManagerFinds(r) \/ ManagerUpdates(r) \/ ManagerGivesUp(r)
                \/ CancelFinds(r) \/ CancelUpdates(r) \/ ClientLeaves(r)
BY DEF Next, Proceeds, ManagerNext

\* Before the first call nothing is there.
LEMMA InitIInv == Init => IInv
<1> SUFFICES ASSUME Init PROVE IInv
  OBVIOUS
<1> USE DEF Init, NoRow, Row
<1>1. TypeOK
  <2>1. scheduler \in Scheduler
    <3>1. [r \in Requests |-> 0] \in [Requests -> 0..MaxPools] /\ -1 \in -1..(MaxPools - 1)
      BY MaxPoolsAssumption
    <3>2. /\ scheduler.type \in Schedulers /\ scheduler.last = -1 /\ scheduler.by = "nobody"
          /\ scheduler.counted = [r \in Requests |-> 0] /\ scheduler.crashed = FALSE
          /\ scheduler = [type |-> scheduler.type, last |-> scheduler.last, by |-> scheduler.by,
                         counted |-> scheduler.counted, crashed |-> scheduler.crashed]
      OBVIOUS
    <3> QED BY <3>1, <3>2 DEF Scheduler
  <2>2. run \in [Requests -> Run] /\ row \in [Requests -> Execution] /\ client \in [Requests -> Client]
    BY DEF Run, Execution, Client
  <2> QED BY <2>1, <2>2, PendingCapAssumption DEF TypeOK, Places
<1>2. RowInv
  BY DEF RowInv, QueuedOnce, HandedOver, AfterHandOver, RowsCreated, FailedIsFinal
<1>3. Picks /\ Rows
  BY DEF Picks, PickedInRange, CrashIsARace, Rows, CompletedIsHandedOver, EndTimeConsistent
<1> QED BY <1>1, <1>2, <1>3 DEF IInv

\* What a call of the repository, or the end of the connection, leaves of the client.
LEMMA ClientTypes ==
    ASSUME TypeOK, NEW r \in Requests, CallFails(r) \/ CallSucceeds(r) \/ ClientLeaves(r)
    PROVE  client' \in [Requests -> Client]
<1>1. [client[r] EXCEPT !.failed = TRUE] \in Client /\ [client[r] EXCEPT !.left = TRUE] \in Client
  BY DEF TypeOK, Client
<1> QED BY <1>1 DEF TypeOK, CallFails, CallSucceeds, ClientLeaves

\* A row is written for its own request only.
LEMMA RowTypes ==
    ASSUME TypeOK, NEW r \in Requests, NEW new \in Execution, SetRow(r, new)
    PROVE  row' \in [Requests -> Execution] /\ row'[r] = new
           /\ \A s \in Requests : s # r => row'[s] = row[s]
BY DEF TypeOK, SetRow

\* A write that fails has had its effect or none.
LEMMA WriteTypes ==
    ASSUME TypeOK, NEW r \in Requests, NEW new \in Execution, WriteRow(r, new)
    PROVE  /\ client' \in [Requests -> Client] /\ row' \in [Requests -> Execution]
           /\ row'[r] \in {row[r], new} /\ \A s \in Requests : s # r => row'[s] = row[s]
<1>1. CASE SetRow(r, new) /\ UNCHANGED client
  BY <1>1, RowTypes DEF TypeOK
<1>2. CASE SetRow(r, new) /\ CallFails(r)
  BY <1>2, RowTypes, ClientTypes
<1>3. CASE UNCHANGED row /\ CallFails(r)
  BY <1>3, ClientTypes DEF TypeOK
<1> QED BY <1>1, <1>2, <1>3 DEF WriteRow

\* What the three writers do besides.
LEMMA WriteFrames ==
    ASSUME NEW r \in Requests
    PROVE  /\ CreateExecution(r) =>
                /\ app[r] = "idle" /\ app' = [app EXCEPT ![r] = "send"]
                /\ UNCHANGED <<pendingTasksChan, scheduler, run, cancel>>
           /\ AppUpdates(r) =>
                /\ app[r] = "update" /\ app' = [app EXCEPT ![r] = "done"]
                /\ UNCHANGED <<pendingTasksChan, scheduler, run, cancel>>
           /\ ManagerUpdates(r) =>
                /\ run[r].writing # "none"
                /\ run' = [run EXCEPT ![r] = [stage |-> StageAfter(@.writing), writing |-> "none"]]
                /\ UNCHANGED <<app, pendingTasksChan, scheduler, cancel>>
<1>1. CreateExecution(r) => /\ app[r] = "idle" /\ app' = [app EXCEPT ![r] = "send"]
                            /\ UNCHANGED <<pendingTasksChan, scheduler, run, cancel>>
  BY Zenon DEF CreateExecution
<1>2. AppUpdates(r) => /\ app[r] = "update" /\ app' = [app EXCEPT ![r] = "done"]
                       /\ UNCHANGED <<pendingTasksChan, scheduler, run, cancel>>
  BY Zenon DEF AppUpdates
<1>3. ManagerUpdates(r) =>
         /\ run[r].writing # "none"
         /\ run' = [run EXCEPT ![r] = [stage |-> StageAfter(@.writing), writing |-> "none"]]
         /\ UNCHANGED <<app, pendingTasksChan, scheduler, cancel>>
  BY Zenon DEF ManagerUpdates
<1> QED BY <1>1, <1>2, <1>3

\* The rows the three writers store.
LEMMA StoredRows ==
    /\ Row("Pending", FALSE) \in Execution /\ Row("Stopped", TRUE) \in Execution
    /\ StoredStatus("Completed", TRUE) = Row("Completed", TRUE)
    /\ StoredStatus("Completed", TRUE) \in Execution
    /\ \A status \in {"RUNNING", "FINISHED", "ERROR"} :
         StoredStatus(ConvertHealth(status), FALSE) \in Execution
    /\ StoredStatus(ConvertHealth("RUNNING"), FALSE) = Row("Running", FALSE)
    /\ StoredStatus(ConvertHealth("FINISHED"), FALSE) = Row("Completed", FALSE)
    /\ StoredStatus(ConvertHealth("ERROR"), FALSE) = Row("Failed", TRUE)
BY StoredOutcomes DEF StoredStatus, Row, Execution, IsTerminal, ManagerTaskState

\* The index that a pick leaves is below the number of its candidates.
LEMMA PickFields ==
    ASSUME TypeOK, NEW r \in Requests, PickNext(r)
    PROVE  /\ scheduler' \in Scheduler /\ scheduler'.by = r
           /\ scheduler'.last < scheduler'.counted[r] /\ scheduler'.crashed = scheduler.crashed
<1>1. PICK n \in 1..MaxPools :
         scheduler' = [scheduler EXCEPT !.last = (@ + 1) % n, !.by = r, !.counted[r] = n]
  BY DEF PickNext
<1> DEFINE last == (scheduler.last + 1) % n
           counted == [scheduler.counted EXCEPT ![r] = n]
<1>2. n \in Nat \ {0} /\ n <= MaxPools /\ scheduler.last + 1 \in Nat
  BY MaxPoolsAssumption DEF TypeOK, Scheduler
<1>3. last \in 0..(n - 1)
  BY <1>2
<1>4. counted \in [Requests -> 0..MaxPools] /\ counted[r] = n
  BY <1>2 DEF TypeOK, Scheduler
<1>5. scheduler' = [type |-> scheduler.type, last |-> last, by |-> r, counted |-> counted,
                    crashed |-> scheduler.crashed]
  BY <1>1 DEF TypeOK, Scheduler
<1> HIDE DEF last, counted
<1> QED BY <1>2, <1>3, <1>4, <1>5, MaxPoolsAssumption DEF TypeOK, Scheduler

\* What a pick that ends changes of the scheduler.
LEMMA IndexedFields ==
    ASSUME TypeOK, NEW r \in Requests, PickIndexed(r)
    PROVE  /\ scheduler' \in Scheduler /\ scheduler'.last = scheduler.last
           /\ scheduler'.by \in {scheduler.by, "nobody"}
           /\ \A s \in Requests : s # r => scheduler'.counted[s] = scheduler.counted[s]
           /\ scheduler'.crashed => scheduler' = [scheduler EXCEPT !.crashed = TRUE] \/ scheduler.crashed
<1> DEFINE counted == [scheduler.counted EXCEPT ![r] = 0]
           by == IF scheduler.by = r THEN "nobody" ELSE scheduler.by
<1>1. scheduler \in Scheduler
  BY DEF TypeOK
<1>2. counted \in [Requests -> 0..MaxPools] /\ \A s \in Requests : s # r => counted[s] = scheduler.counted[s]
  BY <1>1, MaxPoolsAssumption DEF Scheduler
<1>3. CASE scheduler' = [scheduler EXCEPT !.crashed = TRUE]
  BY <1>1, <1>3 DEF Scheduler
<1>4. CASE scheduler' = [scheduler EXCEPT !.counted[r] = 0, !.by = IF @ = r THEN "nobody" ELSE @]
  <2>1. scheduler' = [type |-> scheduler.type, last |-> scheduler.last, by |-> by,
                      counted |-> counted, crashed |-> scheduler.crashed]
    BY <1>1, <1>4 DEF Scheduler
  <2> HIDE DEF counted
  <2> QED BY <1>1, <1>2, <2>1 DEF Scheduler
<1> QED BY <1>3, <1>4 DEF PickIndexed

\* The variables keep their types.
LEMMA NextKeepsTypes == TypeOK /\ [Next]_vars => TypeOK'
<1> SUFFICES ASSUME TypeOK, [Next]_vars PROVE TypeOK'
  OBVIOUS
<1>1. CASE UNCHANGED vars
  BY <1>1 DEF vars, TypeOK
<1>2. CASE Dequeue
  <2>1. /\ Head(pendingTasksChan) \in Requests /\ Tail(pendingTasksChan) \in Seq(Requests)
        /\ Len(Tail(pendingTasksChan)) <= PendingCap
    BY <1>2, HeadTailProperties, LenProperties, PendingCapAssumption DEF Dequeue, TypeOK
  <2> QED BY <1>2, <2>1 DEF Dequeue, TypeOK, Places
<1>3. ASSUME NEW r \in Requests,
             LookupFails(r) \/ QueueFull(r) \/ NoPool(r) \/ PickBest(r) \/ Announced(r)
      PROVE  TypeOK'
  BY <1>3 DEF LookupFails, QueueFull, NoPool, PickBest, Announced, TypeOK, Places
<1>4. ASSUME NEW r \in Requests, CreateExecution(r) PROVE TypeOK'
  <2>1. client' \in [Requests -> Client] /\ row' \in [Requests -> Execution]
    BY <1>4, WriteTypes, StoredRows DEF CreateExecution
  <2> QED BY <1>4, <2>1 DEF CreateExecution, TypeOK, Places
<1>5. ASSUME NEW r \in Requests, Enqueue(r) PROVE TypeOK'
  <2>1. pendingTasksChan' \in Seq(Requests) /\ Len(pendingTasksChan') <= PendingCap
    BY <1>5, AppendProperties, LenProperties, PendingCapAssumption DEF Enqueue, TypeOK
  <2> QED BY <1>5, <2>1 DEF Enqueue, TypeOK, Places
<1>6. ASSUME NEW r \in Requests, PickNext(r) PROVE TypeOK'
  BY <1>6, PickFields DEF PickNext, TypeOK, Places
<1>7. ASSUME NEW r \in Requests, PickIndexed(r) PROVE TypeOK'
  <2>1. scheduler' \in Scheduler
    BY <1>7, IndexedFields
  <2> QED BY <1>7, <2>1 DEF PickIndexed, TypeOK, Places
<1>8. ASSUME NEW r \in Requests, HandOver(r) \/ ManagerGivesUp(r) PROVE TypeOK'
  <2>1. run' \in [Requests -> Run]
    <3>1. [run[r] EXCEPT !.stage = "handed"] \in Run /\ [run[r] EXCEPT !.stage = "ended"] \in Run
      BY DEF TypeOK, Run
    <3> QED BY <1>8, <3>1 DEF HandOver, ManagerGivesUp, TypeOK
  <2> QED BY <1>8, <2>1 DEF HandOver, ManagerGivesUp, TypeOK, Places
<1>9. ASSUME NEW r \in Requests, AppFinds(r) \/ AppUpdates(r) PROVE TypeOK'
  <2>1. client' \in [Requests -> Client] /\ row' \in [Requests -> Execution]
    BY <1>9, ClientTypes, WriteTypes, StoredRows DEF AppFinds, AppUpdates, RowFound, TypeOK
  <2> QED BY <1>9, <2>1 DEF AppFinds, AppUpdates, TypeOK, Places
<1>10. ASSUME NEW r \in Requests, ManagerFinds(r) PROVE TypeOK'
  <2>1. client' \in [Requests -> Client]
    BY <1>10, ClientTypes DEF ManagerFinds, RowFound
  <2>2. run' \in [Requests -> Run]
    <3>1. PICK status \in {"RUNNING", "FINISHED", "ERROR"} :
             \/ run' = [run EXCEPT ![r].writing = status]
             \/ run' = [run EXCEPT ![r].stage = StageAfter(status)]
      BY <1>10 DEF ManagerFinds <3>2. [run[r] EXCEPT !.writing = status] \in Run /\ [run[r] EXCEPT
         !.stage = StageAfter(status)] \in Run
      BY DEF TypeOK, Run, StageAfter
    <3> QED BY <3>1, <3>2 DEF TypeOK
  <2> QED BY <1>10, <2>1, <2>2 DEF ManagerFinds, TypeOK
<1>11. ASSUME NEW r \in Requests, ManagerUpdates(r) PROVE TypeOK'
  <2>1. run[r] \in Run /\ run[r].writing \in {"RUNNING", "FINISHED", "ERROR"}
    BY <1>11 DEF ManagerUpdates, TypeOK, Run
  <2>2. client' \in [Requests -> Client] /\ row' \in [Requests -> Execution]
    BY <1>11, <2>1, WriteTypes, StoredRows DEF ManagerUpdates
  <2>3. run' \in [Requests -> Run]
    BY <1>11, <2>1 DEF ManagerUpdates, TypeOK, Run, StageAfter
  <2> QED BY <1>11, <2>2, <2>3 DEF ManagerUpdates, TypeOK
<1>12. ASSUME NEW r \in Requests, CancelFinds(r) \/ CancelUpdates(r) PROVE TypeOK'
  BY <1>12, StoredRows DEF CancelFinds, CancelUpdates, TypeOK
<1>13. ASSUME NEW r \in Requests, ClientLeaves(r) PROVE TypeOK'
  BY <1>13, ClientTypes DEF ClientLeaves, TypeOK
<1> QED BY <1>1, <1>2, <1>3, <1>4, <1>5, <1>6, <1>7, <1>8, <1>9, <1>10, <1>11, <1>12, <1>13, NextCases

-----------------------------------------------------------------------------
(* The channel *)

\* A request enters the channel from AddTask and leaves it for its goroutine, once.
LEMMA NextKeepsQueuedOnce == TypeOK /\ QueuedOnce /\ [Next]_vars => QueuedOnce'
<1> SUFFICES ASSUME TypeOK, QueuedOnce, [Next]_vars PROVE QueuedOnce'
  OBVIOUS
<1> DEFINE ch == pendingTasksChan
<1>0. /\ app \in [Requests -> Places] /\ ch \in Seq(Requests) /\ Len(ch) \in Nat
      /\ \A i \in 1..Len(ch) : ch[i] \in Requests
  BY LenProperties, ElementOfSeq DEF TypeOK
<1>1. ASSUME pendingTasksChan' = pendingTasksChan,
             \A r \in Requests : app[r] = "queued" => app'[r] = "queued"
      PROVE  QueuedOnce'
  BY <1>0, <1>1 DEF QueuedOnce
<1>2. CASE Dequeue
  <2>1. /\ ch # <<>> /\ ch' = Tail(ch) /\ app' = [app EXCEPT ![ch[1]] = "select"]
    BY <1>2 DEF Dequeue
  <2>2. Len(ch') = Len(ch) - 1 /\ \A i \in 1..Len(ch') : ch'[i] = ch[i + 1]
    BY <1>0, <2>1, HeadTailProperties
  <2> HIDE DEF ch
  <2>3. ASSUME NEW i \in 1..Len(ch') PROVE app'[ch'[i]] = "queued"
    <3>1. i + 1 \in 1..Len(ch) /\ 1 \in 1..Len(ch) /\ i + 1 # 1
      BY <1>0, <2>2
    <3>2. ch[i + 1] # ch[1]
      BY <3>1 DEF QueuedOnce, ch
    <3> QED BY <1>0, <2>1, <2>2, <3>1, <3>2 DEF QueuedOnce, ch
  <2>4. ASSUME NEW i \in 1..Len(ch'), NEW j \in 1..Len(ch'), ch'[i] = ch'[j] PROVE i = j
    <3>1. i + 1 \in 1..Len(ch) /\ j + 1 \in 1..Len(ch) /\ ch[i + 1] = ch[j + 1]
      BY <1>0, <2>2, <2>4
    <3>2. i + 1 = j + 1
      BY <3>1 DEF QueuedOnce, ch
    <3> QED BY <3>2
  <2> QED BY <2>3, <2>4 DEF QueuedOnce, ch
<1>3. ASSUME NEW r \in Requests, Enqueue(r) PROVE QueuedOnce'
  <2>1. ch' = Append(ch, r) /\ app[r] = "send" /\ app' = [app EXCEPT ![r] = "queued"]
    BY <1>3 DEF Enqueue
  <2>2. /\ Len(ch') = Len(ch) + 1 /\ ch'[Len(ch) + 1] = r
        /\ \A i \in 1..Len(ch) : ch'[i] = ch[i]
    BY <1>0, <2>1, AppendProperties
  <2>3. \A i \in 1..Len(ch) : ch[i] # r /\ app'[ch[i]] = "queued"
    BY <1>0, <2>1 DEF QueuedOnce
  <2> HIDE DEF ch
  <2>4. \A i \in 1..Len(ch') : i \in 1..Len(ch) \/ i = Len(ch) + 1
    BY <1>0, <2>2
  <2>5. \A i \in 1..Len(ch') : app'[ch'[i]] = "queued"
    BY <1>0, <2>1, <2>2, <2>3, <2>4
  <2>6. \A i, j \in 1..Len(ch') : ch'[i] = ch'[j] => i = j
    BY <2>2, <2>3, <2>4 DEF QueuedOnce, ch
  <2> QED BY <2>5, <2>6 DEF QueuedOnce, ch
<1>4. ASSUME NEW r \in Requests,
             \/ LookupFails(r) \/ CreateExecution(r) \/ QueueFull(r) \/ NoPool(r)
             \/ PickBest(r) \/ PickNext(r) \/ PickIndexed(r) \/ HandOver(r)
             \/ Announced(r) \/ AppFinds(r) \/ AppUpdates(r)
      PROVE  QueuedOnce'
  <2>1. pendingTasksChan' = pendingTasksChan /\ app[r] # "queued"
    BY <1>4, WriteFrames DEF LookupFails, QueueFull, NoPool, PickBest, PickNext, PickIndexed,
       HandOver, Announced, AppFinds
  <2>2. app' = app \/ \E place \in Places : app' = [app EXCEPT ![r] = place]
    BY <1>4, WriteFrames DEF LookupFails, QueueFull, NoPool, PickBest, PickNext, PickIndexed,
       HandOver, Announced, AppFinds, Places
  <2> QED BY <1>0, <1>1, <2>1, <2>2
<1>5. ASSUME NEW r \in Requests,
             \/ ManagerFinds(r) \/ ManagerUpdates(r) \/ ManagerGivesUp(r)
             \/ CancelFinds(r) \/ CancelUpdates(r) \/ ClientLeaves(r)
      PROVE  QueuedOnce'
  BY <1>1, <1>5, WriteFrames DEF ManagerFinds, ManagerGivesUp, CancelFinds, CancelUpdates,
     ClientLeaves
<1>6. CASE UNCHANGED vars
  BY <1>1, <1>6 DEF vars
<1> QED BY <1>2, <1>3, <1>4, <1>5, <1>6, NextCases

-----------------------------------------------------------------------------
(* The hand-over and the rows *)

\* What the manager does to the goroutine of a request, and to no other.
LEMMA RunFields ==
    ASSUME TypeOK, NEW r \in Requests,
           HandOver(r) \/ ManagerFinds(r) \/ ManagerUpdates(r) \/ ManagerGivesUp(r)
    PROVE  /\ \A s \in Requests : s # r => run'[s] = run[s]
           /\ HandOver(r) => run'[r].stage = "handed" /\ run'[r].writing = run[r].writing
           /\ ManagerFinds(r) =>
                /\ run[r].stage \in {"handed", "following"} /\ run[r].writing = "none"
                /\ \/ run'[r].stage = run[r].stage
                   \/ run'[r].stage \in {"following", "ended"} /\ run'[r].writing = "none"
           /\ ManagerUpdates(r) =>
                /\ run[r].writing \in {"RUNNING", "FINISHED", "ERROR"}
                /\ run'[r].stage = StageAfter(run[r].writing) /\ run'[r].writing = "none"
           /\ ManagerGivesUp(r) =>
                /\ run[r].stage \in {"handed", "following"} /\ run[r].writing = "none"
                /\ run'[r].stage = "ended" /\ run'[r].writing = "none"
<1>0. run \in [Requests -> Run] /\ run[r] \in Run
  BY DEF TypeOK
<1>1. ASSUME HandOver(r)
      PROVE  /\ \A s \in Requests : s # r => run'[s] = run[s]
             /\ run'[r].stage = "handed" /\ run'[r].writing = run[r].writing
  BY <1>0, <1>1 DEF HandOver, Run
<1>2. ASSUME ManagerFinds(r)
      PROVE  /\ \A s \in Requests : s # r => run'[s] = run[s]
             /\ run[r].stage \in {"handed", "following"} /\ run[r].writing = "none"
             /\ \/ run'[r].stage = run[r].stage
                \/ run'[r].stage \in {"following", "ended"} /\ run'[r].writing = "none"
  <2>1. PICK status \in {"RUNNING", "FINISHED", "ERROR"} :
           /\ run[r].stage \in (IF status = "RUNNING" THEN {"handed"} ELSE {"handed", "following"})
           /\ \/ run' = [run EXCEPT ![r].writing = status]
              \/ run' = [run EXCEPT ![r].stage = StageAfter(status)]
    BY <1>2 DEF ManagerFinds
  <2>2. run[r].writing = "none"
    BY <1>2 DEF ManagerFinds
  <2>3. CASE run' = [run EXCEPT ![r].writing = status]
    BY <1>0, <2>1, <2>2, <2>3 DEF Run
  <2>4. CASE run' = [run EXCEPT ![r].stage = StageAfter(status)]
    BY <1>0, <2>1, <2>2, <2>4 DEF Run, StageAfter
  <2> QED BY <2>1, <2>3, <2>4
<1>3. ASSUME ManagerUpdates(r)
      PROVE  /\ \A s \in Requests : s # r => run'[s] = run[s]
             /\ run[r].writing \in {"RUNNING", "FINISHED", "ERROR"}
             /\ run'[r].stage = StageAfter(run[r].writing) /\ run'[r].writing = "none"
  BY <1>0, <1>3 DEF ManagerUpdates, Run
<1>4. ASSUME ManagerGivesUp(r)
      PROVE  /\ \A s \in Requests : s # r => run'[s] = run[s]
             /\ run[r].stage \in {"handed", "following"} /\ run[r].writing = "none"
             /\ run'[r].stage = "ended" /\ run'[r].writing = "none"
  BY <1>0, <1>4 DEF ManagerGivesUp, Run
<1> QED BY <1>1, <1>2, <1>3, <1>4

\* Only the hand-over makes a request known to the manager, and it happens once.
LEMMA NextKeepsHandedOver == TypeOK /\ QueuedOnce /\ HandedOver /\ [Next]_vars => HandedOver'
<1> SUFFICES ASSUME TypeOK, QueuedOnce, HandedOver, [Next]_vars PROVE HandedOver'
  OBVIOUS
<1>0. app \in [Requests -> Places] /\ run \in [Requests -> Run]
  BY DEF TypeOK
<1>1. ASSUME run' = run, \A r \in Requests : app'[r] \in AfterHandOver <=> app[r] \in AfterHandOver
      PROVE  HandedOver'
  BY <1>1 DEF HandedOver
<1>2. CASE Dequeue
  <2>1. /\ Head(pendingTasksChan) \in Requests /\ app[Head(pendingTasksChan)] = "queued"
    <3>1. 1 \in 1..Len(pendingTasksChan) /\ pendingTasksChan[1] = Head(pendingTasksChan)
      BY <1>2, LenProperties, EmptySeq DEF Dequeue, TypeOK
    <3> QED BY <3>1, ElementOfSeq DEF TypeOK, QueuedOnce
  <2> QED BY <1>0, <1>1, <1>2, <2>1 DEF Dequeue, AfterHandOver
<1>3. ASSUME NEW r \in Requests,
             \/ LookupFails(r) \/ CreateExecution(r) \/ Enqueue(r) \/ QueueFull(r) \/ NoPool(r)
             \/ PickBest(r) \/ PickNext(r) \/ PickIndexed(r) \/ Announced(r) \/ AppFinds(r) \/ AppUpdates(r)
             \/ CancelFinds(r) \/ CancelUpdates(r) \/ ClientLeaves(r)
      PROVE  HandedOver'
  BY <1>0, <1>1, <1>3, WriteFrames DEF LookupFails, Enqueue, QueueFull, NoPool, PickBest,
     PickNext, PickIndexed, Announced, AppFinds, CancelFinds, CancelUpdates, ClientLeaves,
     AfterHandOver
<1>4. ASSUME NEW r \in Requests, HandOver(r) PROVE HandedOver'
  <2>1. app[r] = "handover" /\ app' = [app EXCEPT ![r] = "announce"]
    BY <1>4 DEF HandOver
  <2> QED BY <1>0, <1>4, <2>1, RunFields DEF HandedOver, AfterHandOver
<1>5. ASSUME NEW r \in Requests, ManagerFinds(r) \/ ManagerUpdates(r) \/ ManagerGivesUp(r) PROVE HandedOver'
  <2>1. app' = app
    BY <1>5 DEF ManagerFinds, ManagerUpdates, ManagerGivesUp
  <2>2. run[r].stage # "none" /\ run'[r].stage # "none"
        /\ (run'[r].writing # "none" => run'[r].stage \in {"handed", "following"})
    BY <1>5, RunFields DEF HandedOver, StageAfter
  <2> QED BY <1>5, <2>1, <2>2, RunFields DEF HandedOver
<1>6. CASE UNCHANGED vars
  BY <1>1, <1>6 DEF vars
<1> QED BY <1>2, <1>3, <1>4, <1>5, <1>6, NextCases

\* Who changes a row, and to what.
LEMMA RowSteps ==
    ASSUME TypeOK, [Next]_vars, NEW r \in Requests
    PROVE  \/ row'[r] = row[r]
           \/ CreateExecution(r) /\ row'[r] = Row("Pending", FALSE)
           \/ AppUpdates(r) /\ row'[r] = Row("Completed", TRUE)
           \/ /\ ManagerUpdates(r) /\ run[r].writing \in {"RUNNING", "FINISHED", "ERROR"}
              /\ row'[r] = StoredStatus(ConvertHealth(run[r].writing), FALSE)
           \/ CancelUpdates(r) /\ row'[r] = Row("Stopped", TRUE)
<1>1. CASE row' = row
  BY <1>1
<1>2. ASSUME NEW s \in Requests, CreateExecution(s), row' # row
      PROVE  row'[r] = row[r] \/ (s = r /\ row'[r] = Row("Pending", FALSE))
  BY <1>2, WriteTypes, StoredRows DEF CreateExecution
<1>3. ASSUME NEW s \in Requests, AppUpdates(s), row' # row
      PROVE  row'[r] = row[r] \/ (s = r /\ row'[r] = Row("Completed", TRUE))
  BY <1>3, WriteTypes, StoredRows DEF AppUpdates
<1>4. ASSUME NEW s \in Requests, ManagerUpdates(s), row' # row
      PROVE  /\ run[s].writing \in {"RUNNING", "FINISHED", "ERROR"}
             /\ row'[r] = row[r] \/ (s = r /\ row'[r] = StoredStatus(ConvertHealth(run[r].writing), FALSE))
  <2>1. run[s].writing \in {"RUNNING", "FINISHED", "ERROR"}
    BY <1>4, RunFields
  <2> QED BY <1>4, <2>1, WriteTypes, StoredRows DEF ManagerUpdates
<1>5. ASSUME NEW s \in Requests, CancelUpdates(s), row' # row
      PROVE  row'[r] = row[r] \/ (s = r /\ row'[r] = Row("Stopped", TRUE))
  BY <1>5 DEF CancelUpdates, TypeOK
<1>6. CASE Dequeue
  BY <1>1, <1>6 DEF Dequeue
<1>7. ASSUME NEW s \in Requests,
             \/ LookupFails(s) \/ Enqueue(s) \/ QueueFull(s) \/ NoPool(s)
             \/ PickBest(s) \/ PickNext(s) \/ PickIndexed(s) \/ HandOver(s) \/ Announced(s) \/ AppFinds(s)
             \/ ManagerFinds(s) \/ ManagerGivesUp(s) \/ CancelFinds(s) \/ ClientLeaves(s)
      PROVE  row' = row
  BY <1>7 DEF LookupFails, Enqueue, QueueFull, NoPool, PickBest, PickNext, PickIndexed, HandOver,
              Announced, AppFinds, ManagerFinds, ManagerGivesUp, CancelFinds, ClientLeaves
<1>8. CASE UNCHANGED vars
  BY <1>1, <1>8 DEF vars
<1> QED BY <1>1, <1>2, <1>3, <1>4, <1>5, <1>6, <1>7, <1>8, NextCases

\* A request that is idle stays without a row and without a cancellation.
LEMMA NextKeepsRowsCreated == TypeOK /\ QueuedOnce /\ HandedOver /\ RowsCreated /\ [Next]_vars => RowsCreated'
<1> SUFFICES ASSUME TypeOK, QueuedOnce, HandedOver, RowsCreated, [Next]_vars,
                    NEW r \in Requests, app'[r] = "idle"
             PROVE  row'[r] = NoRow /\ ~cancel'[r]
  BY DEF RowsCreated
<1>0. app \in [Requests -> Places] /\ cancel \in [Requests -> BOOLEAN]
  BY DEF TypeOK
<1>1. app[r] = "idle" /\ ~CreateExecution(r)
  <2>1. CASE app' = app
    BY <1>0, <2>1 DEF CreateExecution
  <2>2. CASE Dequeue
    <3>1. Head(pendingTasksChan) \in Requests
      BY <2>2, HeadTailProperties DEF Dequeue, TypeOK
    <3> QED BY <1>0, <2>2, <3>1 DEF Dequeue, CreateExecution
  <2>3. ASSUME NEW s \in Requests,
               \/ LookupFails(s) \/ CreateExecution(s) \/ Enqueue(s) \/ QueueFull(s) \/ NoPool(s)
               \/ PickBest(s) \/ PickNext(s) \/ PickIndexed(s) \/ HandOver(s) \/ Announced(s) \/ AppFinds(s) \/ AppUpdates(s)
        PROVE  app[r] = "idle" /\ ~CreateExecution(r)
    <3>1. app' = app \/ \E p \in Places \ {"idle"} : app' = [app EXCEPT ![s] = p]
      BY <2>3, WriteFrames DEF LookupFails, Enqueue, QueueFull, NoPool, PickBest, PickNext,
         PickIndexed, HandOver, Announced, AppFinds, Places
    <3>2. CreateExecution(r) => app'[r] = "send"
      BY <1>0 DEF CreateExecution
    <3>3. app'[r] = app[r] \/ app'[r] # "idle"
      BY <1>0, <3>1
    <3> QED BY <3>2, <3>3
  <2>4. ASSUME NEW s \in Requests,
               \/ ManagerFinds(s) \/ ManagerUpdates(s) \/ ManagerGivesUp(s)
               \/ CancelFinds(s) \/ CancelUpdates(s) \/ ClientLeaves(s)
        PROVE  app' = app
    BY <2>4, WriteFrames DEF ManagerFinds, ManagerGivesUp, CancelFinds, CancelUpdates,
       ClientLeaves
  <2>5. CASE UNCHANGED vars
    BY <2>1, <2>5 DEF vars
  <2> QED BY <2>1, <2>2, <2>3, <2>4, <2>5, NextCases
<1>2. row[r] = NoRow /\ ~cancel[r] /\ run[r].stage = "none" /\ run[r].writing = "none"
  BY <1>1 DEF RowsCreated, HandedOver, AfterHandOver
<1>3. ~AppUpdates(r) /\ ~ManagerUpdates(r) /\ ~CancelUpdates(r) /\ ~CancelFinds(r)
  BY <1>1, <1>2 DEF AppUpdates, ManagerUpdates, CancelUpdates, CancelFinds
<1>4. row'[r] = NoRow
  BY <1>1, <1>2, <1>3, RowSteps
<1>5. cancel'[r] = cancel[r]
  <2>1. ASSUME NEW s \in Requests, CancelFinds(s) \/ CancelUpdates(s) PROVE cancel'[r] = cancel[r]
    BY <1>0, <1>3, <2>1 DEF CancelFinds, CancelUpdates
  <2>2. ASSUME NEW s \in Requests,
               \/ LookupFails(s) \/ CreateExecution(s) \/ Enqueue(s) \/ QueueFull(s) \/ NoPool(s)
               \/ PickBest(s) \/ PickNext(s) \/ PickIndexed(s) \/ HandOver(s) \/ Announced(s) \/ AppFinds(s) \/ AppUpdates(s)
               \/ ManagerFinds(s) \/ ManagerUpdates(s) \/ ManagerGivesUp(s) \/ ClientLeaves(s)
        PROVE  cancel' = cancel
    BY <2>2, WriteFrames DEF LookupFails, Enqueue, QueueFull, NoPool, PickBest, PickNext,
       PickIndexed, HandOver, Announced, AppFinds, ManagerFinds, ManagerGivesUp, ClientLeaves
  <2>3. CASE UNCHANGED vars \/ Dequeue
    BY <2>3 DEF vars, Dequeue
  <2> QED BY <2>1, <2>2, <2>3, NextCases
<1> QED BY <1>2, <1>4, <1>5

\* How the goroutine of the manager gets on: it is created by the hand-over, and does not go back.
LEMMA RunSteps ==
    ASSUME TypeOK, HandedOver, [Next]_vars, NEW r \in Requests
    PROVE  /\ run[r].stage # "none" => run'[r].stage # "none"
           /\ \/ run'[r].stage = "ended" /\ run'[r].writing = "none"
              \/ ~(run[r].stage = "ended" /\ run[r].writing = "none")
           /\ ManagerUpdates(r) => run'[r].stage = StageAfter(run[r].writing) /\ run'[r].writing = "none"
<1>1. ASSUME NEW s \in Requests, HandOver(s) \/ ManagerFinds(s) \/ ManagerUpdates(s) \/ ManagerGivesUp(s)
      PROVE  /\ run[r].stage # "none" => run'[r].stage # "none"
             /\ \/ run'[r].stage = "ended" /\ run'[r].writing = "none"
                \/ ~(run[r].stage = "ended" /\ run[r].writing = "none")
  <2>1. HandOver(s) => run[s].stage = "none"
    BY DEF HandOver, HandedOver, AfterHandOver
  <2> QED BY <1>1, <2>1, RunFields DEF StageAfter
<1>2. ASSUME NEW s \in Requests,
             \/ LookupFails(s) \/ CreateExecution(s) \/ Enqueue(s) \/ QueueFull(s) \/ NoPool(s)
             \/ PickBest(s) \/ PickNext(s) \/ PickIndexed(s) \/ Announced(s) \/ AppFinds(s) \/ AppUpdates(s)
             \/ CancelFinds(s) \/ CancelUpdates(s) \/ ClientLeaves(s)
      PROVE  run' = run
  BY <1>2, WriteFrames DEF LookupFails, Enqueue, QueueFull, NoPool, PickBest, PickNext,
     PickIndexed, Announced, AppFinds, CancelFinds, CancelUpdates, ClientLeaves
<1>3. UNCHANGED vars \/ Dequeue => run' = run
  BY DEF vars, Dequeue
<1>4. ManagerUpdates(r) => run'[r].stage = StageAfter(run[r].writing) /\ run'[r].writing = "none"
  BY RunFields
<1> QED BY <1>1, <1>2, <1>3, <1>4, NextCases

\* A failure is the last thing the manager stores of a request.
LEMMA NextKeepsFailedIsFinal ==
    TypeOK /\ HandedOver /\ FailedIsFinal /\ [Next]_vars => FailedIsFinal'
<1> SUFFICES ASSUME TypeOK, HandedOver, FailedIsFinal, [Next]_vars,
                    NEW r \in Requests, row'[r].state = "Failed"
             PROVE  run'[r].stage = "ended" /\ run'[r].writing = "none"
  BY DEF FailedIsFinal
<1>1. CASE row'[r] = row[r]
  BY <1>1, RunSteps DEF FailedIsFinal
<1>2. CASE /\ ManagerUpdates(r) /\ run[r].writing \in {"RUNNING", "FINISHED", "ERROR"}
           /\ row'[r] = StoredStatus(ConvertHealth(run[r].writing), FALSE)
  <2>1. Row("Running", FALSE).state # "Failed" /\ Row("Completed", FALSE).state # "Failed"
    BY DEF Row
  <2>2. run[r].writing = "ERROR"
    BY <1>2, <2>1, StoredRows
  <2>3. run'[r].stage = StageAfter(run[r].writing) /\ run'[r].writing = "none"
    BY <1>2, RunSteps
  <2>4. StageAfter("ERROR") = "ended"
    BY DEF StageAfter, FinalHealth
  <2> QED BY <2>2, <2>3, <2>4
<1>3. row'[r] \notin {Row("Pending", FALSE), Row("Completed", TRUE), Row("Stopped", TRUE)}
  BY DEF Row
<1> QED BY <1>1, <1>2, <1>3, RowSteps

\* What the rows say.
LEMMA NextKeepsRows == TypeOK /\ HandedOver /\ Rows /\ [Next]_vars => Rows'
<1> SUFFICES ASSUME TypeOK, HandedOver, Rows, [Next]_vars, NEW r \in Requests
             PROVE  /\ row'[r].state = "Completed" => run'[r].stage # "none"
                    /\ row'[r].state \in {"Failed", "Stopped"} => row'[r].ended
                    /\ row'[r].state \in {"Pending", "Running"} => ~row'[r].ended
                    /\ row'[r].state = "Completed" /\ ~row'[r].ended => run'[r].stage = "ended"
  BY DEF Rows, CompletedIsHandedOver, EndTimeConsistent
<1>1. CASE row'[r] = row[r]
  <2>1. run[r].stage = "ended" => run'[r].stage = "ended"
    BY RunSteps DEF HandedOver
  <2>2. run[r].stage # "none" => run'[r].stage # "none"
    BY RunSteps
  <2> QED BY <1>1, <2>1, <2>2 DEF Rows, CompletedIsHandedOver, EndTimeConsistent
<1>2. CASE \/ CreateExecution(r) /\ row'[r] = Row("Pending", FALSE)
           \/ CancelUpdates(r) /\ row'[r] = Row("Stopped", TRUE)
  BY <1>2 DEF Row
<1>3. CASE AppUpdates(r) /\ row'[r] = Row("Completed", TRUE)
  <2>1. run[r].stage # "none"
    BY <1>3 DEF AppUpdates, HandedOver, AfterHandOver
  <2>2. run'[r].stage # "none"
    BY <2>1, RunSteps
  <2> QED BY <1>3, <2>2 DEF Row
<1>4. CASE /\ ManagerUpdates(r) /\ run[r].writing \in {"RUNNING", "FINISHED", "ERROR"}
           /\ row'[r] = StoredStatus(ConvertHealth(run[r].writing), FALSE)
  <2>1. run'[r].stage # "none"
    BY <1>4, RunSteps DEF StageAfter
  <2>2. \/ row'[r] \in {Row("Running", FALSE), Row("Failed", TRUE)}
        \/ row'[r] = Row("Completed", FALSE) /\ run[r].writing = "FINISHED"
    BY <1>4, StoredRows
  <2>3. run[r].writing = "FINISHED" => run'[r].stage = "ended"
    BY <1>4, RunSteps DEF StageAfter, FinalHealth
  <2> QED BY <2>1, <2>2, <2>3 DEF Row
<1> QED BY <1>1, <1>2, <1>3, <1>4, RowSteps

-----------------------------------------------------------------------------
(* Picks *)

\* The index is out of range only for a request that somebody has interfered with.
LEMMA NextKeepsPicks == TypeOK /\ QueuedOnce /\ Picks /\ [Next]_vars => Picks'
<1> SUFFICES ASSUME TypeOK, QueuedOnce, Picks, [Next]_vars PROVE Picks'
  OBVIOUS
<1>0. app \in [Requests -> Places] /\ scheduler \in Scheduler
  BY DEF TypeOK
<1>1. ASSUME scheduler' = scheduler, ~scheduler.crashed,
             \A s \in Requests : app'[s] = "pick" => app[s] = "pick"
      PROVE  Picks'
  BY <1>1 DEF Picks, PickedInRange, CrashIsARace
<1>2. ASSUME NEW r \in Requests, PickNext(r), ~scheduler.crashed PROVE Picks'
  <2>1. /\ scheduler'.by = r /\ scheduler'.last < scheduler'.counted[r] /\ ~scheduler'.crashed
    BY <1>2, PickFields DEF Scheduler, TypeOK
  <2> QED BY <2>1 DEF Picks, PickedInRange, CrashIsARace
<1>3. ASSUME NEW r \in Requests, PickIndexed(r), ~scheduler.crashed PROVE Picks'
  <2>1. CASE scheduler.last < scheduler.counted[r]
    <3>1. ~scheduler'.crashed /\ app' = [app EXCEPT ![r] = "handover"]
      BY <1>0, <1>3, <2>1 DEF PickIndexed, Scheduler
    <3>2. /\ scheduler'.last = scheduler.last /\ scheduler'.by \in {scheduler.by, "nobody"}
          /\ \A s \in Requests : s # r => scheduler'.counted[s] = scheduler.counted[s]
      BY <1>3, IndexedFields
    <3> QED BY <1>0, <3>1, <3>2, RequestsAssumption DEF Picks, PickedInRange, CrashIsARace
  <2>2. CASE ~(scheduler.last < scheduler.counted[r])
    <3>1. /\ app' = app /\ app[r] = "pick" /\ scheduler'.crashed
          /\ scheduler'.last = scheduler.last /\ scheduler'.by = scheduler.by
          /\ scheduler'.counted = scheduler.counted
      BY <1>0, <1>3, <2>2 DEF PickIndexed, Scheduler
    <3>2. scheduler.by # r
      BY <2>2, <3>1 DEF Picks, PickedInRange
    <3>3. scheduler.last >= scheduler.counted[r]
      BY <1>0, <2>2, MaxPoolsAssumption DEF Scheduler
    <3> QED BY <3>1, <3>2, <3>3 DEF Picks, PickedInRange, CrashIsARace, RacedPick
  <2> QED BY <2>1, <2>2
<1>4. ASSUME NEW r \in Requests, ~scheduler.crashed,
             \/ LookupFails(r) \/ CreateExecution(r) \/ Enqueue(r) \/ QueueFull(r) \/ NoPool(r)
             \/ PickBest(r) \/ HandOver(r) \/ Announced(r) \/ AppFinds(r) \/ AppUpdates(r)
             \/ ManagerFinds(r) \/ ManagerUpdates(r) \/ ManagerGivesUp(r)
             \/ CancelFinds(r) \/ CancelUpdates(r) \/ ClientLeaves(r)
      PROVE  Picks'
  BY <1>0, <1>1, <1>4, WriteFrames DEF LookupFails, Enqueue, QueueFull, NoPool, PickBest,
     HandOver, Announced, AppFinds, ManagerFinds, ManagerGivesUp, CancelFinds, CancelUpdates,
     ClientLeaves
<1>5. CASE Dequeue /\ ~scheduler.crashed
  <2>1. Head(pendingTasksChan) \in Requests
    BY <1>5, HeadTailProperties DEF Dequeue, TypeOK
  <2> QED BY <1>0, <1>1, <1>5, <2>1 DEF Dequeue
<1>6. CASE UNCHANGED vars
  BY <1>6 DEF vars, Picks, PickedInRange, CrashIsARace, RacedPick
<1>7. Next => ~scheduler.crashed
  BY DEF Next
<1> QED BY <1>2, <1>3, <1>4, <1>5, <1>6, <1>7, NextCases

-----------------------------------------------------------------------------
(* The theorems *)

\* Every action keeps all of it.
LEMMA NextKeepsIInv == IInv /\ [Next]_vars => IInv'
BY NextKeepsTypes, NextKeepsQueuedOnce, NextKeepsHandedOver, NextKeepsRowsCreated,
   NextKeepsFailedIsFinal, NextKeepsRows, NextKeepsPicks DEF IInv, RowInv

\* The variables keep their types.
THEOREM TypeCorrect == Spec => []TypeOK
<1>1. IInv => TypeOK
  BY DEF IInv
<1> QED BY <1>1, InitIInv, NextKeepsIInv, PTL DEF Spec

\* No row says Completed of a task that has not been handed to the manager.
THEOREM CompletedRowsWereHandedOver == Spec => []CompletedIsHandedOver
<1>1. IInv => CompletedIsHandedOver
  BY DEF IInv, Rows
<1> QED BY <1>1, InitIInv, NextKeepsIInv, PTL DEF Spec

\* The EndTime of a row agrees with its state, whichever writers overwrite one another.
THEOREM EndTimesAgree == Spec => []EndTimeConsistent
<1>1. IInv => EndTimeConsistent
  BY DEF IInv, Rows
<1> QED BY <1>1, InitIInv, NextKeepsIInv, PTL DEF Spec

\* A pick that takes the program down has been raced by another.
THEOREM OnlyRacedPicksCrash == Spec => []CrashIsARace
<1>1. IInv => CrashIsARace
  BY DEF IInv, Picks
<1> QED BY <1>1, InitIInv, NextKeepsIInv, PTL DEF Spec

\* A stored failure is replaced by an update that had read the row before, and by nothing else.
THEOREM FailuresLastButForLateWriters == Spec => FailureOverwrittenOnlyLate
<1> DEFINE Late == \A r \in Requests : row[r].state = "Failed" /\ row'[r].state # "Failed"
                       => \/ app[r] = "update" /\ row'[r].state = "Completed"
                          \/ cancel[r] /\ row'[r].state = "Stopped"
<1>1. IInv /\ [Next]_vars => [Late]_vars
  <2> SUFFICES ASSUME IInv, [Next]_vars, NEW r \in Requests,
                      row[r].state = "Failed", row'[r].state # "Failed"
               PROVE  \/ app[r] = "update" /\ row'[r].state = "Completed"
                      \/ cancel[r] /\ row'[r].state = "Stopped"
    OBVIOUS
  <2>1. run[r].writing = "none" /\ app[r] # "idle"
    BY DEF IInv, RowInv, FailedIsFinal, RowsCreated, NoRow
  <2>2. ~ManagerUpdates(r) /\ ~CreateExecution(r)
    BY <2>1 DEF ManagerUpdates, CreateExecution
  <2>3. TypeOK
    BY DEF IInv
  <2>4. (AppUpdates(r) => app[r] = "update") /\ (CancelUpdates(r) => cancel[r])
    BY DEF AppUpdates, CancelUpdates
  <2>5. row'[r] # row[r]
    OBVIOUS
  <2>6. \/ AppUpdates(r) /\ row'[r] = Row("Completed", TRUE)
        \/ CancelUpdates(r) /\ row'[r] = Row("Stopped", TRUE)
    BY <2>2, <2>3, <2>5, RowSteps
  <2> QED BY <2>4, <2>6 DEF Row
<1> QED BY <1>1, InitIInv, NextKeepsIInv, PTL DEF Spec, FailureOverwrittenOnlyLate

-----------------------------------------------------------------------------
(* The definitions: what the calls hold *)

CallPcs == {"idle", "write", "remove", "insert", "sweep", "count", "find", "done"}
CallAnswers == {"none", "refused", "error", "missing", "created", "updated", "deleted", "partial",
                "unsure", "usable", "unusable"}
Walks == [sortBy : {"name", "createdAt", "id"}, desc : BOOLEAN, size : Sizes,
          page : Nat \ {0}, total : Nat, seen : Seq(Ids), from : Nat]
CallRecords == [op : (UNION {Ops[c] : c \in Calls}) \cup {"none"}, coll : Collections,
                pc : CallPcs, id : Ids \cup {0}, entity : Entities, answer : CallAnswers,
                left : Seq(Ids), batch : 1..2, removed : Nat, list : {<<>>} \cup Walks]

\* A call holds what its next step works on.
InHand(x) ==
    /\ x.pc \in {"write", "remove"} => x.id \in Ids
    /\ x.pc = "write" => x.entity.name \in Names
    /\ x.pc = "remove" => x.op \in Removals
    /\ x.pc \in {"insert", "sweep"} => x.coll = "workers" /\ x.removed + Len(x.left) <= x.batch
    /\ x.pc \in {"count", "find"} => x.list \in Walks
    /\ x.pc # "done" => x.answer = "none"
    /\ x.pc \in {"write", "remove"} => x.batch = 1
    /\ x.pc \notin {"count", "find", "done"} => x.list = <<>>

\* The rows of collection coll that a call made, and those it took away, as its record has it.
MadeBy(x, coll) ==
    IF x.coll # coll THEN 0
    ELSE IF x.answer = "created" THEN x.batch
    ELSE IF x.pc = "insert" THEN x.batch - Len(x.left) ELSE 0
TakenBy(x, coll) ==
    IF x.coll # coll THEN 0
    ELSE IF x.answer = "deleted" THEN x.batch
    ELSE IF x.pc = "sweep" THEN x.removed ELSE 0

\* The call was answered an error, and may have made a row all the same, or taken one away.
UnsureMade(x, coll) == x.coll = coll /\ x.answer = "unsure" /\ x.op \in Creations
UnsureTaken(x, coll) == x.coll = coll /\ x.answer = "unsure" /\ x.op \in Removals

Held ==
    /\ rows \in [Collections -> [Ids -> Documents \cup {NoDocument}]]
    /\ version \in [Collections -> Nat]
    /\ taken \subseteq Ids
    /\ call \in [Calls -> CallRecords]
    /\ \A c \in Calls : InHand(call[c]) /\ call[c].op \in Ops[c] \cup {"none"}

\* What a step of call c does to its record x, which becomes y, and to the rows.
Same(x, y) == \A coll \in Collections : /\ MadeBy(y, coll) = MadeBy(x, coll)
                                        /\ TakenBy(y, coll) = TakenBy(x, coll)
Quiet(x, y) ==
    /\ UNCHANGED <<rows, version>>
    /\ (y.answer = "partial" /\ y.coll = x.coll) \/ Same(x, y)
    /\ y.pc = "write" => /\ rows[y.coll][y.id] # NoDocument
                         /\ rows[y.coll][y.id].created = y.entity.created
Adds(x, y, coll, id, d) ==
    /\ rows[coll][id] = NoDocument /\ d \in Documents
    /\ y.pc # "write" /\ y.answer # "partial"
    /\ \/ \A k \in Collections : /\ MadeBy(y, k) = MadeBy(x, k) + (IF k = coll THEN 1 ELSE 0)
                                 /\ TakenBy(y, k) = TakenBy(x, k)
       \/ UnsureMade(y, coll) /\ Same(x, y)
Replaces(x, y, coll, id, d) ==
    /\ rows[coll][id] # NoDocument /\ d \in Documents
    /\ x.pc = "write" /\ y.pc = "done" /\ x.coll = coll /\ x.id = id
    /\ y.answer \in {"updated", "unsure"}
    /\ x.entity.created = d.created
    /\ Same(x, y)
Takes(x, y, coll, id, d) ==
    /\ rows[coll][id] # NoDocument /\ d = NoDocument
    /\ y.pc # "write" /\ y.answer # "partial" /\ y.coll = coll /\ Deletes(y)
    /\ \/ \A k \in Collections : /\ MadeBy(y, k) = MadeBy(x, k)
                                 /\ TakenBy(y, k) = TakenBy(x, k) + (IF k = coll THEN 1 ELSE 0)
       \/ UnsureTaken(y, coll) /\ Same(x, y)
\* A walk begins.
FirstPage(y) ==
    y.list.page = 1 /\ y.list.total = 0 /\ y.list.seen = <<>> /\ y.list.from = version[y.coll]
Effect(c, y) ==
    /\ call' = [call EXCEPT ![c] = y]
    /\ y \in CallRecords /\ InHand(y) /\ y.op \in Ops[c] \cup {"none"}
    /\ Deletes(call[c]) => Deletes(y) /\ y.coll = call[c].coll
    /\ call[c].answer = "none"
    /\ y.list = <<>> \/ Count(c) \/ Find(c) \/ y.pc = "count"
    /\ y.pc = "count" => Count(c) \/ Find(c) \/ FirstPage(y)
    /\ \/ Quiet(call[c], y)
       \/ \E coll \in Collections, id \in Ids, d \in Documents \cup {NoDocument} :
             /\ Store(coll, id, d)
             /\ Adds(call[c], y, coll, id, d) \/ Replaces(call[c], y, coll, id, d)
                \/ Takes(call[c], y, coll, id, d)

\* A call that has not begun.
LEMMA IdleCallIsRecord ==
    /\ IdleCall \in CallRecords /\ IdleCall.op = "none" /\ InHand(IdleCall)
    /\ NoEntity \in Entities
<1>1. NoEntity \in Entities
  BY DEF NoEntity, Entities, WorkerTypes, States
<1>2. <<>> \in Seq(Ids)
  BY EmptySeq
<1>3. /\ "none" \in (UNION {Ops[c] : c \in Calls}) \cup {"none"} /\ "tasks" \in Collections
      /\ "idle" \in CallPcs /\ 0 \in Ids \cup {0} /\ "none" \in CallAnswers
      /\ <<>> \in {<<>>} \cup Walks /\ 1 \in 1..2 /\ 0 \in Nat
  BY DEF Collections, CallPcs, CallAnswers
<1>4. IdleCall \in CallRecords
  BY <1>1, <1>2, <1>3 DEF IdleCall, CallRecords
<1>5. /\ IdleCall.op = "none" /\ IdleCall.pc = "idle" /\ IdleCall.answer = "none"
      /\ IdleCall.list = <<>>
  BY DEF IdleCall
<1> QED
  BY <1>1, <1>4, <1>5 DEF InHand

\* A call that begins.
LEMMA StartedFields ==
    ASSUME NEW c \in Calls, NEW op \in Ops[c], NEW coll \in Collections, NEW pc \in CallPcs,
           NEW x, x = Started(c, op, coll, pc)
    PROVE  /\ x \in CallRecords /\ x.op = op /\ x.coll = coll /\ x.pc = pc /\ x.id = 0
           /\ x.entity = NoEntity /\ x.answer = "none" /\ x.left = <<>> /\ x.batch = 1
           /\ x.removed = 0 /\ x.list = <<>>
<1> DEFINE y == IdleCall
<1>1. x = [y EXCEPT !.op = op, !.coll = coll, !.pc = pc]
  BY DEF Started
<1>2. /\ y.id = 0 /\ y.entity = NoEntity /\ y.answer = "none"
      /\ y.left = <<>> /\ y.batch = 1 /\ y.removed = 0 /\ y.list = <<>>
  BY DEF IdleCall
<1>3. y \in CallRecords /\ op \in (UNION {Ops[d] : d \in Calls}) \cup {"none"}
  BY IdleCallIsRecord
<1> HIDE DEF y
<1> QED
  BY <1>1, <1>2, <1>3 DEF CallRecords

LEMMA HeldInit == DefinitionsInit => Held
<1> SUFFICES ASSUME DefinitionsInit PROVE Held
  OBVIOUS
<1>1. call \in [Calls -> CallRecords] /\ \A c \in Calls : call[c] = IdleCall
  BY IdleCallIsRecord DEF DefinitionsInit
<1>2. /\ rows \in [Collections -> [Ids -> Documents \cup {NoDocument}]]
      /\ version \in [Collections -> Nat] /\ taken \subseteq Ids
  BY StartAssumption DEF DefinitionsInit
<1> QED
  BY <1>1, <1>2, IdleCallIsRecord DEF Held

-----------------------------------------------------------------------------
(* The definitions: what each step does *)

\* A call that has not begun has done nothing.
LEMMA IdleDidNothing ==
    ASSUME Held, NEW c \in Calls, call[c].pc = "idle"
    PROVE  /\ call[c].answer = "none" /\ ~Deletes(call[c])
           /\ \A coll \in Collections : MadeBy(call[c], coll) = 0 /\ TakenBy(call[c], coll) = 0
BY DEF Held, InHand, Deletes, MadeBy, TakenBy

\* A call that ends with its first step, and neither made nor deleted a row.
LEMMA EndedEffect ==
    ASSUME Held, NEW c \in Calls, NEW op \in Ops[c], NEW coll \in Collections,
           NEW answer \in {"refused", "error", "missing", "usable", "unusable"},
           call[c].pc = "idle", Ended(c, op, coll, answer), Unchanged
    PROVE  \E y : Effect(c, y)
<1> DEFINE x == Started(c, op, coll, "done")
           y == [x EXCEPT !.answer = answer]
<1>1. /\ x \in CallRecords /\ x.op = op /\ x.coll = coll /\ x.pc = "done" /\ x.batch = 1
      /\ x.list = <<>>
  BY StartedFields DEF CallPcs
<1>2. call' = [call EXCEPT ![c] = y]
  BY DEF Ended
<1> HIDE DEF x
<1>3. /\ y \in CallRecords /\ y.op = op /\ y.coll = coll /\ y.pc = "done" /\ y.answer = answer
      /\ y.list = <<>>
  BY <1>1 DEF CallRecords, CallAnswers
<1> HIDE DEF y
<1>4. InHand(y) /\ \A k \in Collections : MadeBy(y, k) = 0 /\ TakenBy(y, k) = 0
  BY <1>3 DEF InHand, MadeBy, TakenBy
<1>5. Quiet(call[c], y)
  BY <1>3, <1>4, IdleDidNothing DEF Quiet, Same, Unchanged
<1> QED
  BY <1>2, <1>3, <1>4, <1>5, IdleDidNothing DEF Effect

\* A call that makes a row with its first step.
LEMMA CreateEffect ==
    ASSUME Held, NEW c \in Calls, NEW op \in Ops[c], op \in Creations, NEW coll \in Collections,
           NEW id \in Ids, NEW d \in Documents, call[c].pc = "idle",
           rows[coll][id] = NoDocument, Store(coll, id, d),
           NEW answer \in {"created", "unsure"}, Ended(c, op, coll, answer)
    PROVE  \E y : Effect(c, y)
<1> DEFINE x == Started(c, op, coll, "done")
           y == [x EXCEPT !.answer = answer]
<1>1. /\ x \in CallRecords /\ x.op = op /\ x.coll = coll /\ x.pc = "done" /\ x.batch = 1
      /\ x.list = <<>>
  BY StartedFields DEF CallPcs
<1>2. call' = [call EXCEPT ![c] = y]
  BY DEF Ended
<1> HIDE DEF x
<1>3. /\ y \in CallRecords /\ y.op = op /\ y.coll = coll /\ y.pc = "done" /\ y.batch = 1
      /\ y.answer = answer /\ y.list = <<>>
  BY <1>1 DEF CallRecords, CallAnswers
<1> HIDE DEF y
<1>4. InHand(y)
  BY <1>3 DEF InHand
<1>5. \A k \in Collections :
         /\ MadeBy(y, k) = (IF answer = "created" /\ k = coll THEN 1 ELSE 0)
         /\ TakenBy(y, k) = 0
  BY <1>3 DEF MadeBy, TakenBy
<1>6. CASE answer = "created"
  <2>1. Adds(call[c], y, coll, id, d)
    BY <1>3, <1>5, <1>6, IdleDidNothing DEF Adds
  <2> QED
    BY <1>2, <1>3, <1>4, <2>1, IdleDidNothing DEF Effect
<1>7. CASE answer = "unsure"
  <2>1. UnsureMade(y, coll) /\ Same(call[c], y)
    BY <1>3, <1>5, <1>7, IdleDidNothing DEF UnsureMade, Same
  <2>2. Adds(call[c], y, coll, id, d)
    BY <1>3, <1>7, <2>1 DEF Adds
  <2> QED
    BY <1>2, <1>3, <1>4, <2>2, IdleDidNothing DEF Effect
<1> QED
  BY <1>6, <1>7

\* The first half of an update: what it will write has the time of the row it read.
LEMMA FindByIDEffect ==
    ASSUME Held, NEW c \in Calls, NEW op \in Ops[c], NEW coll \in Collections, NEW id \in Ids,
           NEW entity, FindByID(c, op, coll, id, entity),
           rows[coll][id] # NoDocument =>
               /\ entity \in Entities /\ entity.name \in Names
               /\ entity.created = rows[coll][id].created
    PROVE  \E y : Effect(c, y)
<1>0. call[c].pc = "idle"
  BY DEF FindByID, Begin
<1>1. CASE rows[coll][id] = NoDocument
  BY <1>0, <1>1, EndedEffect DEF FindByID
<1>2. CASE rows[coll][id] # NoDocument
  <2> DEFINE x == Started(c, op, coll, "write")
             y == [x EXCEPT !.id = id, !.entity = entity]
  <2>1. /\ x \in CallRecords /\ x.op = op /\ x.coll = coll /\ x.pc = "write" /\ x.batch = 1
        /\ x.answer = "none" /\ x.list = <<>>
    BY StartedFields DEF CallPcs
  <2>2. call' = [call EXCEPT ![c] = y] /\ Unchanged
    BY <1>2 DEF FindByID
  <2> HIDE DEF x
  <2>3. /\ y \in CallRecords /\ y.op = op /\ y.coll = coll /\ y.pc = "write" /\ y.batch = 1
        /\ y.answer = "none" /\ y.id = id /\ y.entity = entity /\ y.list = <<>>
    BY <1>2, <2>1 DEF CallRecords
  <2> HIDE DEF y
  <2>4. InHand(y) /\ \A k \in Collections : MadeBy(y, k) = 0 /\ TakenBy(y, k) = 0
    BY <1>2, <2>3 DEF InHand, MadeBy, TakenBy
  <2>5. Quiet(call[c], y)
    BY <1>0, <1>2, <2>2, <2>3, <2>4, IdleDidNothing DEF Quiet, Same, Unchanged
  <2> QED
    BY <1>0, <2>2, <2>3, <2>4, <2>5, IdleDidNothing DEF Effect
<1> QED
  BY <1>1, <1>2

\* The first half of a deletion, of a batch and of a walk.
LEMMA BeginEffect ==
    ASSUME Held, NEW c \in Calls, NEW op \in Ops[c], NEW coll \in Collections, call[c].pc = "idle",
           Unchanged, NEW y, call' = [call EXCEPT ![c] = y], y \in CallRecords, InHand(y),
           y.op = op, y.coll = coll, y.pc \in {"remove", "insert", "sweep", "count"}, y.removed = 0,
           y.pc = "insert" => y.batch = Len(y.left), y.pc = "count" => FirstPage(y)
    PROVE  Effect(c, y)
<1>1. y.answer = "none"
  BY DEF InHand
<1>2. \A k \in Collections : MadeBy(y, k) = 0 /\ TakenBy(y, k) = 0
  BY <1>1 DEF MadeBy, TakenBy, CallRecords
<1>3. Quiet(call[c], y)
  BY <1>2, IdleDidNothing DEF Quiet, Same, Unchanged
<1> QED
  BY <1>3, IdleDidNothing DEF Effect, InHand

\* The record of a call that has been answered.
LEMMA AnswerFields ==
    ASSUME Held, NEW c \in Calls, NEW answer \in CallAnswers, Answer(c, answer)
    PROVE  \E y \in CallRecords :
             /\ call' = [call EXCEPT ![c] = y]
             /\ y.op = call[c].op /\ y.coll = call[c].coll /\ y.pc = "done" /\ y.answer = answer
             /\ y.batch = call[c].batch /\ y.list = <<>> /\ InHand(y)
<1> DEFINE x == call[c]
           z == IdleCall
           y == [z EXCEPT !.op = x.op, !.coll = x.coll, !.pc = "done", !.answer = answer,
                          !.batch = x.batch]
<1>1. x \in CallRecords
  BY DEF Held
<1>2. z \in CallRecords /\ z.list = <<>>
  BY IdleCallIsRecord DEF IdleCall
<1>3. call' = [call EXCEPT ![c] = y]
  BY DEF Answer
<1> HIDE DEF x, z
<1>4. /\ y \in CallRecords /\ y.op = x.op /\ y.coll = x.coll /\ y.pc = "done"
      /\ y.answer = answer /\ y.batch = x.batch /\ y.list = <<>>
  BY <1>1, <1>2 DEF CallRecords, CallPcs
<1> HIDE DEF y
<1>5. InHand(y)
  BY <1>4 DEF InHand
<1> QED
  BY <1>3, <1>4, <1>5 DEF x

\* What a call at work has done by its record.
LEMMA WorkingCounts ==
    ASSUME Held, NEW c \in Calls, call[c].pc \notin {"idle", "done"}
    PROVE  /\ call[c] \in CallRecords /\ InHand(call[c]) /\ call[c].answer = "none"
           /\ call[c].op \in Ops[c] \cup {"none"}
           /\ Deletes(call[c]) <=> call[c].pc = "sweep"
           /\ \A coll \in Collections :
                /\ MadeBy(call[c], coll) =
                     IF call[c].coll = coll /\ call[c].pc = "insert"
                     THEN call[c].batch - Len(call[c].left) ELSE 0
                /\ TakenBy(call[c], coll) =
                     IF call[c].coll = coll /\ call[c].pc = "sweep" THEN call[c].removed ELSE 0
BY DEF Held, InHand, MadeBy, TakenBy, Deletes

\* What is written of an entity.
LEMMA DocumentFields ==
    ASSUME NEW e \in Entities, NEW coll \in Collections, e.name \in Names
    PROVE  ToDocument(coll, e) \in Documents /\ ToDocument(coll, e).created = e.created
BY DEF Entities, ToDocument, TaskToDocument, WorkerToDocument, Documents, NoDocument, States

LEMMA DocumentsAreRows == NoDocument \notin Documents
BY DefinitionsAssumption DEF NoDocument, Documents

\* The second half of an update.
LEMMA WriteEffect ==
    ASSUME Held, NEW c \in Calls, Write(c)
    PROVE  \E y : Effect(c, y)
<1> DEFINE x == call[c]
<1>1. x.pc = "write"
  BY DEF Write
<1>2. /\ x \in CallRecords /\ x.coll \in Collections /\ x.id \in Ids /\ x.batch = 1 /\ x.answer = "none"
      /\ ~Deletes(x) /\ x.entity \in Entities /\ x.entity.name \in Names
      /\ x.op \in Ops[c] \cup {"none"}
      /\ \A k \in Collections : MadeBy(x, k) = 0 /\ TakenBy(x, k) = 0
  BY <1>1, WorkingCounts DEF InHand, CallRecords
<1>3. ASSUME Update(x.coll, x.id, x.entity), NEW answer \in {"updated", "unsure"},
             Answer(c, answer)
      PROVE  \E y : Effect(c, y)
  <2> DEFINE d == ToDocument(x.coll, x.entity)
  <2>1. PICK y \in CallRecords :
          /\ call' = [call EXCEPT ![c] = y]
          /\ y.op = x.op /\ y.coll = x.coll /\ y.pc = "done" /\ y.answer = answer
          /\ y.batch = x.batch /\ y.list = <<>> /\ InHand(y)
    BY <1>3, AnswerFields DEF CallAnswers
  <2>2. \A k \in Collections : MadeBy(y, k) = 0 /\ TakenBy(y, k) = 0
    BY <2>1 DEF MadeBy, TakenBy
  <2>3. d \in Documents /\ d.created = x.entity.created
    BY <1>2, DocumentFields
  <2>4. rows[x.coll][x.id] # NoDocument /\ Store(x.coll, x.id, d)
    BY <1>3 DEF Update
  <2> HIDE DEF x, d
  <2>5. Replaces(x, y, x.coll, x.id, d)
    BY <1>1, <1>2, <2>1, <2>2, <2>3, <2>4 DEF Replaces, Same
  <2> QED
    BY <1>2, <2>1, <2>3, <2>4, <2>5 DEF Effect, x
<1>4. ASSUME NEW answer \in {"missing", "unsure"}, Answer(c, answer), Unchanged
      PROVE  \E y : Effect(c, y)
  <2>1. PICK y \in CallRecords :
          /\ call' = [call EXCEPT ![c] = y]
          /\ y.op = x.op /\ y.coll = x.coll /\ y.pc = "done" /\ y.answer = answer
          /\ y.batch = x.batch /\ y.list = <<>> /\ InHand(y)
    BY <1>4, AnswerFields DEF CallAnswers
  <2>2. \A k \in Collections : MadeBy(y, k) = 0 /\ TakenBy(y, k) = 0
    BY <2>1 DEF MadeBy, TakenBy
  <2> HIDE DEF x
  <2>3. Quiet(x, y)
    BY <1>2, <1>4, <2>1, <2>2 DEF Quiet, Same, Unchanged
  <2> QED
    BY <1>2, <2>1, <2>3 DEF Effect, x
<1> QED
  BY <1>3, <1>4 DEF Write

\* The second half of a deletion.
LEMMA FinishDeleteEffect ==
    ASSUME Held, NEW c \in Calls, FinishDelete(c)
    PROVE  \E y : Effect(c, y)
<1> DEFINE x == call[c]
<1>1. x.pc = "remove"
  BY DEF FinishDelete
<1>2. /\ x \in CallRecords /\ x.coll \in Collections /\ x.id \in Ids /\ x.batch = 1 /\ x.answer = "none"
      /\ ~Deletes(x) /\ x.op \in Ops[c] \cup {"none"} /\ x.op \in Removals
      /\ \A k \in Collections : MadeBy(x, k) = 0 /\ TakenBy(x, k) = 0
  BY <1>1, WorkingCounts DEF InHand, CallRecords
<1>3. ASSUME Delete(x.coll, x.id), NEW answer \in {"deleted", "unsure"}, Answer(c, answer)
      PROVE  \E y : Effect(c, y)
  <2>1. PICK y \in CallRecords :
          /\ call' = [call EXCEPT ![c] = y]
          /\ y.op = x.op /\ y.coll = x.coll /\ y.pc = "done" /\ y.answer = answer
          /\ y.batch = x.batch /\ y.list = <<>> /\ InHand(y)
    BY <1>3, AnswerFields DEF CallAnswers
  <2>2. \A k \in Collections :
           /\ MadeBy(y, k) = 0
           /\ TakenBy(y, k) = IF answer = "deleted" /\ k = x.coll THEN 1 ELSE 0
    BY <1>2, <2>1 DEF MadeBy, TakenBy
  <2>3. rows[x.coll][x.id] # NoDocument /\ Store(x.coll, x.id, NoDocument)
    BY <1>3 DEF Delete
  <2> HIDE DEF x
  <2>4. Takes(x, y, x.coll, x.id, NoDocument)
    <3>1. CASE answer = "deleted"
      BY <1>2, <2>1, <2>2, <2>3, <3>1 DEF Takes, Deletes
    <3>2. CASE answer = "unsure"
      <4>1. UnsureTaken(y, x.coll) /\ Same(x, y) /\ Deletes(y)
        BY <1>2, <2>1, <2>2, <3>2 DEF UnsureTaken, Same, Deletes
      <4> QED
        BY <2>1, <2>3, <3>2, <4>1 DEF Takes
    <3> QED
      BY <3>1, <3>2
  <2> QED
    BY <1>2, <2>1, <2>3, <2>4 DEF Effect, x
<1>4. ASSUME NEW answer \in {"missing", "unsure"}, Answer(c, answer), Unchanged
      PROVE  \E y : Effect(c, y)
  <2>1. PICK y \in CallRecords :
          /\ call' = [call EXCEPT ![c] = y]
          /\ y.op = x.op /\ y.coll = x.coll /\ y.pc = "done" /\ y.answer = answer
          /\ y.batch = x.batch /\ y.list = <<>> /\ InHand(y)
    BY <1>4, AnswerFields DEF CallAnswers
  <2>2. \A k \in Collections : MadeBy(y, k) = 0 /\ TakenBy(y, k) = 0
    BY <2>1 DEF MadeBy, TakenBy
  <2> HIDE DEF x
  <2>3. Quiet(x, y)
    BY <1>2, <1>4, <2>1, <2>2 DEF Quiet, Same, Unchanged
  <2> QED
    BY <1>2, <2>1, <2>3 DEF Effect, x
<1> QED
  BY <1>3, <1>4 DEF FinishDelete


-----------------------------------------------------------------------------
\* The next row of a batch, and the end of one.
LEMMA InsertNextEffect ==
    ASSUME Held, NEW c \in Calls, InsertNext(c)
    PROVE  \E y : Effect(c, y)
<1> DEFINE x == call[c]
<1>1. x.pc = "insert"
  BY DEF InsertNext
<1>2. /\ x \in CallRecords /\ x.coll = "workers" /\ x.answer = "none" /\ x.batch \in 1..2
      /\ x.left \in Seq(Ids) /\ x.removed \in Nat /\ x.removed + Len(x.left) <= x.batch
      /\ ~Deletes(x) /\ x.op \in Ops[c] \cup {"none"} /\ x.list = <<>>
  BY <1>1, WorkingCounts DEF InHand, CallRecords
<1>3. \A k \in Collections :
         /\ MadeBy(x, k) = IF k = "workers" THEN x.batch - Len(x.left) ELSE 0
         /\ TakenBy(x, k) = 0
  BY <1>1, <1>2, WorkingCounts
<1>4. ASSUME x.left = <<>>, Answer(c, "created"), Unchanged
      PROVE  \E y : Effect(c, y)
  <2>1. PICK y \in CallRecords :
          /\ call' = [call EXCEPT ![c] = y]
          /\ y.op = x.op /\ y.coll = x.coll /\ y.pc = "done" /\ y.answer = "created"
          /\ y.batch = x.batch /\ y.list = <<>> /\ InHand(y)
    BY <1>4, AnswerFields DEF CallAnswers
  <2> HIDE DEF x
  <2>2. \A k \in Collections : /\ MadeBy(y, k) = IF k = "workers" THEN x.batch ELSE 0
                               /\ TakenBy(y, k) = 0
    BY <1>2, <2>1 DEF MadeBy, TakenBy
  <2>3. Len(x.left) = 0 /\ x.batch - 0 = x.batch
    BY <1>2, <1>4
  <2>4. Quiet(x, y)
    BY <1>3, <1>4, <2>1, <2>2, <2>3 DEF Quiet, Same, Unchanged
  <2> QED
    BY <1>2, <2>1, <2>4 DEF Effect, x
<1>5. ASSUME Answer(c, "partial"), Unchanged
      PROVE  \E y : Effect(c, y)
  <2>1. PICK y \in CallRecords :
          /\ call' = [call EXCEPT ![c] = y]
          /\ y.op = x.op /\ y.coll = x.coll /\ y.pc = "done" /\ y.answer = "partial"
          /\ y.batch = x.batch /\ y.list = <<>> /\ InHand(y)
    BY <1>5, AnswerFields DEF CallAnswers
  <2> HIDE DEF x
  <2>2. Quiet(x, y)
    BY <1>5, <2>1 DEF Quiet, Unchanged
  <2> QED
    BY <1>2, <2>1, <2>2 DEF Effect, x
<1>6. ASSUME x.left # <<>>, call' = [call EXCEPT ![c].left = Tail(@)],
             Save("workers", Head(x.left), [name |-> 1, type |-> "docker", created |-> c,
                                            state |-> Pending("UNKNOWN")])
      PROVE  \E y : Effect(c, y)
  <2> DEFINE y == [x EXCEPT !.left = Tail(x.left)]
             id == Head(x.left)
             d == [name |-> 1, state |-> "PENDING", created |-> c]
  <2>1. call' = [call EXCEPT ![c] = y]
    BY <1>6
  <2>2. /\ id \in Ids /\ Tail(x.left) \in Seq(Ids) /\ Len(Tail(x.left)) = Len(x.left) - 1
        /\ Len(x.left) \in Nat
    BY <1>2, <1>6
  <2>3. rows["workers"][id] = NoDocument /\ Store("workers", id, d)
    BY <1>6 DEF Save, ToDocument, WorkerToDocument, Pending
  <2>4. d \in Documents /\ "workers" \in Collections
    BY DefinitionsAssumption DEF Documents, States, Collections
  <2> HIDE DEF x, id, d
  <2>5. /\ y \in CallRecords /\ y.coll = "workers" /\ y.answer = "none" /\ y.pc = "insert"
        /\ y.batch = x.batch /\ y.left = Tail(x.left) /\ y.removed = x.removed /\ y.op = x.op
        /\ y.list = <<>>
    BY <1>1, <1>2, <2>2 DEF CallRecords
  <2> HIDE DEF y
  <2>6. InHand(y)
    BY <1>2, <2>2, <2>5 DEF InHand
  <2>7. \A k \in Collections :
           /\ MadeBy(y, k) = IF k = "workers" THEN x.batch - (Len(x.left) - 1) ELSE 0
           /\ TakenBy(y, k) = 0
    BY <2>2, <2>5 DEF MadeBy, TakenBy
  <2>8. x.batch - (Len(x.left) - 1) = x.batch - Len(x.left) + 1 /\ 0 + 0 = 0
    BY <1>2, <2>2
  <2>9. Adds(x, y, "workers", id, d)
    BY <1>3, <2>3, <2>4, <2>5, <2>7, <2>8 DEF Adds
  <2> QED
    BY <1>2, <2>1, <2>2, <2>3, <2>4, <2>5, <2>6, <2>9 DEF Effect, x
<1> QED
  BY <1>4, <1>5, <1>6 DEF InsertNext

LEMMA BatchFields ==
    ASSUME NEW x \in CallRecords, NEW t \in Seq(Ids), x.removed \in Nat
    PROVE  LET y == [x EXCEPT !.left = t, !.removed = x.removed + 1]
           IN  /\ y \in CallRecords /\ y.coll = x.coll /\ y.answer = x.answer /\ y.pc = x.pc
               /\ y.batch = x.batch /\ y.left = t /\ y.removed = x.removed + 1 /\ y.op = x.op
               /\ y.list = x.list
<1> DEFINE n == x.removed + 1
<1>1. n \in Nat
  OBVIOUS
<1> HIDE DEF n
<1>2. LET y == [x EXCEPT !.left = t, !.removed = n]
      IN  /\ y \in CallRecords /\ y.coll = x.coll /\ y.answer = x.answer /\ y.pc = x.pc
          /\ y.batch = x.batch /\ y.left = t /\ y.removed = n /\ y.op = x.op
          /\ y.list = x.list
  BY <1>1 DEF CallRecords
<1> QED
  BY <1>2 DEF n

LEMMA SweepNextEffect ==
    ASSUME Held, NEW c \in Calls, SweepNext(c)
    PROVE  \E y : Effect(c, y)
<1> DEFINE x == call[c]
<1>1. x.pc = "sweep"
  BY DEF SweepNext
<1>2. /\ x \in CallRecords /\ x.coll = "workers" /\ x.answer = "none" /\ x.batch \in 1..2
      /\ x.left \in Seq(Ids) /\ x.removed \in Nat /\ x.removed + Len(x.left) <= x.batch
      /\ x.op \in Ops[c] \cup {"none"} /\ x.list = <<>>
  BY <1>1, WorkingCounts DEF InHand, CallRecords
<1>3. \A k \in Collections :
         MadeBy(x, k) = 0 /\ TakenBy(x, k) = IF k = "workers" THEN x.removed ELSE 0
  BY <1>1, <1>2, WorkingCounts
<1>4. ASSUME NEW answer \in {"deleted", "partial"}, Answer(c, answer), Unchanged,
             answer = "deleted" => x.removed = x.batch
      PROVE  \E y : Effect(c, y)
  <2>1. PICK y \in CallRecords :
          /\ call' = [call EXCEPT ![c] = y]
          /\ y.op = x.op /\ y.coll = x.coll /\ y.pc = "done" /\ y.answer = answer
          /\ y.batch = x.batch /\ y.list = <<>> /\ InHand(y)
    BY <1>4, AnswerFields DEF CallAnswers
  <2> HIDE DEF x
  <2>2. answer = "deleted" =>
           \A k \in Collections : /\ MadeBy(y, k) = 0
                                  /\ TakenBy(y, k) = IF k = "workers" THEN x.removed ELSE 0
    BY <1>2, <1>4, <2>1 DEF MadeBy, TakenBy
  <2>3. Quiet(x, y)
    BY <1>3, <1>4, <2>1, <2>2 DEF Quiet, Same, Unchanged
  <2> QED
    BY <1>2, <2>1, <2>3 DEF Effect, Deletes, x
<1>5. ASSUME x.left # <<>>, call' = [call EXCEPT ![c].left = Tail(@), ![c].removed = @ + 1],
             Delete("workers", Head(x.left))
      PROVE  \E y : Effect(c, y)
  <2> DEFINE y == [x EXCEPT !.left = Tail(x.left), !.removed = x.removed + 1]
             id == Head(x.left)
  <2>1. call' = [call EXCEPT ![c] = y]
    BY <1>2, <1>5 DEF Held, CallRecords
  <2>2. /\ id \in Ids /\ Tail(x.left) \in Seq(Ids) /\ Len(Tail(x.left)) = Len(x.left) - 1
        /\ Len(x.left) \in Nat
    BY <1>2, <1>5
  <2>3. rows["workers"][id] # NoDocument /\ Store("workers", id, NoDocument)
    BY <1>5 DEF Delete
  <2> HIDE DEF x, id
  <2>4. /\ y \in CallRecords /\ y.coll = "workers" /\ y.answer = "none" /\ y.pc = "sweep"
        /\ y.batch = x.batch /\ y.left = Tail(x.left) /\ y.removed = x.removed + 1 /\ y.op = x.op
        /\ y.list = <<>>
    BY <1>1, <1>2, <2>2, BatchFields
  <2> HIDE DEF y
  <2>5. InHand(y)
    BY <1>2, <2>2, <2>4 DEF InHand
  <2>6. \A k \in Collections :
           /\ MadeBy(y, k) = 0
           /\ TakenBy(y, k) = IF k = "workers" THEN x.removed + 1 ELSE 0
    BY <2>4 DEF MadeBy, TakenBy
  <2>7. Takes(x, y, "workers", id, NoDocument)
    BY <1>2, <1>3, <2>3, <2>4, <2>6 DEF Takes, Deletes
  <2> QED
    BY <1>2, <2>1, <2>2, <2>3, <2>4, <2>5, <2>7 DEF Effect, Deletes, Collections, x
<1>6. ASSUME x.left # <<>>, call' = [call EXCEPT ![c].left = Tail(@)], Unchanged
      PROVE  \E y : Effect(c, y)
  <2> DEFINE y == [x EXCEPT !.left = Tail(x.left)]
  <2>1. call' = [call EXCEPT ![c] = y]
    BY <1>6
  <2>2. /\ Tail(x.left) \in Seq(Ids) /\ Len(Tail(x.left)) = Len(x.left) - 1
        /\ Len(x.left) \in Nat
    BY <1>2, <1>6
  <2> HIDE DEF x
  <2>3. /\ y \in CallRecords /\ y.coll = "workers" /\ y.answer = "none" /\ y.pc = "sweep"
        /\ y.batch = x.batch /\ y.left = Tail(x.left) /\ y.removed = x.removed /\ y.op = x.op
        /\ y.list = <<>>
    BY <1>1, <1>2, <2>2 DEF CallRecords
  <2> HIDE DEF y
  <2>4. InHand(y)
    BY <1>2, <2>2, <2>3 DEF InHand
  <2>5. \A k \in Collections :
           /\ MadeBy(y, k) = 0
           /\ TakenBy(y, k) = IF k = "workers" THEN x.removed ELSE 0
    BY <2>3 DEF MadeBy, TakenBy
  <2>6. Quiet(x, y)
    BY <1>3, <1>6, <2>3, <2>5 DEF Quiet, Same, Unchanged
  <2> QED
    BY <1>2, <2>1, <2>3, <2>4, <2>6 DEF Effect, Deletes, x
<1> QED
  BY <1>4, <1>5, <1>6 DEF SweepNext

\* What is read of a row.
LEMMA RowFields ==
    ASSUME Held, NEW coll \in Collections, NEW id \in Ids, rows[coll][id] # NoDocument
    PROVE  /\ rows[coll][id] \in Documents /\ rows[coll][id].name \in Names
           /\ rows[coll][id].state \in States /\ rows[coll][id].created \in Calls \cup {0}
<1>1. rows[coll][id] \in Documents
  BY DEF Held
<1> QED
  BY <1>1 DEF Documents

LEMMA UpdateEffect ==
    ASSUME Held, NEW c \in Calls, NEW id \in Ids,
           \/ \E name \in Names : UpdateTask(c, id, name)
           \/ \E name \in Names : UpdateWorkerDefinition(c, id, name, "UNKNOWN")
           \/ UpdateWorkerStatus(c, id, "RUNNING")
    PROVE  \E y : Effect(c, y)
<1>1. ASSUME NEW name \in Names, UpdateTask(c, id, name)
      PROVE  \E y : Effect(c, y)
  <2> DEFINE d == rows["tasks"][id]
             m == [NoEntity EXCEPT !.name = d.name, !.created = d.created]
             e == [m EXCEPT !.name = name]
  <2>1. FindByID(c, "updateTask", "tasks", id, e) /\ "updateTask" \in Ops[c]
    BY <1>1 DEF UpdateTask, TaskToModel, FindByID, Begin
  <2>2. ASSUME d # NoDocument
        PROVE  e \in Entities /\ e.name \in Names /\ e.created = d.created
    <3>1. d.name \in Names /\ d.created \in Calls \cup {0}
      BY <2>2, RowFields DEF Collections
    <3> HIDE DEF d
    <3> QED
      BY <3>1 DEF NoEntity, Entities, WorkerTypes, States
  <2> HIDE DEF e
  <2> QED
    BY <2>1, <2>2, FindByIDEffect DEF Collections
<1>2. ASSUME NEW name \in Names, UpdateWorkerDefinition(c, id, name, "UNKNOWN")
      PROVE  \E y : Effect(c, y)
  <2> DEFINE d == rows["workers"][id]
             e == [name |-> name, type |-> "docker", state |-> "UNKNOWN", created |-> d.created]
  <2>1. FindByID(c, "updateWorker", "workers", id, e) /\ "updateWorker" \in Ops[c]
    BY <1>2 DEF UpdateWorkerDefinition, FindByID, Begin
  <2>2. ASSUME d # NoDocument
        PROVE  e \in Entities /\ e.name \in Names /\ e.created = d.created
    <3>1. d.created \in Calls \cup {0}
      BY <2>2, RowFields DEF Collections
    <3> HIDE DEF d
    <3> QED
      BY <3>1 DEF Entities, WorkerTypes, States
  <2> HIDE DEF e
  <2> QED
    BY <2>1, <2>2, FindByIDEffect DEF Collections
<1>3. ASSUME UpdateWorkerStatus(c, id, "RUNNING")
      PROVE  \E y : Effect(c, y)
  <2> DEFINE d == rows["workers"][id]
             m == [name |-> d.name, type |-> "", state |-> d.state, created |-> d.created]
             e == [m EXCEPT !.state = "RUNNING"]
  <2>1. FindByID(c, "updateStatus", "workers", id, e) /\ "updateStatus" \in Ops[c]
    BY <1>3 DEF UpdateWorkerStatus, WorkerToModel, FindByID, Begin
  <2>2. ASSUME d # NoDocument
        PROVE  e \in Entities /\ e.name \in Names /\ e.created = d.created
    <3>1. d.name \in Names /\ d.created \in Calls \cup {0}
      BY <2>2, RowFields DEF Collections
    <3> HIDE DEF d
    <3> QED
      BY <3>1 DEF Entities, WorkerTypes, States
  <2> HIDE DEF e
  <2> QED
    BY <2>1, <2>2, FindByIDEffect DEF Collections
<1> QED
  BY <1>1, <1>2, <1>3

LEMMA DeleteByIdEffect ==
    ASSUME Held, NEW c \in Calls, NEW op \in Ops[c], op \in Removals, NEW coll \in Collections,
           NEW id \in Ids, DeleteById(c, op, coll, id)
    PROVE  \E y : Effect(c, y)
<1>0. call[c].pc = "idle" /\ Unchanged
  BY DEF DeleteById, Begin
<1>1. CASE rows[coll][id] = NoDocument
  BY <1>0, <1>1, EndedEffect DEF DeleteById
<1>2. CASE rows[coll][id] # NoDocument
  <2> DEFINE x == Started(c, op, coll, "remove")
             y == [x EXCEPT !.id = id]
  <2>1. /\ x \in CallRecords /\ x.op = op /\ x.coll = coll /\ x.pc = "remove" /\ x.batch = 1
        /\ x.answer = "none" /\ x.list = <<>> /\ x.removed = 0
    BY StartedFields DEF CallPcs
  <2>2. call' = [call EXCEPT ![c] = y]
    BY <1>2 DEF DeleteById
  <2> HIDE DEF x
  <2>3. /\ y \in CallRecords /\ y.op = op /\ y.coll = coll /\ y.pc = "remove" /\ y.batch = 1
        /\ y.answer = "none" /\ y.id = id /\ y.removed = 0 /\ y.list = <<>>
    BY <2>1 DEF CallRecords
  <2> HIDE DEF y
  <2>4. InHand(y)
    BY <2>3 DEF InHand
  <2> QED
    BY <1>0, <2>2, <2>3, <2>4, BeginEffect
<1> QED
  BY <1>1, <1>2

LEMMA BatchFieldsAtStart ==
    ASSUME NEW x \in CallRecords, NEW s \in Seq(Ids)
    PROVE  LET y == [x EXCEPT !.left = s, !.batch = 2]
           IN  /\ y \in CallRecords /\ y.op = x.op /\ y.coll = x.coll /\ y.pc = x.pc /\ y.batch = 2
               /\ y.answer = x.answer /\ y.left = s /\ y.removed = x.removed /\ y.list = x.list
<1>1. 2 \in 1..2
  OBVIOUS
<1> QED
  BY <1>1 DEF CallRecords

\* A batch of two begins.
LEMMA BatchBegins ==
    ASSUME Held, NEW c \in Calls, NEW op \in Ops[c], call[c].pc = "idle", Unchanged,
           NEW pc \in {"insert", "sweep"}, NEW s \in Seq(Ids), Len(s) = 2,
           NEW y \in CallRecords, call' = [call EXCEPT ![c] = y],
           y.op = op, y.coll = "workers", y.pc = pc, y.batch = 2, y.answer = "none", y.left = s,
           y.removed = 0, y.list = <<>>
    PROVE  Effect(c, y)
<1>1. "workers" \in Collections
  BY DEF Collections
<1>2. y.removed + Len(y.left) <= y.batch
  <2>1. y.removed = 0 /\ Len(y.left) = 2 /\ y.batch = 2
    BY Zenon
  <2>2. 0 + 2 <= 2
    OBVIOUS
  <2> QED
    BY <2>1, <2>2, Zenon
<1>3. InHand(y)
  BY <1>2 DEF InHand
<1>4. y.pc \in {"remove", "insert", "sweep", "count"} /\ y.pc # "count" /\ y.batch = Len(y.left)
  OBVIOUS
<1> QED
  BY <1>1, <1>3, <1>4, BeginEffect

LEMMA BatchEffect ==
    ASSUME Held, NEW c \in Calls, NEW i \in Ids, NEW j \in Ids,
           CreateWorkersBatch(c, <<i, j>>) \/ DeleteWorkersBatch(c, <<i, j>>)
    PROVE  (\E y : Effect(c, y)) /\ taken' \subseteq Ids
<1>0. <<i, j>> \in Seq(Ids) /\ Len(<<i, j>>) = 2 /\ Range(<<i, j>>) \subseteq Ids
  BY DEF Range
<1>1. ASSUME NEW op \in {"createBatch", "deleteBatch"}, Begin(c, op),
             NEW pc \in {"insert", "sweep"}, Unchanged,
             call' = [call EXCEPT ![c] = [Started(c, op, "workers", pc) EXCEPT
                         !.left = <<i, j>>, !.batch = Len(<<i, j>>)]]
      PROVE  \E y : Effect(c, y)
  <2> DEFINE x == Started(c, op, "workers", pc)
             s == <<i, j>>
             y == [x EXCEPT !.left = s, !.batch = 2]
  <2>1. call' = [call EXCEPT ![c] = y] /\ s \in Seq(Ids) /\ Len(s) = 2
    BY <1>0, <1>1
  <2>2. op \in Ops[c] /\ call[c].pc = "idle" /\ "workers" \in Collections
    BY <1>1 DEF Begin, Collections
  <2>3. /\ x \in CallRecords /\ x.op = op /\ x.coll = "workers" /\ x.pc = pc
        /\ x.answer = "none" /\ x.list = <<>> /\ x.removed = 0
    BY <2>2, StartedFields DEF CallPcs
  <2> HIDE DEF x, s
  <2>4. /\ y \in CallRecords /\ y.op = x.op /\ y.coll = x.coll /\ y.pc = x.pc /\ y.batch = 2
        /\ y.answer = x.answer /\ y.left = s /\ y.removed = x.removed /\ y.list = x.list
    BY <2>1, <2>3, BatchFieldsAtStart, ZenonT(60)
  <2> HIDE DEF y
  <2>5. /\ y \in CallRecords /\ y.op = op /\ y.coll = "workers" /\ y.pc = pc /\ y.batch = 2
        /\ y.answer = "none" /\ y.left = s /\ y.removed = 0 /\ y.list = <<>>
    BY <2>3, <2>4
  <2>6. Effect(c, y)
    BY <1>1, <2>1, <2>2, <2>5, BatchBegins
  <2> QED
    BY <2>6
<1>2. CASE CreateWorkersBatch(c, <<i, j>>)
  BY <1>0, <1>1, <1>2 DEF CreateWorkersBatch, Held
<1>3. CASE DeleteWorkersBatch(c, <<i, j>>)
  BY <1>1, <1>3 DEF DeleteWorkersBatch, Held
<1> QED
  BY <1>2, <1>3

\* A row is made with the first step of a call.
LEMMA CreateTaskEffect ==
    ASSUME Held, NEW c \in Calls, NEW id \in Ids, NEW name \in Names, NEW created \in {0, c},
           CreateTask(c, id, name, created)
    PROVE  \E y : Effect(c, y)
<1> DEFINE e == [NoEntity EXCEPT !.name = name, !.created = created]
<1>1. /\ "createTask" \in Ops[c] /\ "createTask" \in Creations
      /\ call[c].pc = "idle" /\ "tasks" \in Collections
  BY DEF CreateTask, Begin, Collections, Creations
<1>2. e \in Entities /\ e.name \in Names
  BY DEF NoEntity, Entities, WorkerTypes, States
<1> HIDE DEF e
<1>3. ToDocument("tasks", e) \in Documents
  BY <1>1, <1>2, DocumentFields
<1>4. ASSUME Save("tasks", id, e), NEW answer \in {"created", "unsure"},
             Ended(c, "createTask", "tasks", answer)
      PROVE  \E y : Effect(c, y)
  BY <1>1, <1>3, <1>4, CreateEffect DEF Save
<1>5. CASE Ended(c, "createTask", "tasks", "error") /\ Unchanged
  BY <1>1, <1>5, EndedEffect
<1> QED
  BY <1>4, <1>5 DEF CreateTask, e

LEMMA CreateWorkerDefinitionEffect ==
    ASSUME Held, NEW c \in Calls, NEW id \in Ids, NEW name \in Names,
           CreateWorkerDefinition(c, id, name, "UNKNOWN")
    PROVE  (\E y : Effect(c, y)) /\ taken' \subseteq Ids
<1> DEFINE e == [name |-> name, type |-> "docker", state |-> "PENDING", created |-> c]
<1>1. /\ "createWorker" \in Ops[c] /\ "createWorker" \in Creations
      /\ call[c].pc = "idle" /\ "workers" \in Collections
  BY DEF CreateWorkerDefinition, Begin, Collections, Creations
<1>2. e \in Entities /\ e.name \in Names
  BY DEF Entities, WorkerTypes, States
<1>3. PICK answer \in {"created", "unsure"} :
         Save("workers", id, e) /\ Ended(c, "createWorker", "workers", answer)
  BY DEF CreateWorkerDefinition, Pending
<1> HIDE DEF e
<1>4. ToDocument("workers", e) \in Documents
  BY <1>1, <1>2, DocumentFields
<1>5. \E y : Effect(c, y)
  BY <1>1, <1>3, <1>4, CreateEffect DEF Save
<1>6. taken' \subseteq Ids
  BY DEF CreateWorkerDefinition, Held
<1> QED
  BY <1>5, <1>6

\* A call that fails at once, and one that only reads.
LEMMA RefuseEffect ==
    ASSUME Held, NEW c \in Calls,
           (\E op \in Ops[c] : Refuse(c, op)) \/ (\E name \in Names : FindWorkerDefinitionByName(c, name))
    PROVE  \E y : Effect(c, y)
<1>1. "tasks" \in Collections /\ "workers" \in Collections
  BY DEF Collections
<1>2. ASSUME NEW op \in Ops[c], Refuse(c, op)
      PROVE  \E y : Effect(c, y)
  <2>1. PICK answer \in {"refused", "error"} : Ended(c, op, "tasks", answer)
    BY <1>2 DEF Refuse
  <2>2. call[c].pc = "idle" /\ Unchanged
    BY <1>2 DEF Refuse, Begin
  <2> QED
    BY <1>1, <2>1, <2>2, EndedEffect
<1>3. ASSUME NEW name \in Names, FindWorkerDefinitionByName(c, name)
      PROVE  \E y : Effect(c, y)
  <2>1. PICK answer \in {"missing", "usable", "unusable"} : Ended(c, "findByName", "workers", answer)
    BY <1>3 DEF FindWorkerDefinitionByName
  <2>2. "findByName" \in Ops[c] /\ call[c].pc = "idle" /\ Unchanged
    BY <1>3 DEF FindWorkerDefinitionByName, Begin
  <2> QED
    BY <1>1, <2>1, <2>2, EndedEffect
<1> QED
  BY <1>2, <1>3

-----------------------------------------------------------------------------
(* The definitions: the pages of an order *)

\* The smaller of two numbers.
LEMMA MinOfTwo == ASSUME NEW a \in Int, NEW b \in Int PROVE Min({a, b}) = IF a <= b THEN a ELSE b
<1>1. \A x \in {a, b} : (\A y \in {a, b} : x <= y) <=> x = (IF a <= b THEN a ELSE b)
  OBVIOUS
<1>2. \E x \in {a, b} : \A y \in {a, b} : x <= y
  OBVIOUS
<1> QED
  BY <1>1, <1>2 DEF Min

\* A page has some rows, so that the pages before any of them have a number of rows.
LEMMA PageSizes ==
    ASSUME NEW size \in Sizes, NEW page \in Nat \ {0}
    PROVE  /\ PageSize(size) \in Nat \ {0} /\ Skip(page, size) \in Nat
           /\ Skip(page + 1, size) = Skip(page, size) + PageSize(size)
           /\ Skip(1, size) = 0
<1>1. PageSize(size) \in Nat \ {0}
  BY DefinitionsAssumption DEF PageSize
<1> DEFINE s == PageSize(size)
<1>2. Skip(page, size) = (page - 1) * s /\ Skip(page + 1, size) = (page + 1 - 1) * s
      /\ Skip(1, size) = (1 - 1) * s
  BY DEF Skip
<1> HIDE DEF s
<1>3. s \in Nat
  BY <1>1 DEF s
<1>4. (page - 1) * s \in Nat /\ (page + 1 - 1) * s = (page - 1) * s + s /\ (1 - 1) * s = 0
  BY <1>3
<1> QED
  BY <1>1, <1>2, <1>4 DEF s

\* There is a next page just if there are rows beyond this one.
LEMMA HasNextPage ==
    ASSUME NEW size \in Sizes, NEW page \in Nat \ {0}, NEW total \in Nat
    PROVE  page < TotalPages(total, size) <=> Skip(page + 1, size) < total
<1> DEFINE s == PageSize(size)
           q == total \div s
           r == total % s
<1>1. s \in Nat \ {0}
  BY PageSizes
<1>2. TotalPages(total, size) = q + (IF r # 0 THEN 1 ELSE 0) /\ Skip(page + 1, size) = page * s
  BY DEF TotalPages, Skip
<1> HIDE DEF s
<1>3. q \in Nat /\ r \in 0..s - 1 /\ total = s * q + r
  BY <1>1
<1> HIDE DEF q, r
<1>4. ASSUME page <= q PROVE page * s <= s * q
  BY <1>1, <1>3, <1>4
<1>5. ASSUME page > q PROVE page * s >= s * q + s
  <2>1. page >= q + 1
    BY <1>3, <1>5
  <2>2. page * s >= (q + 1) * s
    BY <1>1, <1>3, <2>1
  <2> QED
    BY <1>1, <1>3, <2>2
<1>6. ASSUME page < q PROVE page * s + s <= s * q
  <2>1. page + 1 <= q
    BY <1>3, <1>6
  <2>2. (page + 1) * s <= q * s
    BY <1>1, <1>3, <2>1
  <2> QED
    BY <1>1, <1>3, <2>2
<1>7. page * s \in Int /\ s * q \in Int
  BY <1>1, <1>3
<1>8. CASE page < q
  BY <1>1, <1>2, <1>3, <1>6, <1>7, <1>8
<1>9. CASE page = q
  <2>1. page * s = s * q
    BY <1>1, <1>3, <1>9
  <2> QED
    BY <1>1, <1>2, <1>3, <1>7, <1>9, <2>1
<1>10. CASE page > q
  BY <1>1, <1>2, <1>3, <1>5, <1>7, <1>10
<1> QED
  BY <1>3, <1>8, <1>9, <1>10

\* The rows are finitely many.
LEMMA PresentIsFinite ==
    ASSUME NEW coll
    PROVE  /\ Present(coll) \subseteq Ids /\ IsFiniteSet(Present(coll))
           /\ Cardinality(Present(coll)) \in Nat
<1>1. Present(coll) \subseteq Ids
  BY DEF Present
<1> QED
  BY <1>1, FS_Subset, FS_CardinalityType, DefinitionsAssumption

\* An order of the rows has each of them once.
LEMMA OrderFields ==
    ASSUME NEW coll, NEW sortBy, NEW desc,
           NEW order \in Sorted(coll, Present(coll), sortBy, desc)
    PROVE  /\ order \in [1..Cardinality(Present(coll)) -> Present(coll)]
           /\ order \in Seq(Ids) /\ Len(order) = Cardinality(Present(coll))
           /\ \A i, j \in 1..Cardinality(Present(coll)) : order[i] = order[j] => i = j
           /\ \A id \in Present(coll) : \E i \in 1..Cardinality(Present(coll)) : order[i] = id
<1> DEFINE S == Present(coll)
           n == Cardinality(S)
<1>1. S \subseteq Ids /\ IsFiniteSet(S) /\ n \in Nat
  BY PresentIsFinite
<1>2. order \in SetToSeqs(S)
  BY DEF Sorted
<1> HIDE DEF S
<1>3. order \in [1..n -> S] /\ \A i, j \in 1..n : i # j => order[i] # order[j]
  BY <1>2 DEF SetToSeqs
<1>4. IsFiniteSet(1..n) /\ Cardinality(1..n) = n
  BY <1>1, FS_Interval
<1>5. order \in Injection(1..n, S)
  BY <1>3 DEF Injection, IsInjective
<1>6. order \in Surjection(1..n, S)
  BY <1>1, <1>4, <1>5, FS_Injection
<1>7. \A id \in S : \E i \in 1..n : order[i] = id
  BY <1>6 DEF Surjection
<1> HIDE DEF n
<1>8. order \in Seq(S) /\ Len(order) = n
  BY <1>1, <1>3, LenProperties, SeqDef
<1>9. order \in Seq(Ids)
  BY <1>1, <1>8, SeqDef
<1> QED
  BY <1>3, <1>7, <1>8, <1>9 DEF S, n

\* A page of it.
LEMMA PageFields ==
    ASSUME NEW order \in Seq(Ids), NEW size \in Sizes, NEW page \in Nat \ {0}
    PROVE  /\ Page(order, page, size) \in Seq(Ids)
           /\ Skip(page, size) <= Len(order) =>
                /\ Skip(page, size) + Len(Page(order, page, size))
                     = IF Skip(page + 1, size) < Len(order) THEN Skip(page + 1, size) ELSE Len(order)
                /\ \A k \in 1..Len(Page(order, page, size)) :
                      Page(order, page, size)[k] = order[Skip(page, size) + k]
<1> DEFINE a == Skip(page, size)
           b == Skip(page + 1, size)
           n == Len(order)
           m == Min({b, n})
           p == Page(order, page, size)
<1>1. a \in Nat /\ b \in Nat /\ a < b /\ b = a + PageSize(size) /\ n \in Nat
  <2>1. PageSize(size) \in Nat \ {0} /\ a \in Nat /\ b = a + PageSize(size)
    BY PageSizes
  <2> HIDE DEF a, b
  <2> QED
    BY <2>1
<1>2. p = SubSeq(order, a + 1, m)
  BY <1>1 DEF Page
<1> HIDE DEF a, b, p
<1>3. m = IF b <= n THEN b ELSE n
  BY <1>1, MinOfTwo
<1> HIDE DEF m
<1>4. m \in Int /\ a + 1 \in Int /\ m <= n /\ \A i \in (a + 1)..m : i \in 1..n
  BY <1>1, <1>3
<1> HIDE DEF n
<1>5. \A i \in (a + 1)..m : order[i] \in Ids
  BY <1>4, ElementOfSeq DEF n
<1>6. /\ p \in Seq(Ids) /\ Len(p) = (IF a + 1 <= m THEN m - (a + 1) + 1 ELSE 0)
      /\ \A i \in 1..(m - (a + 1) + 1) : p[i] = order[(a + 1) + i - 1]
  BY <1>2, <1>4, <1>5, SubSeqProperties
<1>7. ASSUME a <= n
      PROVE  a + Len(p) = (IF b < n THEN b ELSE n) /\ \A k \in 1..Len(p) : p[k] = order[a + k]
  <2>1. Len(p) = m - a
    BY <1>1, <1>3, <1>4, <1>6, <1>7
  <2>2. \A k \in 1..(m - a) : k \in 1..(m - (a + 1) + 1) /\ (a + 1) + k - 1 = a + k
    BY <1>1, <1>4
  <2>3. \A k \in 1..(m - a) : p[k] = order[a + k]
    BY <1>6, <2>2
  <2> QED
    BY <1>1, <1>3, <1>4, <2>1, <2>3
<1> QED
  BY <1>6, <1>7 DEF a, b, n, p

\* A set of numbers that is not empty has a least one.
LEMMA LeastNumber == ASSUME NEW S \in SUBSET Nat, S # {} PROVE \E x \in S : \A y \in S : x <= y
<1>1. PICK x \in S : \A y \in S : ~(<<y, x>> \in OpToRel(<, Nat))
  BY NatLessThanWellFounded, WFMin
<1>2. \A y \in S : ~(y < x)
  <2>1. \A y \in Nat : y < x => <<y, x>> \in OpToRel(<, Nat)
    BY Zenon DEF OpToRel
  <2> QED
    BY <1>1, <2>1
<1>3. \A y \in S : x <= y
  BY <1>2
<1> QED
  BY <1>3

\* Two orders by a field in which the rows differ are the same.
LEMMA OrderIsUnique ==
    ASSUME Held, NEW coll \in Collections, NEW sortBy, NEW desc, Ordered(coll, sortBy),
           NEW O \in Sorted(coll, Present(coll), sortBy, desc),
           NEW P \in Sorted(coll, Present(coll), sortBy, desc)
    PROVE  O = P
<1> DEFINE S == Present(coll)
           n == Cardinality(S)
           key(i) == Field(coll, i, MapSortField(coll, sortBy))
           \* before(i, j): the row i comes before the row j
           before(i, j) == IF desc THEN key(i) > key(j) ELSE key(i) < key(j)
<1>1. /\ O \in [1..n -> S] /\ P \in [1..n -> S] /\ n \in Nat
      /\ \A i, j \in 1..n : O[i] = O[j] => i = j
      /\ \A i, j \in 1..n : P[i] = P[j] => i = j
      /\ \A id \in S : \E i \in 1..n : O[i] = id
      /\ \A id \in S : \E i \in 1..n : P[i] = id
  BY OrderFields, PresentIsFinite
<1>2. \A i \in S : key(i) \in Int
  <2>1. \A i \in S : i \in Int /\ rows[coll][i].name \in Int
    <3> SUFFICES ASSUME NEW i \in S PROVE i \in Int /\ rows[coll][i].name \in Int
      OBVIOUS
    <3>1. i \in Ids /\ rows[coll][i] # NoDocument
      BY DEF Present
    <3>2. rows[coll][i].name \in Names
      BY <3>1, RowFields
    <3>3. (\A x \in Names : x \in Int) /\ (\A x \in Ids : x \in Int)
      BY DefinitionsAssumption
    <3> QED
      BY <3>1, <3>2, <3>3, Zenon
  <2> QED
    BY <2>1 DEF Field
<1>3. \A i, j \in S : i # j => key(i) # key(j)
  BY DEF Ordered
<1>4. ASSUME NEW Q \in Sorted(coll, S, sortBy, desc), Q \in [1..n -> S]
      PROVE  \A j, k \in 1..n : j < k => IF desc THEN key(Q[j]) >= key(Q[k])
                                                 ELSE key(Q[j]) <= key(Q[k])
  <2>1. DOMAIN Q = 1..n
    BY <1>4
  <2> QED
    BY <2>1 DEF Sorted
<1>5. (\A j, k \in 1..n : j < k => IF desc THEN key(O[j]) >= key(O[k]) ELSE key(O[j]) <= key(O[k]))
      /\ (\A j, k \in 1..n : j < k => IF desc THEN key(P[j]) >= key(P[k]) ELSE key(P[j]) <= key(P[k]))
  BY <1>1, <1>4
<1> HIDE DEF key, S, n
<1>6. \A j, k \in 1..n : j < k => before(O[j], O[k]) /\ before(P[j], P[k])
  <2> SUFFICES ASSUME NEW j \in 1..n, NEW k \in 1..n, j < k
               PROVE  before(O[j], O[k]) /\ before(P[j], P[k])
    OBVIOUS
  <2>1. O[j] \in S /\ O[k] \in S /\ O[j] # O[k] /\ P[j] \in S /\ P[k] \in S /\ P[j] # P[k]
    BY <1>1
  <2>2. /\ key(O[j]) \in Int /\ key(O[k]) \in Int /\ key(O[j]) # key(O[k])
        /\ key(P[j]) \in Int /\ key(P[k]) \in Int /\ key(P[j]) # key(P[k])
    BY <1>2, <1>3, <2>1
  <2>3. /\ IF desc THEN key(O[j]) >= key(O[k]) ELSE key(O[j]) <= key(O[k])
        /\ IF desc THEN key(P[j]) >= key(P[k]) ELSE key(P[j]) <= key(P[k])
    BY <1>5
  <2> QED
    BY <2>2, <2>3
<1>7. \A i, j \in S : ~(before(i, j) /\ before(j, i))
  BY <1>2
<1> HIDE DEF before
<1>8. SUFFICES ASSUME NEW bad \in 1..n, O[bad] # P[bad]
               PROVE  FALSE
  BY <1>1
<1> DEFINE D == {i \in 1..n : O[i] # P[i]}
<1>9. D \in SUBSET Nat /\ D # {}
  <2>1. bad \in D
    BY <1>8
  <2>2. D \subseteq 1..n
    OBVIOUS
  <2>3. 1..n \subseteq Nat
    BY <1>1
  <2> HIDE DEF D
  <2> QED
    BY <2>1, <2>2, <2>3
<1>10. PICK m \in D : \A i \in D : m <= i
  <2> HIDE DEF D
  <2> QED
    BY <1>9, LeastNumber
<1>11. m \in 1..n /\ O[m] # P[m] /\ O[m] \in S /\ P[m] \in S
       /\ \A i \in 1..n : i < m => O[i] = P[i]
  <2>1. \A i \in 1..n : i < m => ~(m <= i)
    BY <1>1, <1>10
  <2> QED
    BY <1>1, <1>10, <2>1
<1>12. PICK k \in 1..n : P[k] = O[m]
  BY <1>1, <1>11
<1>13. PICK l \in 1..n : O[l] = P[m]
  BY <1>1, <1>11
<1>14. m < k /\ m < l
  <2>1. k # m /\ l # m
    BY <1>11, <1>12, <1>13
  <2>2. ~(k < m)
    BY <1>1, <1>11, <1>12, <2>1
  <2>3. ~(l < m)
    BY <1>1, <1>11, <1>13, <2>1
  <2> QED
    BY <1>1, <1>11, <2>1, <2>2, <2>3
<1>15. before(P[m], O[m]) /\ before(O[m], P[m])
  BY <1>6, <1>11, <1>12, <1>13, <1>14
<1> QED
  BY <1>7, <1>11, <1>15

-----------------------------------------------------------------------------
(* The definitions: the steps of a walk *)

\* What a call that walks has of its walk.
LEMMA WalkFields ==
    ASSUME Held, NEW c \in Calls, call[c].pc \in {"count", "find"}
    PROVE  LET l == call[c].list
           IN  /\ l \in Walks /\ l.page \in Nat \ {0} /\ l.total \in Nat /\ l.seen \in Seq(Ids)
               /\ l.size \in Sizes /\ l.from \in Nat
<1>1. call[c].list \in Walks
  BY DEF Held, InHand
<1> QED
  BY <1>1 DEF Walks

LEMMA ListEffect ==
    ASSUME Held, NEW c \in Calls, Lists(c)
    PROVE  \E y : Effect(c, y)
<1>1. PICK coll \in Collections, sortBy \in {"name", "createdAt", "id"}, desc \in BOOLEAN,
           size \in Sizes : List(c, coll, sortBy, desc, size)
  BY DEF Lists
<1> DEFINE x == Started(c, "list", coll, "count")
           l == [sortBy |-> sortBy, desc |-> desc, size |-> size, page |-> 1,
                 total |-> 0, seen |-> <<>>, from |-> version[coll]]
           y == [x EXCEPT !.list = l]
<1>2. "list" \in Ops[c] /\ call[c].pc = "idle" /\ Unchanged /\ call' = [call EXCEPT ![c] = y]
  BY <1>1 DEF List, Begin
<1>3. /\ x \in CallRecords /\ x.op = "list" /\ x.coll = coll /\ x.pc = "count" /\ x.batch = 1
      /\ x.answer = "none" /\ x.removed = 0
  BY <1>2, StartedFields DEF CallPcs
<1>4. l \in Walks
  <2>1. version[coll] \in Nat /\ <<>> \in Seq(Ids) /\ 1 \in Nat \ {0}
    BY EmptySeq DEF Held
  <2> QED
    BY <2>1 DEF Walks
<1>5. l.page = 1 /\ l.total = 0 /\ l.seen = <<>> /\ l.from = version[coll]
  OBVIOUS
<1> HIDE DEF x, l
<1>6. /\ y \in CallRecords /\ y.op = "list" /\ y.coll = coll /\ y.pc = "count" /\ y.batch = 1
      /\ y.answer = "none" /\ y.removed = 0 /\ y.list = l
  BY <1>3, <1>4 DEF CallRecords
<1> HIDE DEF y
<1>7. InHand(y) /\ FirstPage(y)
  BY <1>4, <1>5, <1>6 DEF InHand, FirstPage
<1> QED
  BY <1>2, <1>6, <1>7, BeginEffect

LEMMA CountSteps ==
    ASSUME Held, NEW c \in Calls, Count(c)
    PROVE  \E y \in CallRecords :
             LET x == call[c]
             IN  /\ call' = [call EXCEPT ![c] = y]
                 /\ x.pc = "count" /\ y.pc = "find" /\ y.op = x.op /\ y.coll = x.coll
                 /\ y.answer = x.answer /\ y.batch = x.batch /\ y.list \in Walks
                 /\ y.list.total = Cardinality(Present(x.coll)) /\ y.list.seen = x.list.seen
                 /\ y.list.page = x.list.page /\ y.list.size = x.list.size
                 /\ y.list.from = x.list.from /\ y.list.sortBy = x.list.sortBy
                 /\ y.list.desc = x.list.desc
<1> DEFINE x == call[c]
           n == Cardinality(Present(x.coll))
           l == [x.list EXCEPT !.total = n]
           y == [x EXCEPT !.pc = "find", !.list = l]
<1>1. x.pc = "count" /\ x \in CallRecords /\ x.list \in Walks
  BY WalkFields DEF Count, Held
<1>2. n \in Nat
  BY PresentIsFinite
<1>3. call' = [call EXCEPT ![c] = y]
  BY <1>1 DEF Count, CallRecords, Held
<1> HIDE DEF x, n
<1>4. /\ l \in Walks /\ l.total = n /\ l.seen = x.list.seen /\ l.page = x.list.page
      /\ l.size = x.list.size /\ l.from = x.list.from /\ l.sortBy = x.list.sortBy
      /\ l.desc = x.list.desc
  BY <1>1, <1>2 DEF Walks
<1> HIDE DEF l
<1>5. /\ y \in CallRecords /\ y.pc = "find" /\ y.op = x.op /\ y.coll = x.coll /\ y.list = l
      /\ y.answer = x.answer /\ y.batch = x.batch
  BY <1>1, <1>4 DEF CallRecords, CallPcs
<1> HIDE DEF y
<1> QED
  BY <1>1, <1>3, <1>4, <1>5, Zenon DEF x, n

LEMMA FindSteps ==
    ASSUME Held, NEW c \in Calls, Find(c)
    PROVE  \E y \in CallRecords :
             LET x == call[c]
                 l == x.list
             IN  \E order \in Sorted(x.coll, Present(x.coll), l.sortBy, l.desc) :
                   /\ call' = [call EXCEPT ![c] = y]
                   /\ x.pc = "find" /\ y.op = x.op /\ y.coll = x.coll
                   /\ y.pc = IF l.page < TotalPages(l.total, l.size) THEN "count" ELSE "done"
                   /\ y.answer = x.answer /\ y.batch = x.batch /\ y.list \in Walks
                   /\ y.list.seen = l.seen \o Page(order, l.page, l.size)
                   /\ y.list.page = l.page + 1 /\ y.list.size = l.size
                   /\ y.list.from = l.from /\ y.list.sortBy = l.sortBy /\ y.list.desc = l.desc
<1> DEFINE x == call[c]
           w == x.list
<1>1. x.pc = "find" /\ x \in CallRecords /\ w \in Walks /\ w.page \in Nat \ {0}
      /\ w.seen \in Seq(Ids) /\ w.size \in Sizes
  BY WalkFields DEF Find, Held
<1>2. PICK order \in Sorted(x.coll, Present(x.coll), w.sortBy, w.desc) :
         call' = [call EXCEPT
                 ![c].list.seen = @ \o Page(order, w.page, w.size),
                 ![c].list.page = @ + 1,
                 ![c].pc = IF w.page < TotalPages(w.total, w.size) THEN "count" ELSE "done"]
  BY DEF Find
<1> DEFINE seen == w.seen \o Page(order, w.page, w.size)
           page == w.page + 1
           pc == IF w.page < TotalPages(w.total, w.size) THEN "count" ELSE "done"
           l == [w EXCEPT !.seen = seen, !.page = page]
           y == [x EXCEPT !.list = l, !.pc = pc]
<1>3. seen \in Seq(Ids) /\ page \in Nat \ {0} /\ pc \in CallPcs
  <2>1. Page(order, w.page, w.size) \in Seq(Ids)
    BY <1>1, OrderFields, PageFields
  <2>2. seen \in Seq(Ids)
    <3> HIDE DEF w
    <3> QED
      BY <1>1, <2>1, ConcatProperties
  <2>3. page \in Nat \ {0}
    <3> HIDE DEF w
    <3> QED
      BY <1>1
  <2>4. pc \in CallPcs
    BY DEF CallPcs
  <2> QED
    BY <2>2, <2>3, <2>4
<1>4. call' = [call EXCEPT ![c] = y]
  <2>1. call \in [Calls -> CallRecords]
    BY DEF Held
  <2> HIDE DEF pc
  <2> QED
    BY <1>1, <1>2, <2>1 DEF CallRecords, Walks, pc
<1> HIDE DEF x, w, seen, page, pc
<1>5. /\ l \in Walks /\ l.seen = seen /\ l.page = page /\ l.size = w.size /\ l.from = w.from
      /\ l.sortBy = w.sortBy /\ l.desc = w.desc
  BY <1>1, <1>3 DEF Walks
<1> HIDE DEF l
<1>6. /\ y \in CallRecords /\ y.pc = pc /\ y.op = x.op /\ y.coll = x.coll /\ y.list = l
      /\ y.answer = x.answer /\ y.batch = x.batch
  BY <1>1, <1>3, <1>5 DEF CallRecords
<1> HIDE DEF y
<1> QED
  BY <1>1, <1>4, <1>5, <1>6, Zenon DEF x, w, seen, page, pc

LEMMA WalkEffect ==
    ASSUME Held, NEW c \in Calls, Count(c) \/ Find(c)
    PROVE  \E y : Effect(c, y)
<1> DEFINE x == call[c]
<1>1. PICK y \in CallRecords :
        /\ call' = [call EXCEPT ![c] = y]
        /\ x.pc \in {"count", "find"} /\ y.pc \in {"count", "find", "done"} /\ y.op = x.op
        /\ y.coll = x.coll /\ y.answer = x.answer /\ y.batch = x.batch /\ y.list \in Walks
  BY CountSteps, FindSteps
<1>2. UNCHANGED <<rows, version>>
  BY DEF Count, Find, Unchanged
<1>3. /\ x.answer = "none" /\ ~Deletes(x) /\ x.op \in Ops[c] \cup {"none"}
      /\ \A k \in Collections : MadeBy(x, k) = 0 /\ TakenBy(x, k) = 0
  BY <1>1, WorkingCounts
<1> HIDE DEF x
<1>4. InHand(y) /\ \A k \in Collections : MadeBy(y, k) = 0 /\ TakenBy(y, k) = 0
  BY <1>1, <1>3 DEF InHand, MadeBy, TakenBy
<1>5. Quiet(x, y)
  BY <1>1, <1>2, <1>3, <1>4 DEF Quiet, Same
<1> QED
  BY <1>1, <1>3, <1>4, <1>5 DEF Effect, x

\* The steps of the definitions: of one call each.
LEMMA StepEffect ==
    ASSUME Held, DefinitionsNext
    PROVE  /\ \E c \in Calls : \E y : Effect(c, y)
           /\ taken' \subseteq Ids
<1>1. PICK c \in Calls :
        \/ \E op \in Ops[c] : Refuse(c, op)
        \/ Tasks(c) \/ Workers(c) \/ Lists(c)
        \/ Write(c) \/ FinishDelete(c) \/ InsertNext(c) \/ SweepNext(c) \/ Count(c) \/ Find(c)
  BY DEF DefinitionsNext
<1>2. CASE \E op \in Ops[c] : Refuse(c, op)
  BY <1>2, RefuseEffect DEF Refuse, Held
<1>3. CASE Tasks(c)
  <2>1. ASSUME NEW id \in Ids, NEW name \in Names, NEW created \in {0, c},
               CreateTask(c, id, name, created)
        PROVE  (\E y : Effect(c, y)) /\ taken' \subseteq Ids
    BY <2>1, CreateTaskEffect DEF CreateTask, Held
  <2>2. ASSUME NEW id \in Ids, NEW name \in Names, UpdateTask(c, id, name)
        PROVE  (\E y : Effect(c, y)) /\ taken' \subseteq Ids
    BY <2>2, UpdateEffect DEF UpdateTask, FindByID, Held
  <2>3. ASSUME NEW id \in Ids, DeleteTask(c, id)
        PROVE  (\E y : Effect(c, y)) /\ taken' \subseteq Ids
    <3>1. DeleteById(c, "deleteTask", "tasks", id) /\ "deleteTask" \in Ops[c]
      BY <2>3 DEF DeleteTask, DeleteById, Begin
    <3>2. "deleteTask" \in Removals
      BY DEF Removals
    <3> QED
      BY <3>1, <3>2, DeleteByIdEffect DEF DeleteById, Held, Collections
  <2> QED
    BY <1>3, <2>1, <2>2, <2>3 DEF Tasks
<1>4. CASE Workers(c)
  <2>1. ASSUME NEW id \in Ids, NEW name \in Names, CreateWorkerDefinition(c, id, name, "UNKNOWN")
        PROVE  (\E y : Effect(c, y)) /\ taken' \subseteq Ids
    BY <2>1, CreateWorkerDefinitionEffect
  <2>2. ASSUME NEW id \in Ids, NEW name \in Names, UpdateWorkerDefinition(c, id, name, "UNKNOWN")
        PROVE  (\E y : Effect(c, y)) /\ taken' \subseteq Ids
    BY <2>2, UpdateEffect DEF UpdateWorkerDefinition, FindByID, Held
  <2>3. ASSUME NEW id \in Ids, UpdateWorkerStatus(c, id, "RUNNING")
        PROVE  (\E y : Effect(c, y)) /\ taken' \subseteq Ids
    BY <2>3, UpdateEffect DEF UpdateWorkerStatus, FindByID, Held
  <2>4. ASSUME NEW id \in Ids, DeleteWorkerDefinition(c, id)
        PROVE  (\E y : Effect(c, y)) /\ taken' \subseteq Ids
    <3>1. DeleteById(c, "deleteWorker", "workers", id) /\ "deleteWorker" \in Ops[c]
      BY <2>4 DEF DeleteWorkerDefinition, DeleteById, Begin
    <3>2. "deleteWorker" \in Removals
      BY DEF Removals
    <3> QED
      BY <3>1, <3>2, DeleteByIdEffect DEF DeleteById, Held, Collections
  <2>5. ASSUME NEW i \in Ids, NEW j \in Ids,
               CreateWorkersBatch(c, <<i, j>>) \/ DeleteWorkersBatch(c, <<i, j>>)
        PROVE  (\E y : Effect(c, y)) /\ taken' \subseteq Ids
    BY <2>5, BatchEffect
  <2>6. ASSUME NEW name \in Names, FindWorkerDefinitionByName(c, name)
        PROVE  (\E y : Effect(c, y)) /\ taken' \subseteq Ids
    BY <2>6, RefuseEffect DEF FindWorkerDefinitionByName, Held
  <2> QED
    BY <1>4, <2>1, <2>2, <2>3, <2>4, <2>5, <2>6 DEF Workers
<1>5. CASE Lists(c)
  BY <1>5, ListEffect DEF Lists, List, Held
<1>6. CASE Write(c)
  BY <1>6, WriteEffect DEF Write, Held
<1>7. CASE FinishDelete(c)
  BY <1>7, FinishDeleteEffect DEF FinishDelete, Held
<1>8. CASE InsertNext(c)
  BY <1>8, InsertNextEffect DEF InsertNext, Held
<1>9. CASE SweepNext(c)
  BY <1>9, SweepNextEffect DEF SweepNext, Held
<1>10. CASE Count(c) \/ Find(c)
  BY <1>10, WalkEffect DEF Count, Find, Held
<1> QED
  BY <1>1, <1>2, <1>3, <1>4, <1>5, <1>6, <1>7, <1>8, <1>9, <1>10

-----------------------------------------------------------------------------
(* The definitions: the types *)

\* What the rows are after a step of call c.
LEMMA EffectOnRows ==
    ASSUME Held, NEW c \in Calls, NEW y, Effect(c, y)
    PROVE  /\ call'[c] = y /\ \A b \in Calls \ {c} : call'[b] = call[b]
           /\ \/ UNCHANGED <<rows, version>>
              \/ \E coll \in Collections, id \in Ids, d \in Documents \cup {NoDocument} :
                    /\ rows'[coll][id] = d /\ version'[coll] = version[coll] + 1
                    /\ \A k \in Collections, i \in Ids :
                          k # coll \/ i # id => rows'[k][i] = rows[k][i]
                    /\ \A k \in Collections \ {coll} : rows'[k] = rows[k] /\ version'[k] = version[k]
                    /\ \/ Adds(call[c], y, coll, id, d) \/ Replaces(call[c], y, coll, id, d)
                       \/ Takes(call[c], y, coll, id, d)
<1>1. call'[c] = y /\ \A b \in Calls \ {c} : call'[b] = call[b]
  BY DEF Effect, Held
<1>2. CASE Quiet(call[c], y)
  BY <1>1, <1>2 DEF Quiet
<1>3. ASSUME NEW coll \in Collections, NEW id \in Ids, NEW d \in Documents \cup {NoDocument},
             Store(coll, id, d)
      PROVE  /\ rows'[coll][id] = d /\ version'[coll] = version[coll] + 1
             /\ \A k \in Collections, i \in Ids : k # coll \/ i # id => rows'[k][i] = rows[k][i]
             /\ \A k \in Collections \ {coll} : rows'[k] = rows[k] /\ version'[k] = version[k]
  BY <1>3 DEF Store, Held
<1> QED
  BY <1>1, <1>2, <1>3 DEF Effect

LEMMA HeldKept == Held /\ [DefinitionsNext]_definitionsVars => Held'
<1> SUFFICES ASSUME Held, [DefinitionsNext]_definitionsVars PROVE Held'
  OBVIOUS
<1>1. CASE DefinitionsNext
  <2>0. PICK c \in Calls : \E y : Effect(c, y)
    BY <1>1, StepEffect
  <2>1. PICK y : Effect(c, y)
    BY <2>0
  <2>2. taken' \subseteq Ids
    BY <1>1, StepEffect
  <2>3. call' \in [Calls -> CallRecords]
    BY <2>1 DEF Effect, Held
  <2>4. \A b \in Calls : InHand(call'[b]) /\ call'[b].op \in Ops[b] \cup {"none"}
    BY <2>1, EffectOnRows DEF Effect, Held
  <2>5. /\ rows' \in [Collections -> [Ids -> Documents \cup {NoDocument}]]
        /\ version' \in [Collections -> Nat]
    <3>1. CASE UNCHANGED <<rows, version>>
      BY <3>1 DEF Held
    <3>2. ASSUME NEW coll \in Collections, NEW id \in Ids, NEW d \in Documents \cup {NoDocument},
                 Store(coll, id, d)
          PROVE  /\ rows' \in [Collections -> [Ids -> Documents \cup {NoDocument}]]
                 /\ version' \in [Collections -> Nat]
      BY <3>2 DEF Store, Held
    <3> QED
      BY <2>1, <3>1, <3>2 DEF Effect, Quiet
  <2> QED
    BY <2>2, <2>3, <2>4, <2>5 DEF Held
<1>2. CASE UNCHANGED definitionsVars
  BY <1>2 DEF definitionsVars, Held, InHand
<1> QED
  BY <1>1, <1>2

LEMMA HeldAlways == DefinitionsSpec => []Held
BY HeldInit, HeldKept, PTL DEF DefinitionsSpec

\* The rows are documents, and the calls hold what they may.
THEOREM DefinitionsTypes == DefinitionsSpec => []DefinitionsTypeOK
<1>1. Held => DefinitionsTypeOK
  BY DEF Held, DefinitionsTypeOK, CallRecords, CallPcs, CallAnswers
<1> QED
  BY <1>1, HeldAlways, PTL

-----------------------------------------------------------------------------
(* The definitions: the time a row was created at *)

\* An update that has read a row holds the time the row has, unless a deletion came between.
HoldsTime ==
    \A c \in Calls : call[c].pc = "write" =>
        \/ /\ rows[call[c].coll][call[c].id] # NoDocument
           /\ rows[call[c].coll][call[c].id].created = call[c].entity.created
        \/ \E d \in Calls : call[d].coll = call[c].coll /\ Deletes(call[d])

LEMMA HoldsTimeKept == Held /\ HoldsTime /\ [DefinitionsNext]_definitionsVars => HoldsTime'
<1> SUFFICES ASSUME Held, HoldsTime, [DefinitionsNext]_definitionsVars PROVE HoldsTime'
  OBVIOUS
<1>1. CASE DefinitionsNext
  <2>0. PICK a \in Calls : \E y : Effect(a, y)
    BY <1>1, StepEffect
  <2>1. PICK y : Effect(a, y)
    BY <2>0
  <2>2. call'[a] = y /\ \A b \in Calls \ {a} : call'[b] = call[b]
    BY <2>1, EffectOnRows
  <2>3. Deletes(call[a]) => Deletes(y) /\ y.coll = call[a].coll
    BY <2>1 DEF Effect
  <2>4. ASSUME NEW coll, \E d \in Calls : call[d].coll = coll /\ Deletes(call[d])
        PROVE  \E d \in Calls : call'[d].coll = coll /\ Deletes(call'[d])
    BY <2>2, <2>3, <2>4, Zenon
  <2>5. SUFFICES ASSUME NEW c \in Calls, call'[c].pc = "write"
                 PROVE  \/ /\ rows'[call'[c].coll][call'[c].id] # NoDocument
                           /\ rows'[call'[c].coll][call'[c].id].created = call'[c].entity.created
                        \/ \E d \in Calls : call'[d].coll = call'[c].coll /\ Deletes(call'[d])
    BY DEF HoldsTime, Deletes
  <2>6. CASE c = a
    <3>1. Quiet(call[a], y)
      BY <2>1, <2>2, <2>5, <2>6 DEF Effect, Adds, Replaces, Takes
    <3> QED
      BY <2>2, <2>5, <2>6, <3>1 DEF Quiet
  <2>7. CASE c # a
    <3>1. call'[c] = call[c]
      BY <2>2, <2>7
    <3> DEFINE coll == call[c].coll
               id == call[c].id
    <3>2. coll \in Collections /\ id \in Ids
      BY <2>5, <3>1 DEF Held, InHand, CallRecords
    <3>3. \/ rows[coll][id] # NoDocument /\ rows[coll][id].created = call[c].entity.created
          \/ \E d \in Calls : call[d].coll = coll /\ Deletes(call[d])
      BY <2>5, <3>1 DEF HoldsTime
    <3> SUFFICES ASSUME rows[coll][id] # NoDocument,
                        rows[coll][id].created = call[c].entity.created,
                        ~ \E d \in Calls : call[d].coll = coll /\ Deletes(call[d])
                 PROVE  \/ /\ rows'[coll][id] # NoDocument
                           /\ rows'[coll][id].created = call[c].entity.created
                        \/ \E d \in Calls : call'[d].coll = coll /\ Deletes(call'[d])
      BY <2>4, <3>1, <3>3
    <3>4. CASE rows'[coll][id] = rows[coll][id]
      BY <3>4
    <3>5. CASE rows'[coll][id] # rows[coll][id]
      <4>1. PICK d \in Documents \cup {NoDocument} :
               /\ rows'[coll][id] = d
               /\ \/ Adds(call[a], y, coll, id, d) \/ Replaces(call[a], y, coll, id, d)
                  \/ Takes(call[a], y, coll, id, d)
        BY <2>1, <3>2, <3>5, EffectOnRows
      <4>2. CASE Replaces(call[a], y, coll, id, d)
        <5>1. /\ call[a].pc = "write" /\ call[a].coll = coll /\ call[a].id = id
              /\ call[a].entity.created = d.created /\ d # NoDocument
          BY <4>2, DocumentsAreRows DEF Replaces
        <5>2. rows[coll][id].created = call[a].entity.created
          BY <5>1 DEF HoldsTime
        <5> QED
          BY <4>1, <5>1, <5>2
      <4>3. CASE Takes(call[a], y, coll, id, d)
        BY <2>2, <4>3 DEF Takes
      <4> QED
        BY <4>1, <4>2, <4>3 DEF Adds
    <3> QED
      BY <3>4, <3>5
  <2> QED
    BY <2>6, <2>7
<1>2. CASE UNCHANGED definitionsVars
  BY <1>2 DEF definitionsVars, HoldsTime, Deletes
<1> QED
  BY <1>1, <1>2

\* An update writes the time the row had that it read: the row in its place has another only
\* if the one that was read has been deleted.
THEOREM UpdatesKeepTheTime == DefinitionsSpec => CreatedKept
<1>1. DefinitionsInit => HoldsTime
  BY DEF DefinitionsInit, HoldsTime, IdleCall
<1>2. ASSUME Held, HoldsTime, DefinitionsNext, NEW coll \in Collections, NEW i \in Ids,
             rows[coll][i] # NoDocument, rows'[coll][i] # NoDocument,
             rows'[coll][i].created # rows[coll][i].created
      PROVE  \E c, d \in Calls :
               /\ call[c].pc = "write" /\ call'[c].answer \in {"updated", "unsure"}
               /\ call[c].coll = coll /\ call[c].id = i
               /\ call[c].entity.created = rows'[coll][i].created
               /\ call[d].coll = coll /\ Deletes(call[d])
  <2>0. PICK a \in Calls : \E y : Effect(a, y)
    BY <1>2, StepEffect
  <2>1. PICK y : Effect(a, y)
    BY <2>0
  <2>2. PICK d \in Documents \cup {NoDocument} :
           /\ rows'[coll][i] = d
           /\ \/ Adds(call[a], y, coll, i, d) \/ Replaces(call[a], y, coll, i, d)
              \/ Takes(call[a], y, coll, i, d)
    BY <1>2, <2>1, EffectOnRows
  <2>3. Replaces(call[a], y, coll, i, d)
    BY <1>2, <2>2 DEF Adds, Takes
  <2>4. /\ call[a].pc = "write" /\ call[a].coll = coll /\ call[a].id = i
        /\ call[a].entity.created = rows'[coll][i].created /\ call'[a].answer \in {"updated", "unsure"}
    <3>1. call'[a] = y
      BY <1>2, <2>1, EffectOnRows
    <3> QED
      BY <2>2, <2>3, <3>1 DEF Replaces
  <2>5. \E b \in Calls : call[b].coll = coll /\ Deletes(call[b])
    BY <1>2, <2>4 DEF HoldsTime
  <2> QED
    BY <2>4, <2>5
<1> DEFINE Step == \A coll \in Collections, i \in Ids :
          rows[coll][i] # NoDocument /\ rows'[coll][i] # NoDocument =>
             \/ rows'[coll][i].created = rows[coll][i].created
             \/ \E c, d \in Calls :
                   /\ call[c].pc = "write" /\ call'[c].answer \in {"updated", "unsure"}
                   /\ call[c].coll = coll /\ call[c].id = i
                   /\ call[c].entity.created = rows'[coll][i].created
                   /\ call[d].coll = coll /\ Deletes(call[d])
<1>3. Held /\ HoldsTime /\ [DefinitionsNext]_definitionsVars => [Step]_definitionsVars
  <2> SUFFICES ASSUME Held, HoldsTime, DefinitionsNext PROVE Step
    OBVIOUS
  <2> QED
    BY <1>2
<1>4. CreatedKept <=> [][Step]_definitionsVars
  BY DEF CreatedKept
<1> HIDE DEF Step
<1> QED
  BY <1>1, <1>3, <1>4, HeldInit, HeldKept, HoldsTimeKept, PTL DEF DefinitionsSpec

-----------------------------------------------------------------------------
(* The definitions: the answers account for the rows *)

\* The rows that the calls made, and those they took away, one pair for each.
Made(coll) == {e \in Calls \X (1..2) : e[2] <= MadeBy(call[e[1]], coll)}
Taken(coll) == {e \in Calls \X (1..2) : e[2] <= TakenBy(call[e[1]], coll)}

\* The calls that may have made a row, or taken one away, besides.
Makers(coll) == {c \in Calls : UnsureMade(call[c], coll)}
Takers(coll) == {c \in Calls : UnsureTaken(call[c], coll)}

StartRows(coll) == {i \in Ids : Start[coll][i] # NoDocument}
Failed(coll) == \E c \in Calls : call[c].coll = coll /\ call[c].answer = "partial"

Accounts ==
    \A coll \in Collections : ~Failed(coll) =>
        /\ Cardinality(Present(coll)) + Cardinality(Taken(coll))
             <= Cardinality(StartRows(coll)) + Cardinality(Made(coll)) + Cardinality(Makers(coll))
        /\ Cardinality(Present(coll)) + Cardinality(Taken(coll)) + Cardinality(Takers(coll))
             >= Cardinality(StartRows(coll)) + Cardinality(Made(coll))

LEMMA CountsBounded ==
    ASSUME NEW x \in CallRecords, InHand(x), NEW coll
    PROVE  /\ MadeBy(x, coll) \in 0..2 /\ TakenBy(x, coll) \in 0..2
           /\ x.coll # coll => MadeBy(x, coll) = 0 /\ TakenBy(x, coll) = 0
<1>1. x.batch \in 1..2 /\ x.removed \in Nat /\ x.left \in Seq(Ids)
  BY DEF CallRecords
<1>2. Len(x.left) \in Nat
  BY <1>1
<1>3. x.pc \in {"insert", "sweep"} => x.removed + Len(x.left) <= x.batch
  BY DEF InHand
<1> DEFINE len == Len(x.left)
<1> HIDE DEF len
<1>4. len \in Nat /\ (x.pc \in {"insert", "sweep"} => x.removed + len <= x.batch)
  BY <1>2, <1>3 DEF len
<1>5. /\ x.batch \in 0..2
      /\ x.pc = "insert" => x.batch - len \in 0..2
      /\ x.pc = "sweep" => x.removed \in 0..2
  BY <1>1, <1>4
<1> QED
  BY <1>5 DEF MadeBy, TakenBy, len

LEMMA LedgersAreFinite ==
    ASSUME NEW coll
    PROVE  /\ IsFiniteSet(Made(coll)) /\ Cardinality(Made(coll)) \in Nat
           /\ IsFiniteSet(Taken(coll)) /\ Cardinality(Taken(coll)) \in Nat
           /\ IsFiniteSet(Makers(coll)) /\ Cardinality(Makers(coll)) \in Nat
           /\ IsFiniteSet(Takers(coll)) /\ Cardinality(Takers(coll)) \in Nat
<1>1. IsFiniteSet(Calls) /\ IsFiniteSet(1..2)
  <2>1. MaxCalls \in Int
    BY DefinitionsAssumption
  <2>2. \A n \in Int : IsFiniteSet(1..n)
    BY FS_Interval
  <2>3. 2 \in Int
    OBVIOUS
  <2>4. IsFiniteSet(1..MaxCalls)
    BY <2>1, <2>2, Zenon
  <2>5. IsFiniteSet(1..2)
    BY <2>2, <2>3, Zenon
  <2> QED
    BY <2>4, <2>5 DEF Calls
<1>2. IsFiniteSet(Calls \X (1..2))
  BY <1>1, FS_Product
<1>3. Made(coll) \in SUBSET (Calls \X (1..2)) /\ Taken(coll) \in SUBSET (Calls \X (1..2))
  BY DEF Made, Taken
<1>4. Makers(coll) \in SUBSET Calls /\ Takers(coll) \in SUBSET Calls
  BY DEF Makers, Takers
<1> QED
  BY <1>1, <1>2, <1>3, <1>4, FS_Subset, FS_CardinalityType

\* One row more in the ledger of a call is one pair more.
Under(f) == {e \in Calls \X (1..2) : e[2] <= f[e[1]]}

LEMMA OneMore ==
    ASSUME NEW f, NEW g, NEW a \in Calls, NEW n \in 0..1, f[a] = n, g[a] = n + 1,
           \A b \in Calls \ {a} : g[b] = f[b],
           \A b \in Calls : f[b] \in 0..2
    PROVE  IsFiniteSet(Under(f)) => Cardinality(Under(g)) = Cardinality(Under(f)) + 1
<1> DEFINE F == {e \in Calls \X (1..2) : e[2] <= f[e[1]]}
           G == {e \in Calls \X (1..2) : e[2] <= g[e[1]]}
           new == <<a, n + 1>>
<1>1. new \in Calls \X (1..2) /\ new[1] = a /\ new[2] = n + 1
  OBVIOUS
<1>2. new \notin F
  BY <1>1
<1>3. G = F \cup {new}
  <2>1. ASSUME NEW e \in Calls \X (1..2)
        PROVE  e \in G <=> e \in F \/ e = new
    <3>1. e[1] \in Calls /\ e[2] \in 1..2 /\ e = <<e[1], e[2]>>
      OBVIOUS
    <3>2. CASE e[1] # a
      BY <1>1, <3>1, <3>2
    <3>3. CASE e[1] = a
      <4>1. e \in G <=> e[2] <= n + 1
        BY <3>1, <3>3
      <4>2. e \in F <=> e[2] <= n
        BY <3>1, <3>3
      <4>3. e = new <=> e[2] = n + 1
        BY <3>1, <3>3
      <4> QED
        BY <3>1, <4>1, <4>2, <4>3
    <3> QED
      BY <3>2, <3>3
  <2>2. G \subseteq Calls \X (1..2) /\ F \subseteq Calls \X (1..2)
    OBVIOUS
  <2> HIDE DEF F, G, new
  <2> QED
    BY <1>1, <2>1, <2>2
<1> HIDE DEF F, G, new
<1> QED
  BY <1>2, <1>3, FS_AddElement DEF F, G, Under

\* The sets that only the counts of one call change.
LEMMA LedgersKept ==
    ASSUME Held, NEW a \in Calls, NEW y, Effect(a, y), NEW coll \in Collections
    PROVE  /\ MadeBy(y, coll) = MadeBy(call[a], coll) => Made(coll)' = Made(coll)
           /\ TakenBy(y, coll) = TakenBy(call[a], coll) => Taken(coll)' = Taken(coll)
           /\ MadeBy(y, coll) = MadeBy(call[a], coll) + 1 =>
                 Cardinality(Made(coll)') = Cardinality(Made(coll)) + 1
           /\ TakenBy(y, coll) = TakenBy(call[a], coll) + 1 =>
                 Cardinality(Taken(coll)') = Cardinality(Taken(coll)) + 1
<1>1. call'[a] = y /\ \A b \in Calls \ {a} : call'[b] = call[b]
  BY EffectOnRows
<1> DEFINE f == [c \in Calls |-> MadeBy(call[c], coll)]
           g == [c \in Calls |-> MadeBy(call'[c], coll)]
           h == [c \in Calls |-> TakenBy(call[c], coll)]
           k == [c \in Calls |-> TakenBy(call'[c], coll)]
<1>2. \A c \in Calls : f[c] \in 0..2 /\ h[c] \in 0..2
  BY CountsBounded DEF Held
<1>3. g[a] \in 0..2 /\ k[a] \in 0..2
  BY <1>1, CountsBounded DEF Effect
<1>4. /\ \A b \in Calls \ {a} : g[b] = f[b] /\ k[b] = h[b]
      /\ f[a] = MadeBy(call[a], coll) /\ g[a] = MadeBy(y, coll)
      /\ h[a] = TakenBy(call[a], coll) /\ k[a] = TakenBy(y, coll)
  BY <1>1
<1>5. Made(coll) = Under(f) /\ Taken(coll) = Under(h)
  BY DEF Made, Taken, Under
<1>6. Made(coll)' = Under(g) /\ Taken(coll)' = Under(k)
  BY DEF Made, Taken, Under
<1>7. IsFiniteSet(Under(f)) /\ IsFiniteSet(Under(h))
  BY <1>5, LedgersAreFinite
<1>8. f \in [Calls -> 0..2] /\ h \in [Calls -> 0..2]
  BY <1>2
<1> HIDE DEF f, g, h, k
<1>9. (g[a] = f[a] => Under(g) = Under(f)) /\ (k[a] = h[a] => Under(k) = Under(h))
  <2>1. ASSUME g[a] = f[a] PROVE Under(g) = Under(f)
    <3>1. \A c \in Calls : g[c] = f[c]
      BY <1>4, <2>1
    <3> QED
      BY <3>1 DEF Under
  <2>2. ASSUME k[a] = h[a] PROVE Under(k) = Under(h)
    <3>1. \A c \in Calls : k[c] = h[c]
      BY <1>4, <2>2
    <3> QED
      BY <3>1 DEF Under
  <2> QED
    BY <2>1, <2>2
<1>10. g[a] = f[a] + 1 => Cardinality(Under(g)) = Cardinality(Under(f)) + 1
  <2> SUFFICES ASSUME g[a] = f[a] + 1
               PROVE  Cardinality(Under(g)) = Cardinality(Under(f)) + 1
    OBVIOUS
  <2> DEFINE n == f[a]
  <2>1. n \in 0..1 /\ f[a] = n /\ g[a] = n + 1
    BY <1>2, <1>3
  <2> HIDE DEF n
  <2> QED
    BY <1>2, <1>4, <1>7, <2>1, OneMore
<1>11. k[a] = h[a] + 1 => Cardinality(Under(k)) = Cardinality(Under(h)) + 1
  <2> SUFFICES ASSUME k[a] = h[a] + 1
               PROVE  Cardinality(Under(k)) = Cardinality(Under(h)) + 1
    OBVIOUS
  <2> DEFINE n == h[a]
  <2>1. n \in 0..1 /\ h[a] = n /\ k[a] = n + 1
    BY <1>2, <1>3
  <2> HIDE DEF n
  <2> QED
    BY <1>2, <1>4, <1>7, <2>1, OneMore
<1>12. Cardinality(Made(coll)') = Cardinality(Under(g))
       /\ Cardinality(Taken(coll)') = Cardinality(Under(k))
  BY <1>6
<1> QED
  BY <1>4, <1>5, <1>6, <1>9, <1>10, <1>11, <1>12

\* An error that was answered stays so, and one that is answered is one more.
LEMMA ErrorsKept ==
    ASSUME Held, NEW a \in Calls, NEW y, Effect(a, y), NEW coll \in Collections
    PROVE  /\ Cardinality(Makers(coll)) <= Cardinality(Makers(coll)')
           /\ Cardinality(Takers(coll)) <= Cardinality(Takers(coll)')
           /\ UnsureMade(y, coll) =>
                 Cardinality(Makers(coll)') = Cardinality(Makers(coll)) + 1
           /\ UnsureTaken(y, coll) =>
                 Cardinality(Takers(coll)') = Cardinality(Takers(coll)) + 1
           /\ Cardinality(Makers(coll)') \in Nat /\ Cardinality(Takers(coll)') \in Nat
<1>1. call'[a] = y /\ \A b \in Calls \ {a} : call'[b] = call[b]
  BY EffectOnRows
<1>2. a \notin Makers(coll) /\ a \notin Takers(coll)
  BY DEF Effect, Makers, Takers, UnsureMade, UnsureTaken
<1>3. Makers(coll)' = Makers(coll) \cup (IF UnsureMade(y, coll) THEN {a} ELSE {})
  BY <1>1, <1>2 DEF Makers
<1>4. Takers(coll)' = Takers(coll) \cup (IF UnsureTaken(y, coll) THEN {a} ELSE {})
  BY <1>1, <1>2 DEF Takers
<1>5. ASSUME NEW S, IsFiniteSet(S), Cardinality(S) \in Nat, a \notin S
      PROVE  Cardinality(S \cup {a}) = Cardinality(S) + 1 /\ S \cup {} = S
  BY <1>5, FS_AddElement
<1>6. /\ IsFiniteSet(Makers(coll)) /\ Cardinality(Makers(coll)) \in Nat
      /\ IsFiniteSet(Takers(coll)) /\ Cardinality(Takers(coll)) \in Nat
  BY LedgersAreFinite
<1> DEFINE m == Cardinality(Makers(coll))
           t == Cardinality(Takers(coll))
<1>7. Cardinality(Makers(coll)') = IF UnsureMade(y, coll) THEN m + 1 ELSE m
  BY <1>2, <1>3, <1>5, <1>6
<1>8. Cardinality(Takers(coll)') = IF UnsureTaken(y, coll) THEN t + 1 ELSE t
  BY <1>2, <1>4, <1>5, <1>6
<1> QED
  BY <1>6, <1>7, <1>8

LEMMA AccountsInit == DefinitionsInit => Accounts
<1> SUFFICES ASSUME DefinitionsInit, NEW coll \in Collections
             PROVE  /\ Cardinality(Present(coll)) + Cardinality(Taken(coll))
                         <= Cardinality(StartRows(coll)) + Cardinality(Made(coll))
                              + Cardinality(Makers(coll))
                    /\ Cardinality(Present(coll)) + Cardinality(Taken(coll))
                              + Cardinality(Takers(coll))
                         >= Cardinality(StartRows(coll)) + Cardinality(Made(coll))
  BY DEF Accounts
<1>1. Present(coll) = StartRows(coll)
  BY DEF DefinitionsInit, Present, StartRows
<1>2. \A c \in Calls : MadeBy(call[c], coll) = 0 /\ TakenBy(call[c], coll) = 0
  BY HeldInit, IdleDidNothing DEF DefinitionsInit, IdleCall
<1>3. Made(coll) = {} /\ Taken(coll) = {}
  <2>1. \A e \in Calls \X (1..2) : e[1] \in Calls /\ ~(e[2] <= 0)
    OBVIOUS
  <2> QED
    BY <1>2, <2>1 DEF Made, Taken
<1>4. Makers(coll) = {} /\ Takers(coll) = {}
  BY DEF DefinitionsInit, IdleCall, Makers, Takers, UnsureMade, UnsureTaken
<1>5. Cardinality({}) = 0 /\ Cardinality(StartRows(coll)) \in Nat
  BY <1>1, FS_EmptySet, PresentIsFinite
<1> QED
  BY <1>1, <1>3, <1>4, <1>5

LEMMA AccountsKept == Held /\ Accounts /\ [DefinitionsNext]_definitionsVars => Accounts'
<1> SUFFICES ASSUME Held, Accounts, [DefinitionsNext]_definitionsVars PROVE Accounts'
  OBVIOUS
<1>1. CASE DefinitionsNext
  <2>0. PICK a \in Calls : \E y : Effect(a, y)
    BY <1>1, StepEffect
  <2>1. PICK y : Effect(a, y)
    BY <2>0
  <2> DEFINE x == call[a]
  <2>2. call'[a] = y /\ \A b \in Calls \ {a} : call'[b] = call[b]
    BY <2>1, EffectOnRows
  <2>3. SUFFICES ASSUME NEW coll \in Collections, ~Failed(coll)'
                 PROVE  (/\ Cardinality(Present(coll)) + Cardinality(Taken(coll))
                              <= Cardinality(StartRows(coll)) + Cardinality(Made(coll))
                                   + Cardinality(Makers(coll))
                         /\ Cardinality(Present(coll)) + Cardinality(Taken(coll))
                                   + Cardinality(Takers(coll))
                              >= Cardinality(StartRows(coll)) + Cardinality(Made(coll)))'
    BY DEF Accounts
  <2>4. /\ ~Failed(coll)
        /\ ~(y.coll = coll /\ y.answer = "partial")
    <3>1. x.answer # "partial"
      BY <2>1 DEF Effect
    <3> QED
      BY <2>2, <2>3, <3>1 DEF Failed
  <2> DEFINE p == Cardinality(Present(coll))
             q == Cardinality(Present(coll)')
             t == Cardinality(Taken(coll))
             u == Cardinality(Taken(coll)')
             m == Cardinality(Made(coll))
             n == Cardinality(Made(coll)')
             v == Cardinality(Makers(coll))
             w == Cardinality(Makers(coll)')
             e == Cardinality(Takers(coll))
             f == Cardinality(Takers(coll)')
             s == Cardinality(StartRows(coll))
  <2>5. p + t <= s + m + v /\ p + t + e >= s + m
    BY <2>4 DEF Accounts
  <2>6. StartRows(coll)' = StartRows(coll)
    BY DEF StartRows
  <2>7. /\ p \in Nat /\ t \in Nat /\ m \in Nat /\ s \in Int /\ v \in Nat /\ e \in Nat
        /\ w \in Nat /\ f \in Nat /\ v <= w /\ e <= f
    <3>1. IsFiniteSet(StartRows(coll))
      BY FS_Subset, DefinitionsAssumption DEF StartRows
    <3>2. v <= w /\ e <= f /\ w \in Nat /\ f \in Nat
      BY <2>1, ErrorsKept
    <3> QED
      BY <3>1, <3>2, FS_CardinalityType, PresentIsFinite, LedgersAreFinite
  \* A step that changes no count, or one on each side.
  <2>8. ASSUME \/ q = p /\ u = t /\ n = m
               \/ q = p + 1 /\ u = t /\ (n = m + 1 \/ (n = m /\ w = v + 1))
               \/ q = p - 1 /\ n = m /\ (u = t + 1 \/ (u = t /\ f = e + 1))
        PROVE  q + u <= s + n + w /\ q + u + f >= s + n
    <3> HIDE DEF p, q, t, u, m, n, v, w, e, f, s
    <3> QED
      BY <2>5, <2>7, <2>8
  <2>9. CASE Quiet(x, y)
    <3>1. Present(coll)' = Present(coll)
      BY <2>9 DEF Quiet, Present
    <3>2. MadeBy(y, coll) = MadeBy(x, coll) /\ TakenBy(y, coll) = TakenBy(x, coll)
      <4>1. CASE Same(x, y)
        BY <4>1 DEF Same
      <4>2. CASE y.answer = "partial" /\ y.coll = x.coll
        <5>1. x.coll # coll /\ y.coll # coll
          BY <2>4, <4>2
        <5> QED
          BY <5>1 DEF MadeBy, TakenBy
      <4> QED
        BY <2>9, <4>1, <4>2 DEF Quiet
    <3>3. Made(coll)' = Made(coll) /\ Taken(coll)' = Taken(coll)
      BY <2>1, <3>2, LedgersKept
    <3>4. q = p /\ u = t /\ n = m
      BY <3>1, <3>3
    <3> QED
      BY <2>6, <2>8, <3>4
  <2>10. ASSUME NEW k \in Collections, NEW id \in Ids, NEW d \in Documents \cup {NoDocument},
               Store(k, id, d),
               Adds(x, y, k, id, d) \/ Replaces(x, y, k, id, d) \/ Takes(x, y, k, id, d)
        PROVE  q + u <= s + n + w /\ q + u + f >= s + n
    <3>1. /\ rows'[k][id] = d
          /\ \A j \in Collections, i \in Ids : j # k \/ i # id => rows'[j][i] = rows[j][i]
      BY <2>10 DEF Store, Held
    <3>0. MadeBy(x, coll) + 0 = MadeBy(x, coll) /\ TakenBy(x, coll) + 0 = TakenBy(x, coll)
      BY CountsBounded DEF Held
    <3>2. CASE k # coll \/ Replaces(x, y, k, id, d)
      <4>1. Present(coll)' = Present(coll)
        <5>1. \A i \in Ids : rows'[coll][i] # NoDocument <=> rows[coll][i] # NoDocument
          BY <3>1, <3>2, DocumentsAreRows DEF Replaces
        <5> QED
          BY <5>1 DEF Present
      <4>2. MadeBy(y, coll) = MadeBy(x, coll) /\ TakenBy(y, coll) = TakenBy(x, coll)
        BY <2>10, <3>0, <3>2 DEF Adds, Takes, Replaces, Same
      <4>3. Made(coll)' = Made(coll) /\ Taken(coll)' = Taken(coll)
        BY <2>1, <4>2, LedgersKept
      <4>4. q = p /\ u = t /\ n = m
        BY <4>1, <4>3
      <4> QED
        BY <2>8, <4>4
    <3>3. CASE k = coll /\ Adds(x, y, k, id, d)
      <4>1. Present(coll)' = Present(coll) \cup {id} /\ id \notin Present(coll)
        <5>1. rows[coll][id] = NoDocument /\ rows'[coll][id] # NoDocument
          BY <3>1, <3>3, DocumentsAreRows DEF Adds
        <5>2. \A i \in Ids \ {id} : rows'[coll][i] = rows[coll][i]
          BY <3>1, <3>3
        <5> QED
          BY <5>1, <5>2 DEF Present
      <4>2. q = p + 1
        BY <4>1, PresentIsFinite, FS_AddElement
      <4>3. \/ MadeBy(y, coll) = MadeBy(x, coll) + 1 /\ TakenBy(y, coll) = TakenBy(x, coll)
            \/ UnsureMade(y, coll) /\ MadeBy(y, coll) = MadeBy(x, coll)
                                   /\ TakenBy(y, coll) = TakenBy(x, coll)
        BY <3>3 DEF Adds, Same
      <4>4. u = t /\ (n = m + 1 \/ (n = m /\ w = v + 1))
        <5>1. TakenBy(y, coll) = TakenBy(x, coll)
          BY <4>3
        <5>2. u = t
          BY <2>1, <5>1, LedgersKept
        <5>3. CASE MadeBy(y, coll) = MadeBy(x, coll) + 1
          <6>1. n = m + 1
            BY <2>1, <5>3, LedgersKept
          <6> QED
            BY <5>2, <6>1
        <5>4. CASE UnsureMade(y, coll) /\ MadeBy(y, coll) = MadeBy(x, coll)
          <6>1. n = m
            BY <2>1, <5>4, LedgersKept
          <6>2. w = v + 1
            BY <2>1, <5>4, ErrorsKept
          <6> QED
            BY <5>2, <6>1, <6>2
        <5> QED
          BY <4>3, <5>3, <5>4
      <4> HIDE DEF p, q, t, u, m, n, v, w, e, f, s
      <4> QED
        BY <2>8, <4>2, <4>4
    <3>4. CASE k = coll /\ Takes(x, y, k, id, d)
      <4>1. Present(coll)' = Present(coll) \ {id} /\ id \in Present(coll)
        <5>1. rows[coll][id] # NoDocument /\ rows'[coll][id] = NoDocument
          BY <3>1, <3>4 DEF Takes
        <5>2. \A i \in Ids \ {id} : rows'[coll][i] = rows[coll][i]
          BY <3>1, <3>4
        <5> QED
          BY <5>1, <5>2 DEF Present
      <4>2. q = p - 1
        BY <4>1, PresentIsFinite, FS_RemoveElement
      <4>3. \/ MadeBy(y, coll) = MadeBy(x, coll) /\ TakenBy(y, coll) = TakenBy(x, coll) + 1
            \/ UnsureTaken(y, coll) /\ MadeBy(y, coll) = MadeBy(x, coll)
                                    /\ TakenBy(y, coll) = TakenBy(x, coll)
        BY <3>4 DEF Takes, Same
      <4>4. n = m /\ (u = t + 1 \/ (u = t /\ f = e + 1))
        <5>1. MadeBy(y, coll) = MadeBy(x, coll)
          BY <4>3
        <5>2. n = m
          BY <2>1, <5>1, LedgersKept
        <5>3. CASE TakenBy(y, coll) = TakenBy(x, coll) + 1
          <6>1. u = t + 1
            BY <2>1, <5>3, LedgersKept
          <6> QED
            BY <5>2, <6>1
        <5>4. CASE UnsureTaken(y, coll) /\ TakenBy(y, coll) = TakenBy(x, coll)
          <6>1. u = t
            BY <2>1, <5>4, LedgersKept
          <6>2. f = e + 1
            BY <2>1, <5>4, ErrorsKept
          <6> QED
            BY <5>2, <6>1, <6>2
        <5> QED
          BY <4>3, <5>3, <5>4
      <4> HIDE DEF p, q, t, u, m, n, v, w, e, f, s
      <4> QED
        BY <2>8, <4>2, <4>4
    <3> QED
      BY <2>10, <3>2, <3>3, <3>4
  <2> QED
    BY <2>1, <2>6, <2>9, <2>10 DEF Effect
<1>2. CASE UNCHANGED definitionsVars
  <2>1. ASSUME NEW coll
        PROVE  /\ Present(coll)' = Present(coll) /\ Made(coll)' = Made(coll)
               /\ Taken(coll)' = Taken(coll) /\ StartRows(coll)' = StartRows(coll)
               /\ Makers(coll)' = Makers(coll) /\ Takers(coll)' = Takers(coll)
               /\ Failed(coll)' <=> Failed(coll)
    BY <1>2 DEF definitionsVars, Present, Made, Taken, Makers, Takers, StartRows, Failed
  <2> QED
    BY <2>1 DEF Accounts
<1> QED
  BY <1>1, <1>2

\* What was answered accounts for the rows that are there: beyond it only the writes that were
\* answered an error may have added a row or taken one, each at most one.
THEOREM AnswersAccountForTheRows == DefinitionsSpec => []RowsAccounted
<1>1. ASSUME Held, Accounts, NEW coll \in Collections, ~Batched(coll)
      PROVE  LET expected == Cardinality({i \in Ids : Start[coll][i] # NoDocument})
                               + Answered(coll, "created") - Answered(coll, "deleted")
             IN  Cardinality(Present(coll))
                   \in (expected - Unsure(coll, Removals))..(expected + Unsure(coll, Creations))
  <2>1. ~Failed(coll)
    BY <1>1 DEF Batched, Failed
  <2>2. \A c \in Calls :
           /\ MadeBy(call[c], coll) =
                IF call[c].coll = coll /\ call[c].answer = "created" THEN call[c].batch ELSE 0
           /\ TakenBy(call[c], coll) =
                IF call[c].coll = coll /\ call[c].answer = "deleted" THEN call[c].batch ELSE 0
    BY <1>1 DEF Batched, MadeBy, TakenBy
  <2>3. \A c \in Calls : call[c].batch \in 1..2
    BY <1>1 DEF Held, CallRecords
  <2>4. ASSUME NEW answer, NEW f,
               \A c \in Calls : f[c] =
                  IF call[c].coll = coll /\ call[c].answer = answer THEN call[c].batch ELSE 0
        PROVE  UNION {{c} \X (1..call[c].batch) :
                         c \in {d \in Calls : call[d].coll = coll /\ call[d].answer = answer}}
                 = Under(f)
    <3> DEFINE D == {d \in Calls : call[d].coll = coll /\ call[d].answer = answer}
               L == UNION {{c} \X (1..call[c].batch) : c \in D}
               R == Under(f)
    <3>0. R = {e \in Calls \X (1..2) : e[2] <= f[e[1]]}
      BY DEF Under
    <3>1. ASSUME NEW e \in L PROVE e \in R
      <4>1. PICK c \in D : e \in {c} \X (1..call[c].batch)
        OBVIOUS
      <4>2. e[1] = c /\ e[2] \in 1..call[c].batch /\ e = <<e[1], e[2]>> /\ c \in Calls
        BY <4>1
      <4>3. f[c] = call[c].batch /\ call[c].batch \in 1..2
        BY <2>3, <2>4, <4>1
      <4>4. e[2] \in 1..2 /\ e[2] <= f[c]
        BY <4>2, <4>3
      <4> QED
        BY <3>0, <4>2, <4>4
    <3>2. ASSUME NEW e \in R PROVE e \in L
      <4>1. e = <<e[1], e[2]>> /\ e[1] \in Calls /\ e[2] \in 1..2 /\ e[2] <= f[e[1]]
        BY <3>0
      <4>2. e[1] \in D /\ f[e[1]] = call[e[1]].batch
        BY <2>4, <4>1
      <4>3. e[2] \in 1..call[e[1]].batch
        BY <2>3, <4>1, <4>2
      <4> QED
        BY <4>1, <4>2, <4>3
    <3> QED
      BY <3>1, <3>2
  <2> DEFINE f == [c \in Calls |-> MadeBy(call[c], coll)]
             h == [c \in Calls |-> TakenBy(call[c], coll)]
  <2>5. Answered(coll, "created") = Cardinality(Under(f))
    <3>1. \A c \in Calls : f[c] =
             IF call[c].coll = coll /\ call[c].answer = "created" THEN call[c].batch ELSE 0
      BY <2>2
    <3> HIDE DEF f
    <3> QED
      BY <2>4, <3>1 DEF Answered
  <2>6. Answered(coll, "deleted") = Cardinality(Under(h))
    <3>1. \A c \in Calls : h[c] =
             IF call[c].coll = coll /\ call[c].answer = "deleted" THEN call[c].batch ELSE 0
      BY <2>2
    <3> HIDE DEF h
    <3> QED
      BY <2>4, <3>1 DEF Answered
  <2>7. Made(coll) = Under(f) /\ Taken(coll) = Under(h)
    BY DEF Made, Taken, Under
  <2>8. Unsure(coll, Creations) = Cardinality(Makers(coll))
        /\ Unsure(coll, Removals) = Cardinality(Takers(coll))
    BY DEF Unsure, Makers, Takers, UnsureMade, UnsureTaken
  <2> DEFINE p == Cardinality(Present(coll))
             s == Cardinality(StartRows(coll))
             made == Cardinality(Made(coll))
             gone == Cardinality(Taken(coll))
             makers == Cardinality(Makers(coll))
             takers == Cardinality(Takers(coll))
  <2>9. p + gone <= s + made + makers /\ p + gone + takers >= s + made
    BY <1>1, <2>1 DEF Accounts
  <2>10. /\ p \in Int /\ s \in Int /\ made \in Int /\ gone \in Int
         /\ makers \in Int /\ takers \in Int
    <3>1. IsFiniteSet(StartRows(coll))
      BY FS_Subset, DefinitionsAssumption DEF StartRows
    <3> QED
      BY <3>1, FS_CardinalityType, PresentIsFinite, LedgersAreFinite
  <2>11. /\ Answered(coll, "created") = made /\ Answered(coll, "deleted") = gone
         /\ Unsure(coll, Creations) = makers /\ Unsure(coll, Removals) = takers
         /\ Cardinality({i \in Ids : Start[coll][i] # NoDocument}) = s
    BY <2>5, <2>6, <2>7, <2>8, Zenon DEF StartRows
  <2> HIDE DEF p, s, made, gone, makers, takers
  <2>12. ASSUME NEW A, NEW B, NEW C, NEW D, NEW E, A = made, B = gone, C = makers, D = takers, E = s
         PROVE  p \in ((E + A - B) - D)..((E + A - B) + C)
    BY <2>9, <2>10, <2>12
  <2> QED
    BY <2>11, <2>12, Zenon DEF p
<1>2. Held /\ Accounts => RowsAccounted
  BY <1>1 DEF RowsAccounted
<1> QED
  BY <1>2, HeldInit, HeldKept, AccountsInit, AccountsKept, PTL DEF DefinitionsSpec

-----------------------------------------------------------------------------
(* The definitions: a walk over rows that nobody writes *)

\* What a walk has seen, as long as nobody has written since it began and the rows differ in the
\* field it sorts by: the first rows of their order, as many as the pages it asked for have.
Seen(x) ==
    LET l == x.list
        n == Cardinality(Present(x.coll))
        orders == Sorted(x.coll, Present(x.coll), l.sortBy, l.desc)
    IN  /\ x.pc \in {"count", "find"} =>
             /\ Len(l.seen) = Skip(l.page, l.size) /\ Len(l.seen) <= n
             /\ \A order \in orders : \A k \in 1..Len(l.seen) : l.seen[k] = order[k]
        /\ x.pc = "find" => l.total = n
        /\ x.pc = "done" =>
             /\ Len(l.seen) = n
             /\ \E order \in orders : \A k \in 1..n : l.seen[k] = order[k]

Walked ==
    \A c \in Calls : call[c].list # <<>> =>
        /\ call[c].list.from <= version[call[c].coll]
        /\ call[c].list.from = version[call[c].coll] /\ Ordered(call[c].coll, call[c].list.sortBy)
             => Seen(call[c])

\* What is said of a collection depends on its rows alone.
LEMMA SameRows ==
    ASSUME NEW coll, rows'[coll] = rows[coll]
    PROVE  /\ Present(coll)' = Present(coll)
           /\ \A sortBy : Ordered(coll, sortBy)' <=> Ordered(coll, sortBy)
           /\ \A sortBy, desc : Sorted(coll, Present(coll), sortBy, desc)'
                                  = Sorted(coll, Present(coll), sortBy, desc)
<1>1. Present(coll)' = Present(coll)
  BY DEF Present
<1>2. \A i, path : Field(coll, i, path)' = Field(coll, i, path)
  BY DEF Field
<1>3. \A sortBy : Ordered(coll, sortBy)' <=> Ordered(coll, sortBy)
  BY <1>1, <1>2 DEF Ordered
<1>4. \A sortBy, desc : Sorted(coll, Present(coll), sortBy, desc)'
                          = Sorted(coll, Present(coll), sortBy, desc)
  BY <1>1, <1>2 DEF Sorted
<1> QED
  BY <1>1, <1>3, <1>4

LEMMA WalkedInit == DefinitionsInit => Walked
BY DEF DefinitionsInit, Walked, IdleCall

\* The walk of a call of which nothing changes but perhaps the rows.
LEMMA OtherWalks ==
    ASSUME Held, Walked, NEW a \in Calls, NEW y, Effect(a, y), NEW c \in Calls \ {a},
           call'[c].list # <<>>
    PROVE  /\ call'[c].list.from <= version'[call'[c].coll]
           /\ (call[c].list.from = version[call[c].coll] /\ Ordered(call[c].coll, call[c].list.sortBy))'
                => Seen(call[c])'
<1> DEFINE x == call[c]
           coll == x.coll
<1>1. call'[c] = call[c]
  BY EffectOnRows
<1>2. x \in CallRecords /\ x.list \in Walks /\ coll \in Collections
  BY <1>1 DEF Held, CallRecords
<1>3. x.list.from \in Nat /\ version[coll] \in Nat
  BY <1>2 DEF Walks, Held
<1>4. /\ x.list.from <= version[coll]
      /\ x.list.from = version[coll] /\ Ordered(coll, x.list.sortBy) => Seen(x)
  BY <1>1 DEF Walked
<1>5. CASE version'[coll] = version[coll] + 1
  <2>1. x.list.from <= version'[coll] /\ x.list.from # version'[coll]
    BY <1>3, <1>4, <1>5
  <2> QED
    BY <1>1, <2>1
<1>6. CASE rows'[coll] = rows[coll] /\ version'[coll] = version[coll]
  <2>1. /\ Present(coll)' = Present(coll)
        /\ \A sortBy : Ordered(coll, sortBy)' <=> Ordered(coll, sortBy)
        /\ \A sortBy, desc : Sorted(coll, Present(coll), sortBy, desc)'
                               = Sorted(coll, Present(coll), sortBy, desc)
    <3>1. \A k : rows'[k] = rows[k] =>
             /\ Present(k)' = Present(k)
             /\ \A sortBy : Ordered(k, sortBy)' <=> Ordered(k, sortBy)
             /\ \A sortBy, desc : Sorted(k, Present(k), sortBy, desc)'
                                    = Sorted(k, Present(k), sortBy, desc)
      BY SameRows
    <3>2. (call[c].coll)' = call[c].coll
      BY <1>1
    <3> QED
      BY <1>6, <3>1, <3>2
  <2> QED
    BY <1>1, <1>4, <1>6, <2>1 DEF Seen
<1>7. \/ version'[coll] = version[coll] + 1
      \/ rows'[coll] = rows[coll] /\ version'[coll] = version[coll]
  BY <1>2, EffectOnRows
<1> QED
  BY <1>5, <1>6, <1>7

LEMMA WalksAreRecords == ASSUME NEW l \in Walks PROVE l # <<>>
<1>1. "page" \in DOMAIN l
  BY DEF Walks
<1>2. DOMAIN <<>> = {}
  OBVIOUS
<1> QED
  BY <1>1, <1>2

\* The walk of a call that takes a step.
LEMMA OwnWalk ==
    ASSUME Held, Walked, NEW a \in Calls, NEW y, Effect(a, y), y.list # <<>>
    PROVE  /\ UNCHANGED <<rows, version>>
           /\ y.list.from <= version[y.coll]
           /\ y.list.from = version[y.coll] /\ Ordered(y.coll, y.list.sortBy) => Seen(y)
<1> DEFINE x == call[a]
           coll == x.coll
           l == x.list
           n == Cardinality(Present(coll))
<1>0. call'[a] = y /\ y \in CallRecords /\ y.list \in Walks
  BY EffectOnRows DEF Effect, CallRecords
<1>1. CASE Count(a)
  <2>1. /\ x.pc = "count" /\ y.pc = "find" /\ y.coll = coll
        /\ y.list.total = n /\ y.list.seen = l.seen
        /\ y.list.page = l.page /\ y.list.size = l.size
        /\ y.list.from = l.from /\ y.list.sortBy = l.sortBy
        /\ y.list.desc = l.desc
    <3>1. PICK z \in CallRecords :
            /\ call' = [call EXCEPT ![a] = z]
            /\ x.pc = "count" /\ z.pc = "find" /\ z.coll = coll
            /\ z.list.total = n /\ z.list.seen = l.seen
            /\ z.list.page = l.page /\ z.list.size = l.size
            /\ z.list.from = l.from /\ z.list.sortBy = l.sortBy
            /\ z.list.desc = l.desc
      BY <1>1, CountSteps
    <3>2. z = y
      BY <1>0, <3>1 DEF Held
    <3> QED
      BY <3>1, <3>2
  <2>2. l # <<>> /\ l.page \in Nat \ {0}
    <3>1. l \in Walks
      BY <2>1, WalkFields
    <3>2. l.page \in Nat \ {0}
      BY <3>1 DEF Walks
    <3>3. l # <<>>
      BY <3>1, WalksAreRecords
    <3> QED
      BY <3>2, <3>3
  <2>3. /\ l.from <= version[coll]
        /\ l.from = version[coll] /\ Ordered(coll, l.sortBy) => Seen(x)
    BY <2>2 DEF Walked
  <2>4. UNCHANGED <<rows, version>>
    BY <1>1 DEF Count, Unchanged
  <2>5. Seen(x) => Seen(y)
    BY <2>1 DEF Seen
  <2> QED
    BY <2>1, <2>3, <2>4, <2>5
<1>2. CASE Find(a)
  <2>1. PICK order \in Sorted(coll, Present(coll), l.sortBy, l.desc) :
          /\ x.pc = "find" /\ y.coll = coll
          /\ y.pc = IF l.page < TotalPages(l.total, l.size) THEN "count" ELSE "done"
          /\ y.list.seen = l.seen \o Page(order, l.page, l.size)
          /\ y.list.page = l.page + 1 /\ y.list.size = l.size
          /\ y.list.from = l.from /\ y.list.sortBy = l.sortBy /\ y.list.desc = l.desc
    <3>1. PICK z \in CallRecords :
            \E order \in Sorted(coll, Present(coll), l.sortBy, l.desc) :
              /\ call' = [call EXCEPT ![a] = z]
              /\ x.pc = "find" /\ z.coll = coll
              /\ z.pc = IF l.page < TotalPages(l.total, l.size) THEN "count" ELSE "done"
              /\ z.list.seen = l.seen \o Page(order, l.page, l.size)
              /\ z.list.page = l.page + 1 /\ z.list.size = l.size
              /\ z.list.from = l.from /\ z.list.sortBy = l.sortBy /\ z.list.desc = l.desc
      BY <1>2, FindSteps, ZenonT(60)
    <3>2. z = y
      BY <1>0, <3>1 DEF Held
    <3> QED
      BY <3>1, <3>2
  <2>2. /\ l \in Walks /\ l.page \in Nat \ {0} /\ l.total \in Nat /\ l.seen \in Seq(Ids)
        /\ l.size \in Sizes
    BY <2>1, WalkFields
  <2>3. l # <<>>
    BY <2>2, WalksAreRecords
  <2>4. /\ l.from <= version[coll]
        /\ l.from = version[coll] /\ Ordered(coll, l.sortBy) => Seen(x)
    BY <2>3 DEF Walked
  <2>5. UNCHANGED <<rows, version>>
    BY <1>2 DEF Find, Unchanged
  <2>6. ASSUME Seen(x), Ordered(coll, l.sortBy)
        PROVE  Seen(y)
    <3> DEFINE p == Page(order, l.page, l.size)
               a0 == Skip(l.page, l.size)
               b0 == Skip(l.page + 1, l.size)
               seen == l.seen \o p
    <3>1. Len(l.seen) = a0 /\ a0 <= n /\ l.total = n
          /\ \A k \in 1..Len(l.seen) : l.seen[k] = order[k]
      BY <2>1, <2>6 DEF Seen
    <3>2. coll \in Collections
      BY DEF Held, CallRecords
    <3>3. order \in Seq(Ids) /\ Len(order) = n /\ n \in Nat
      BY OrderFields, PresentIsFinite
    <3>4. /\ p \in Seq(Ids)
          /\ a0 + Len(p) = IF b0 < n THEN b0 ELSE n
          /\ \A k \in 1..Len(p) : p[k] = order[a0 + k]
      BY <2>2, <3>1, <3>3, PageFields
    <3>5. /\ seen \in Seq(Ids) /\ Len(seen) = Len(l.seen) + Len(p)
          /\ \A k \in 1..Len(l.seen) + Len(p) :
                seen[k] = IF k <= Len(l.seen) THEN l.seen[k] ELSE p[k - Len(l.seen)]
      <4> HIDE DEF p
      <4> QED
        BY <2>2, <3>4, ConcatProperties
    <3>6. l.page < TotalPages(l.total, l.size) <=> b0 < n
      BY <2>2, <3>1, HasNextPage
    <3>7. \A other \in Sorted(coll, Present(coll), l.sortBy, l.desc) : other = order
      BY <2>6, <3>2, OrderIsUnique
    <3> DEFINE m == Len(p)
    <3>8. a0 \in Nat /\ m \in Nat /\ b0 \in Nat
      <4>1. a0 \in Nat /\ b0 = a0 + PageSize(l.size) /\ PageSize(l.size) \in Nat
        BY <2>2, PageSizes
      <4>2. m \in Nat
        <5> HIDE DEF p
        <5> QED
          BY <3>4
      <4> HIDE DEF a0, b0, m
      <4> QED
        BY <4>1, <4>2
    <3>9. \A k \in 1..Len(seen) : seen[k] = order[k]
      <4> SUFFICES ASSUME NEW k \in 1..Len(seen) PROVE seen[k] = order[k]
        OBVIOUS
      <4> HIDE DEF p, seen, a0, l, n
      <4>1. k \in 1..(a0 + m)
        BY <3>1, <3>5
      <4>2. CASE k <= a0
        BY <3>1, <3>5, <3>8, <4>1, <4>2
      <4>3. CASE k > a0
        <5>1. k - a0 \in 1..m /\ a0 + (k - a0) = k
          BY <3>8, <4>1, <4>3
        <5>2. seen[k] = p[k - a0]
          BY <3>1, <3>5, <3>8, <4>1, <4>3
        <5> QED
          BY <3>4, <5>1, <5>2
      <4> QED
        BY <3>8, <4>1, <4>2, <4>3
    <3>10. CASE b0 < n
      <4>1. y.pc = "count" /\ Len(seen) = b0
        BY <2>1, <3>1, <3>4, <3>5, <3>6, <3>10
      <4>2. \A other \in Sorted(coll, Present(coll), l.sortBy, l.desc) :
               \A k \in 1..Len(seen) : seen[k] = other[k]
        BY <3>7, <3>9
      <4>3. y.list.seen = seen /\ Skip(y.list.page, y.list.size) = b0
        BY <2>1
      <4>4. b0 <= n
        BY <3>3, <3>8, <3>10
      <4> HIDE DEF seen, n, b0, coll, l
      <4> QED
        BY <2>1, <4>1, <4>2, <4>3, <4>4 DEF Seen, n
    <3>11. CASE ~(b0 < n)
      <4>1. y.pc = "done" /\ Len(seen) = n
        BY <2>1, <3>1, <3>4, <3>5, <3>6, <3>11
      <4>2. y.list.seen = seen
        BY <2>1
      <4> HIDE DEF seen, n, coll, l
      <4> QED
        BY <2>1, <3>9, <4>1, <4>2 DEF Seen, n
    <3> QED
      BY <3>10, <3>11
  <2> QED
    BY <2>1, <2>4, <2>5, <2>6
<1>3. CASE ~Count(a) /\ ~Find(a)
  <2>1. y.pc = "count" /\ FirstPage(y) /\ UNCHANGED <<rows, version>>
    <3>1. y.pc = "count" /\ FirstPage(y)
      BY <1>3 DEF Effect
    <3>2. y.pc # "done" /\ y.answer = "none" /\ y.pc # "insert" /\ y.pc # "sweep"
      BY <3>1 DEF Effect, InHand
    <3>3. \A k \in Collections : MadeBy(y, k) = 0 /\ TakenBy(y, k) = 0
      BY <3>2 DEF MadeBy, TakenBy
    <3>4. ~ \E k \in Collections, id \in Ids, d \in Documents \cup {NoDocument} :
               Adds(x, y, k, id, d) \/ Replaces(x, y, k, id, d) \/ Takes(x, y, k, id, d)
      <4>1. \A k \in Collections : MadeBy(x, k) \in Nat /\ MadeBy(x, k) + 1 # 0
        BY CountsBounded DEF Held
      <4> QED
        BY <3>2, <3>3, <4>1 DEF Adds, Replaces, Takes, Deletes, UnsureMade
    <3> QED
      BY <3>1, <3>4 DEF Effect, Quiet
  <2>2. y.list.from = version[y.coll] /\ y.list.seen = <<>> /\ y.list.page = 1
    BY <2>1 DEF FirstPage
  <2>3. y.coll \in Collections /\ version[y.coll] \in Nat
    BY <1>0 DEF CallRecords, Held
  <2>4. y.list.size \in Sizes
    BY <1>0 DEF Walks
  <2>5. Skip(y.list.page, y.list.size) = 0
    <3>1. 1 \in Nat \ {0}
      OBVIOUS
    <3>2. Skip(1, y.list.size) = 0
      BY <2>4, <3>1, PageSizes
    <3> QED
      BY <2>2, <3>2
  <2>6. Cardinality(Present(y.coll)) \in Nat
    BY PresentIsFinite
  <2>7. Len(y.list.seen) = 0
    BY <2>2
  <2>8. Seen(y)
    BY <2>1, <2>5, <2>6, <2>7 DEF Seen
  <2> QED
    BY <2>1, <2>2, <2>3, <2>8
<1> QED
  BY <1>1, <1>2, <1>3

LEMMA WalkedKept == Held /\ Walked /\ [DefinitionsNext]_definitionsVars => Walked'
<1> SUFFICES ASSUME Held, Walked, [DefinitionsNext]_definitionsVars PROVE Walked'
  OBVIOUS
<1>1. CASE DefinitionsNext
  <2>0. PICK a \in Calls : \E y : Effect(a, y)
    BY <1>1, StepEffect
  <2>1. PICK y : Effect(a, y)
    BY <2>0
  <2>2. SUFFICES ASSUME NEW c \in Calls, call'[c].list # <<>>
                 PROVE  /\ call'[c].list.from <= version'[call'[c].coll]
                        /\ (call[c].list.from = version[call[c].coll]
                              /\ Ordered(call[c].coll, call[c].list.sortBy))' => Seen(call[c])'
    BY DEF Walked
  <2>3. CASE c # a
    BY <2>1, <2>2, <2>3, OtherWalks
  <2>4. CASE c = a
    <3>1. call'[a] = y
      BY <2>1, EffectOnRows
    <3>2. /\ UNCHANGED <<rows, version>>
          /\ y.list.from <= version[y.coll]
          /\ y.list.from = version[y.coll] /\ Ordered(y.coll, y.list.sortBy) => Seen(y)
      BY <2>1, <2>2, <2>4, <3>1, OwnWalk
    <3>3. Ordered(call[c].coll, call[c].list.sortBy)' <=> Ordered(y.coll, y.list.sortBy)
      BY <2>4, <3>1, <3>2 DEF Ordered, Present, Field
    <3>4. Seen(call[c])' <=> Seen(y)
      BY <2>4, <3>1, <3>2 DEF Seen, Present, Sorted, Field
    <3> QED
      BY <2>4, <3>1, <3>2, <3>3, <3>4
  <2> QED
    BY <2>3, <2>4
<1>2. CASE UNCHANGED definitionsVars
  <2>1. UNCHANGED <<rows, version, call>>
    BY <1>2 DEF definitionsVars
  <2>2. ASSUME NEW c \in Calls
        PROVE  /\ Ordered(call[c].coll, call[c].list.sortBy)'
                    <=> Ordered(call[c].coll, call[c].list.sortBy)
               /\ Seen(call[c])' <=> Seen(call[c])
    <3>1. Ordered(call[c].coll, call[c].list.sortBy)'
             <=> Ordered(call[c].coll, call[c].list.sortBy)
      BY <2>1 DEF Ordered, Present, Field
    <3>2. Seen(call[c])' <=> Seen(call[c])
      BY <2>1 DEF Seen, Present, Sorted, Field
    <3> QED
      BY <3>1, <3>2
  <2> QED
    BY <2>1, <2>2 DEF Walked
<1> QED
  BY <1>1, <1>2

\* A client that walks the pages while nobody writes sees every row, and none twice.
THEOREM WalksSeeEveryRow == DefinitionsSpec => []WalkIsComplete
<1>1. ASSUME Held, Walked, NEW c \in Calls, call[c].list # <<>>, call[c].pc = "done",
             call[c].list.from = version[call[c].coll],
             Ordered(call[c].coll, call[c].list.sortBy)
      PROVE  IsInjective(call[c].list.seen) /\ Range(call[c].list.seen) = Present(call[c].coll)
  <2> DEFINE x == call[c]
             coll == x.coll
             S == Present(coll)
             n == Cardinality(S)
             seen == x.list.seen
  <2>1. Seen(x)
    BY <1>1 DEF Walked
  <2>2. PICK order \in Sorted(coll, S, x.list.sortBy, x.list.desc) :
           \A k \in 1..n : seen[k] = order[k]
    BY <1>1, <2>1 DEF Seen
  <2>3. /\ order \in [1..n -> S]
        /\ \A i, j \in 1..n : order[i] = order[j] => i = j
        /\ \A id \in S : \E i \in 1..n : order[i] = id
    BY OrderFields
  <2>4. DOMAIN seen = 1..n
    <3>1. seen \in Seq(Ids)
      <4>1. x.list \in Walks
        BY <1>1 DEF Held, CallRecords
      <4> QED
        BY <4>1 DEF Walks
    <3>2. Len(seen) = n
      BY <1>1, <2>1 DEF Seen
    <3> HIDE DEF seen, n
    <3> QED
      BY <3>1, <3>2, LenProperties
  <2> HIDE DEF seen, S, n
  <2>5. IsInjective(seen)
    BY <2>2, <2>3, <2>4 DEF IsInjective
  <2>6. Range(seen) = S
    BY <2>2, <2>3, <2>4 DEF Range
  <2> QED
    BY <2>5, <2>6 DEF seen, S
<1>2. Held /\ Walked => WalkIsComplete
  BY <1>1 DEF WalkIsComplete
<1> QED
  BY <1>2, HeldInit, HeldKept, WalkedInit, WalkedKept, PTL DEF DefinitionsSpec
=============================================================================
