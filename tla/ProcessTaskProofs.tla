------------------------- MODULE ProcessTaskProofs -------------------------
(***************************************************************************)
(* What TLAPS proves of one run of processTask, for every capacity of      *)
(* OutputChan above 3 and any number of lines: to the rest of the manager  *)
(* it is a TaskLifecycle, it leaves no container behind but in the two     *)
(* cases named, and the outcome it stores is the one the process had.      *)
(***************************************************************************)
EXTENDS ProcessTask, SequenceTheorems, TLAPS

TaskRecords == [pc : Locations, sending : {None, "note", "final"},
                hand : {None, "note", "final"}, state : HealthStatus,
                changed : HealthStatus \cup {None}, registered : BOOLEAN, slotHeld : BOOLEAN]
RunRecords == [stream : {"off", "setup", "running", "exited", "closed", "over"},
               err : {None, "nil", "err"}, exit : {None, "ok", "fail"}, wrong : BOOLEAN,
               lines : 0..MaxLines]
WorkerRecords == [type : {"docker", "kubernetes"}, container : BOOLEAN, connected : BOOLEAN,
                  stopFailed : BOOLEAN]
ClientRecords == [cancelled : BOOLEAN, reading : BOOLEAN, adding : BOOLEAN, told : BOOLEAN,
                  took : BOOLEAN]

-----------------------------------------------------------------------------
(* Types *)

\* The messages of a channel of known type, after a receive and after a send.
LEMMA ChannelEffect ==
    ASSUME NEW q \in Seq(Messages)
    PROVE  /\ q # <<>> => /\ Head(q) \in Messages /\ Head(q) = q[1] /\ Tail(q) \in Seq(Messages)
                          /\ Len(q) \in Nat \ {0} /\ Len(Tail(q)) = Len(q) - 1
                          /\ \A i \in 1..Len(Tail(q)) : Tail(q)[i] = q[i + 1]
           /\ \A m \in Messages :
                 /\ Append(q, m) \in Seq(Messages) /\ Len(Append(q, m)) = Len(q) + 1
                 /\ Append(q, m)[Len(q) + 1] = m
                 /\ \A i \in 1..Len(q) : Append(q, m)[i] = q[i]
BY HeadTailProperties, AppendProperties

\* What SetState answers for a status of the task's type.
LEMMA SetStateEffect ==
    ASSUME NEW from \in HealthStatus, NEW to \in HealthStatus, NEW fails \in BOOLEAN
    PROVE  /\ SetState(from, to, fails).state \in {from, to}
           /\ SetState(from, to, fails).ok \in BOOLEAN
           /\ SetState(from, to, fails).changed \in BOOLEAN
           /\ SetState(from, to, fails).stopped \in BOOLEAN
BY DEF SetState

\* A task that has set its state is otherwise as it was.
LEMMA AfterSetStateEffect ==
    ASSUME task \in TaskRecords, NEW to \in HealthStatus, NEW fails \in BOOLEAN
    PROVE  /\ AfterSetState(to, fails) \in TaskRecords
           /\ AfterSetState(to, fails).pc = task.pc
           /\ AfterSetState(to, fails).sending = task.sending
           /\ AfterSetState(to, fails).hand = task.hand
           /\ AfterSetState(to, fails).registered = task.registered
           /\ AfterSetState(to, fails).slotHeld = task.slotHeld
           /\ AfterSetState(to, fails).state = SetState(task.state, to, fails).state
<1> DEFINE set == SetState(task.state, to, fails)
<1>1. set.state \in HealthStatus /\ set.changed \in BOOLEAN
  <2>1. task.state \in HealthStatus
    BY DEF TaskRecords
  <2>2. set.state \in {task.state, to} /\ set.changed \in BOOLEAN
    BY <2>1, SetStateEffect
  <2> QED
    BY <2>1, <2>2
<1>2. AfterSetState(to, fails) = [task EXCEPT !.state = set.state,
                                    !.changed = IF set.changed THEN to ELSE task.changed]
  BY DEF AfterSetState
<1> HIDE DEF set
<1> QED
  BY <1>1, <1>2 DEF TaskRecords, set

\* Stopping a worker leaves a worker.
LEMMA WorkerStopEffect ==
    ASSUME worker \in WorkerRecords, NEW fails \in BOOLEAN
    PROVE  /\ WorkerStop(fails) \in WorkerRecords
           /\ WorkerStop(fails).container /\ WorkerStop(fails).connected
                => WorkerStop(fails).stopFailed
BY DEF WorkerStop, StopWithoutClient, CleanupExistingContainer, WorkerRecords

\* A message in hand is one.
TaskGood == task \in TaskRecords /\ (task.pc = "resend" => task.hand # None)

\* The types, in the form the proofs use.
Types ==
    /\ TaskGood
    /\ out \in Seq(Messages) /\ Len(out) <= OutputCap
    /\ run \in RunRecords
    /\ worker \in WorkerRecords
    /\ client \in ClientRecords
    /\ db \in ManagerTaskState \cup {"Pending"}

\* The steps of processTask after which only the task itself is another.
TaskAlone ==
    \/ CreateFails \/ Create \/ Prepare \/ LoopStateChanged \/ LoopTimeout \/ LoopCancelled
    \/ Confirm \/ Unregister \/ ReleaseSlot

\* Every step keeps the types.
LEMMA TypesAreInductive == Types /\ [Next]_vars => Types'
<1> SUFFICES ASSUME Types, [Next]_vars PROVE Types'
  OBVIOUS
<1> USE OutputCapAssumption, MaxLinesAssumption
<1>0. /\ task \in TaskRecords /\ out \in Seq(Messages) /\ Len(out) <= OutputCap
      /\ run \in RunRecords /\ worker \in WorkerRecords /\ client \in ClientRecords
      /\ db \in ManagerTaskState \cup {"Pending"}
      /\ task.pc = "resend" => task.hand # None
  BY DEF Types, TaskGood
<1>1. \A m \in Messages : Len(out) < OutputCap
        => Append(out, m) \in Seq(Messages) /\ Len(Append(out, m)) <= OutputCap
  BY <1>0, ChannelEffect
<1>2. out # <<>> => Tail(out) \in Seq(Messages) /\ Len(Tail(out)) <= OutputCap
                      /\ Head(out) \in Messages
  BY <1>0, ChannelEffect
<1>3. \A to \in HealthStatus : \A fails \in BOOLEAN : AfterSetState(to, fails) \in TaskRecords
  BY <1>0, AfterSetStateEffect
<1>4. {"RUNNING", "ERROR", "STOPPED", "FINISHED"} \subseteq HealthStatus
  BY DEF HealthStatus
<1>5. CASE FlushSend
  <2>1. task.sending \in Messages
    BY <1>0, <1>5 DEF FlushSend, TaskRecords, None, Messages
  <2>2. TaskGood'
    BY <1>0, <1>5 DEF FlushSend, TaskRecords, None, TaskGood
  <2> QED
    BY <1>0, <1>1, <1>5, <2>1, <2>2 DEF FlushSend, Types
<1>6. CASE TaskAlone
  <2>1. TaskGood'
    <3>1. CASE Prepare \/ LoopTimeout \/ LoopCancelled
      <4>1. PICK to \in HealthStatus :
               \/ task' = [AfterSetState(to, FALSE) EXCEPT !.pc = "start"]
               \/ task' = [AfterSetState(to, FALSE) EXCEPT !.pc = "confirm", !.sending = "final"]
        BY <1>4, <3>1 DEF Prepare, LoopTimeout, LoopCancelled
      <4>2. AfterSetState(to, FALSE) \in TaskRecords
        BY <1>3
      <4> QED
        BY <4>1, <4>2 DEF TaskRecords, Locations, TaskGood
    <3>2. CASE CreateFails \/ Create \/ LoopStateChanged \/ Confirm \/ Unregister \/ ReleaseSlot
      BY <1>0, <3>2 DEF CreateFails, Create, LoopStateChanged, Confirm, Unregister, ReleaseSlot,
             TaskRecords, Locations, None, TaskGood
    <3> QED
      BY <1>6, <3>1, <3>2 DEF TaskAlone
  <2>2. UNCHANGED <<out, run, worker, client, db>>
    BY <1>6 DEF TaskAlone, CreateFails, Create, Prepare, LoopStateChanged, LoopTimeout,
           LoopCancelled, Confirm, Unregister, ReleaseSlot
  <2> QED
    BY <1>0, <2>1, <2>2 DEF Types
<1>7. CASE StartFails \/ Start \/ SpawnRun \/ StopWorker
  <2>1. AfterSetState("ERROR", FALSE) \in TaskRecords
    BY <1>3, <1>4
  <2>2. TaskGood'
    <3>1. CASE StartFails
      <4>1. task' = [AfterSetState("ERROR", FALSE) EXCEPT !.pc = "stop", !.sending = "final"]
        BY <3>1 DEF StartFails
      <4> QED
        BY <2>1, <4>1 DEF TaskRecords, Locations, TaskGood
    <3>2. CASE Start \/ SpawnRun \/ StopWorker
      BY <1>0, <3>2 DEF Start, SpawnRun, StopWorker, TaskRecords, Locations, TaskGood
    <3> QED
      BY <1>7, <3>1, <3>2
  <2>3. worker' \in WorkerRecords
    <3>1. \A fails \in BOOLEAN : WorkerStop(fails) \in WorkerRecords
      BY <1>0, WorkerStopEffect
    <3> QED
      BY ZenonT(60), <1>0, <1>7, <3>1 DEF StartFails, Start, SpawnRun, StopWorker, WorkerRecords
  <2>4. run' \in RunRecords
    BY <1>0, <1>7 DEF StartFails, Start, SpawnRun, StopWorker, RunRecords
  <2> QED
    BY <1>0, <1>7, <2>2, <2>3, <2>4 DEF StartFails, Start, SpawnRun, StopWorker, Types
<1>8. CASE LoopRunDone
  <2>1. AfterSetState("ERROR", FALSE) \in TaskRecords
    BY <1>3, <1>4
  <2>2. run.err \in {None, "nil", "err"}
    BY <1>0 DEF RunRecords
  <2>3. \/ task' = [AfterSetState("ERROR", FALSE) EXCEPT !.pc = "confirm", !.sending = "final"]
        \/ task' = task \/ task' = [task EXCEPT !.pc = "runErr"]
    BY <1>8, <2>2 DEF LoopRunDone, None
  <2>4. TaskGood'
    BY <1>0, <2>1, <2>3 DEF TaskRecords, Locations, TaskGood
  <2>5. run' \in RunRecords
    BY <1>0, <1>8 DEF LoopRunDone, RunRecords
  <2> QED
    BY <1>0, <1>8, <2>4, <2>5 DEF LoopRunDone, Types
<1>9. CASE LoopHealth
  <2>1. PICK fails \in BOOLEAN :
          LET status == Head(out)
              set == SetState(task.state, status, fails)
          IN  /\ worker' = IF set.stopped THEN WorkerStop(fails) ELSE worker
              /\ IF ~set.ok
                 THEN task' = task /\ db' = db
                 ELSE /\ Store(ConvertHealth(status))
                      /\ task' = [AfterSetState(status, fails) EXCEPT
                                    !.sending = Announcement(status),
                                    !.pc = IF Completes(status) THEN "confirm" ELSE "loop"]
    BY <1>9 DEF LoopHealth
  <2>2. Head(out) \in RemoteHealth /\ Head(out) \in HealthStatus
    BY <1>9 DEF LoopHealth, RemoteHealth, HealthStatus
  <2>3. AfterSetState(Head(out), fails) \in TaskRecords
    BY <1>3, <2>2
  <2>4. Announcement(Head(out)) \in {None, "note", "final"}
    BY <2>2 DEF Announcement, FinalHealth, RemoteHealth
  <2>5. TaskGood'
    <3>1. ASSUME NEW pc \in {"confirm", "loop"}, NEW m \in {None, "note", "final"}
          PROVE  /\ [AfterSetState(Head(out), fails) EXCEPT !.sending = m, !.pc = pc] \in TaskRecords
                 /\ [AfterSetState(Head(out), fails) EXCEPT !.sending = m, !.pc = pc].pc = pc
      <4> DEFINE t == AfterSetState(Head(out), fails)
      <4>1. t \in TaskRecords
        BY <2>3
      <4> HIDE DEF t
      <4>2. /\ [t EXCEPT !.sending = m, !.pc = pc] \in TaskRecords
            /\ [t EXCEPT !.sending = m, !.pc = pc].pc = pc
        BY <4>1 DEF TaskRecords, Locations
      <4> QED
        BY <4>2 DEF t
    <3> QED
      BY ZenonT(60), <1>0, <2>1, <2>4, <3>1 DEF TaskGood
  <2>6. worker' \in WorkerRecords
    BY <1>0, <2>1, WorkerStopEffect
  <2>7. db' \in ManagerTaskState \cup {"Pending"}
    <3>1. ConvertHealth(Head(out)) \in ManagerTaskState
      BY <2>2 DEF ConvertHealth, ManagerTaskState, RemoteHealth
    <3> QED
      BY <1>0, <2>1, <3>1 DEF Store
  <2> QED
    BY <1>0, <1>2, <1>9, <2>5, <2>6, <2>7 DEF LoopHealth, Types
<1>10. CASE LoopNote \/ Resend
  <2>1. LoopNote => Head(out) \in {"note", "final"}
    BY <1>2 DEF LoopNote, RemoteHealth, Messages
  <2>2. TaskGood'
    BY <1>0, <1>10, <2>1 DEF LoopNote, Resend, TaskRecords, Locations, None, TaskGood
  <2>3. out' \in Seq(Messages) /\ Len(out') <= OutputCap
    <3>1. CASE LoopNote
      BY <1>2, <3>1 DEF LoopNote
    <3>2. CASE Resend
      <4>1. task.hand \in Messages \/ out' = out
        BY <1>0, <3>2 DEF Resend, At, TaskRecords, Messages, None
      <4> QED
        BY <1>0, <1>1, <3>2, <4>1 DEF Resend
    <3> QED
      BY <1>10, <3>1, <3>2
  <2> QED
    BY <1>0, <1>10, <2>2, <2>3 DEF LoopNote, Resend, Types
<1>11. CASE RunNext
  <2>1. /\ run' \in RunRecords
        /\ \/ out' = out
           \/ Len(out) < OutputCap /\ \E m \in Messages : out' = Append(out, m)
    <3>1. CASE RunStarted \/ RunLast
      BY <1>0, <3>1 DEF RunStarted, RunLast, Forward, RunRecords, Messages, RemoteHealth
    <3>2. CASE RunLine
      BY <1>0, <3>2 DEF RunLine, Forward, RunRecords, Messages
    <3>3. CASE RunExit
      BY <1>0, <3>3 DEF RunExit, Forward, RunRecords, Messages, RemoteHealth
    <3>4. CASE RunReturnsNil \/ RunReturnsError
      <4>1. out' = out
        BY <3>4 DEF RunReturnsNil, RunReturnsError
      <4>2. run' \in RunRecords
        BY <1>0, <3>4 DEF RunReturnsNil, RunReturnsError, RunRecords
      <4> QED
        BY <4>1, <4>2
    <3> QED
      BY <1>11, <3>1, <3>2, <3>3, <3>4 DEF RunNext
  <2>2. UNCHANGED <<task, worker, client, db>>
    BY <1>11 DEF RunNext, RunStarted, RunLine, RunExit, RunLast, RunReturnsNil, RunReturnsError,
           Forward
  <2> QED
    BY <1>0, <1>1, <2>1, <2>2 DEF Types, TaskGood
<1>12. CASE ClientNext
  <2>1. /\ client' \in ClientRecords
        /\ \/ out' = out
           \/ out # <<>> /\ out' = Tail(out)
           \/ Len(out) < OutputCap /\ out' = Append(out, "note")
    <3>1. CASE ClientReads
      <4>1. \A a, b \in BOOLEAN : [client EXCEPT !.told = a, !.took = b] \in ClientRecords
        BY <1>0 DEF ClientRecords
      <4> DEFINE told == client.told \/ Head(out) = "final"
                 took == client.took \/ Head(out) = "ERROR"
      <4>2. told \in BOOLEAN /\ took \in BOOLEAN
        BY Zenon
      <4>3. client' = [client EXCEPT !.told = told, !.took = took]
        BY <3>1 DEF ClientReads
      <4> HIDE DEF told, took
      <4>4. client' \in ClientRecords
        BY <4>1, <4>2, <4>3
      <4>5. out # <<>> /\ out' = Tail(out)
        BY <3>1 DEF ClientReads
      <4> QED
        BY <4>4, <4>5
    <3>2. CASE ReaderStalls
      <4>1. \A b \in BOOLEAN : [client EXCEPT !.reading = FALSE, !.took = b] \in ClientRecords
        BY <1>0 DEF ClientRecords
      <4> DEFINE took == client.took \/ Head(out) = "ERROR"
      <4>2. took \in BOOLEAN
        BY Zenon
      <4>3. client' = [client EXCEPT !.reading = FALSE, !.took = took]
        BY <3>2 DEF ReaderStalls
      <4> HIDE DEF took
      <4>4. client' \in ClientRecords
        BY <4>1, <4>2, <4>3
      <4>5. out # <<>> /\ out' = Tail(out)
        BY <3>2 DEF ReaderStalls
      <4> QED
        BY <4>4, <4>5
    <3>3. CASE ClientLeaves \/ ReaderReturns \/ AddTaskAnnounces
      BY <1>0, <3>3 DEF ClientLeaves, ReaderStalls, ReaderReturns, AddTaskAnnounces, ClientRecords
    <3> QED
      BY <1>12, <3>1, <3>2, <3>3 DEF ClientNext
  <2>2. UNCHANGED <<task, run, worker, db>> /\ "note" \in Messages
    BY <1>12 DEF ClientNext, ClientReads, ClientLeaves, ReaderStalls, ReaderReturns,
       AddTaskAnnounces, Messages
  <2> QED
    BY <1>0, <1>1, <1>2, <2>1, <2>2 DEF Types, TaskGood
<1>13. CASE UNCHANGED vars
  BY <1>0, <1>13 DEF vars, Types, TaskGood
<1> QED
  BY <1>5, <1>6, <1>7, <1>8, <1>9, <1>10, <1>11, <1>12, <1>13 DEF Next, TaskNext, LoopNext,
     TaskAlone

-----------------------------------------------------------------------------
(* What a step does to the task, as far as the invariants look at it *)

\* The task keeps its slot and its registration.
Keeps(t, u) == u.registered = t.registered /\ u.slotHeld = t.slotHeld

\* The record u a step leaves the task with, action by action, from the record t it had.
Moved(t, u) ==
    \/ u = t /\ (RunNext \/ ClientNext \/ LoopHealth \/ LoopRunDone)
    \/ FlushSend /\ u.pc = t.pc /\ u.sending = None /\ u.state = t.state /\ Keeps(t, u)
    \/ CreateFails /\ u.pc = "release" /\ u.sending = "final" /\ Keeps(t, u)
    \/ Create /\ u.pc = "prepare" /\ u.sending = "note" /\ u.state = t.state
         /\ u.registered /\ u.slotHeld = t.slotHeld
    \/ Prepare /\ u.pc = "start" /\ u.sending = t.sending
         /\ u.state = SetState(t.state, "RUNNING", FALSE).state /\ Keeps(t, u)
    \/ StartFails /\ u.pc = "stop" /\ u.sending = "final" /\ Keeps(t, u)
    \/ Start /\ u.pc = "spawn" /\ u.sending = "note" /\ u.state = t.state /\ Keeps(t, u)
    \/ SpawnRun /\ u.pc = "loop" /\ u.sending = t.sending /\ u.state = t.state /\ Keeps(t, u)
    \/ (LoopRunDone \/ LoopTimeout \/ LoopCancelled) /\ u.pc = "confirm" /\ Keeps(t, u)
    \/ LoopRunDone /\ u.pc = "runErr" /\ u.sending = t.sending /\ Keeps(t, u)
    \/ LoopHealth /\ u.pc = (IF Completes(Head(out)) THEN "confirm" ELSE "loop") /\ Keeps(t, u)
         /\ \E fails \in BOOLEAN : /\ SetState(t.state, Head(out), fails).ok
                                   /\ u.state = SetState(t.state, Head(out), fails).state
    \/ LoopNote /\ u.pc = "resend" /\ u.sending = t.sending /\ u.state = t.state /\ Keeps(t, u)
    \/ Resend /\ u.pc = "loop" /\ u.sending = t.sending /\ u.state = t.state /\ Keeps(t, u)
    \/ LoopStateChanged /\ u.pc \in {"loop", "confirm"} /\ u.sending = t.sending
         /\ u.state = t.state /\ Keeps(t, u)
    \/ Confirm /\ u.pc = "stop" /\ Keeps(t, u)
    \/ StopWorker /\ u.pc = "unregister" /\ Keeps(t, u)
    \/ Unregister /\ u.pc = "release" /\ u.sending = t.sending /\ ~u.registered
         /\ u.slotHeld = t.slotHeld
    \/ ReleaseSlot /\ u.pc = "done" /\ u.sending = t.sending /\ u.registered = t.registered

\* Every step leaves the task so.
LEMMA TaskMoves == Types /\ Next => Moved(task, task')
<1> SUFFICES ASSUME Types, Next PROVE Moved(task, task')
  OBVIOUS
<1>1. task \in TaskRecords
  BY DEF Types, TaskGood
<1>2. \A to \in HealthStatus : \A fails \in BOOLEAN :
         /\ AfterSetState(to, fails) \in TaskRecords
         /\ AfterSetState(to, fails).sending = task.sending
         /\ AfterSetState(to, fails).registered = task.registered
         /\ AfterSetState(to, fails).slotHeld = task.slotHeld
         /\ AfterSetState(to, fails).state = SetState(task.state, to, fails).state
  BY <1>1, AfterSetStateEffect
<1>3. {"RUNNING", "ERROR", "STOPPED", "FINISHED"} \subseteq HealthStatus
  BY DEF HealthStatus
<1>4. ASSUME NEW to \in HealthStatus, NEW fails \in BOOLEAN, NEW pc, NEW m,
             task' = [AfterSetState(to, fails) EXCEPT !.sending = m, !.pc = pc]
      PROVE  /\ task'.pc = pc /\ task'.sending = m /\ Keeps(task, task')
             /\ task'.state = SetState(task.state, to, fails).state
  <2> DEFINE t == AfterSetState(to, fails)
  <2>1. /\ t \in TaskRecords /\ t.registered = task.registered /\ t.slotHeld = task.slotHeld
        /\ t.state = SetState(task.state, to, fails).state
    BY <1>2
  <2>2. task' = [t EXCEPT !.sending = m, !.pc = pc]
    BY <1>4
  <2> HIDE DEF t
  <2> QED
    BY <2>1, <2>2 DEF TaskRecords, Keeps
<1>5. CASE FlushSend \/ CreateFails \/ Create \/ Start \/ SpawnRun
  BY ZenonT(60), <1>1, <1>5 DEF FlushSend, CreateFails, Create, Start, SpawnRun, TaskRecords,
     Moved, Keeps
<1>6. CASE Prepare
  <2> DEFINE t == AfterSetState("RUNNING", FALSE)
  <2>1. /\ t \in TaskRecords /\ t.registered = task.registered /\ t.slotHeld = task.slotHeld
        /\ t.sending = task.sending /\ t.state = SetState(task.state, "RUNNING", FALSE).state
    BY <1>2, <1>3
  <2>2. task' = [t EXCEPT !.pc = "start"]
    BY <1>6 DEF Prepare
  <2> HIDE DEF t
  <2>3. /\ task'.pc = "start" /\ task'.sending = task.sending /\ Keeps(task, task')
        /\ task'.state = SetState(task.state, "RUNNING", FALSE).state
    BY <2>1, <2>2 DEF TaskRecords, Keeps
  <2> QED
    BY <1>6, <2>3 DEF Moved
<1>7. CASE StartFails \/ LoopTimeout \/ LoopCancelled
  <2>1. PICK to \in {"ERROR", "STOPPED"}, pc \in {"stop", "confirm"} :
           /\ task' = [AfterSetState(to, FALSE) EXCEPT !.pc = pc, !.sending = "final"]
           /\ IF StartFails THEN pc = "stop" ELSE pc = "confirm"
    BY <1>7 DEF StartFails, LoopTimeout, LoopCancelled, At
  <2>2. task' = [AfterSetState(to, FALSE) EXCEPT !.sending = "final", !.pc = pc]
    BY <1>2, <1>3, <2>1 DEF TaskRecords
  <2>3. task'.pc = pc /\ task'.sending = "final" /\ Keeps(task, task')
    BY <1>3, <1>4, <2>2
  <2> QED
    BY <1>7, <2>1, <2>3 DEF Moved
<1>8. CASE LoopRunDone
  <2>1. run.err \in {None, "nil", "err"}
    BY DEF Types, RunRecords
  <2>2. CASE run.err = "err"
    <3>1. task' = [AfterSetState("ERROR", FALSE) EXCEPT !.pc = "confirm", !.sending = "final"]
      BY <1>8, <2>2 DEF LoopRunDone, None
    <3>2. task' = [AfterSetState("ERROR", FALSE) EXCEPT !.sending = "final", !.pc = "confirm"]
      BY <1>2, <1>3, <3>1 DEF TaskRecords
    <3>3. task'.pc = "confirm" /\ Keeps(task, task')
      BY <1>3, <1>4, <3>2
    <3> QED
      BY <1>8, <3>3 DEF Moved
  <2>3. CASE run.err = "nil"
    BY <1>8, <2>3 DEF LoopRunDone, Moved, None
  <2>4. CASE run.err = None
    <3>1. task' = [task EXCEPT !.pc = "runErr"]
      BY <1>8, <2>4 DEF LoopRunDone, None
    <3> QED
      BY <1>1, <1>8, <3>1 DEF TaskRecords, Moved, Keeps
  <2> QED
    BY <2>1, <2>2, <2>3, <2>4
<1>9. CASE LoopHealth
  <2>1. PICK fails \in BOOLEAN :
          LET status == Head(out)
              set == SetState(task.state, status, fails)
          IN  IF ~set.ok
              THEN task' = task
              ELSE task' = [AfterSetState(status, fails) EXCEPT
                              !.sending = Announcement(status),
                              !.pc = IF Completes(status) THEN "confirm" ELSE "loop"]
    BY <1>9 DEF LoopHealth
  <2>2. Head(out) \in HealthStatus
    BY <1>9 DEF LoopHealth, RemoteHealth, HealthStatus
  <2>3. CASE ~SetState(task.state, Head(out), fails).ok
    BY <1>9, <2>1, <2>3 DEF Moved
  <2>4. CASE SetState(task.state, Head(out), fails).ok
    <3> DEFINE pc == IF Completes(Head(out)) THEN "confirm" ELSE "loop"
               m == Announcement(Head(out))
    <3>1. task' = [AfterSetState(Head(out), fails) EXCEPT !.sending = m, !.pc = pc]
      BY <2>1, <2>4
    <3> HIDE DEF pc, m
    <3>2. /\ task'.pc = pc /\ Keeps(task, task')
          /\ task'.state = SetState(task.state, Head(out), fails).state
      BY <1>4, <2>2, <3>1
    <3> QED
      BY <1>9, <2>4, <3>2 DEF Moved, pc
  <2> QED
    BY <2>3, <2>4
<1>10. CASE LoopNote \/ Resend \/ LoopStateChanged
  BY <1>1, <1>10 DEF LoopNote, Resend, LoopStateChanged, TaskRecords, Moved, Keeps
<1>11. CASE Confirm \/ StopWorker \/ Unregister \/ ReleaseSlot
  BY <1>1, <1>11 DEF Confirm, StopWorker, Unregister, ReleaseSlot, TaskRecords, Moved, Keeps
<1>12. CASE RunNext \/ ClientNext
  <2>1. task' = task
    BY <1>12 DEF RunNext, RunStarted, RunLine, RunExit, RunLast, RunReturnsNil, RunReturnsError,
       Forward, ClientNext, ClientReads, ReaderStalls, ClientLeaves, ReaderReturns,
       AddTaskAnnounces
  <2> QED
    BY <1>12, <2>1 DEF Moved
<1> QED
  BY <1>5, <1>6, <1>7, <1>8, <1>9, <1>10, <1>11, <1>12 DEF Next, TaskNext, LoopNext

-----------------------------------------------------------------------------
(* The life of the task *)

\* A worker is registered from its creation to the deferred removal, and the slot goes last.
InWork == {"prepare", "start", "spawn", "loop", "resend", "runErr", "confirm", "stop",
           "unregister"}
Lives ==
    /\ task.registered <=> task.pc \in InWork
    /\ ~task.slotHeld => task.pc = "done"
    /\ task.pc \in {"create", "done"} => task.sending = None

\* Before a worker is registered, and on the path of a factory that failed, the channel holds at
\* most the announcement of AddTask, so no send can block.
Pending == IF client.adding THEN 1 ELSE 0
Roomy ==
    /\ task.pc \in {"create", "prepare", "start", "spawn"} => run.stream = "off"
    /\ task.pc = "create" => Len(out) + Pending <= 1
    /\ task.pc = "release" /\ task.sending # None => run.stream = "off" /\ Len(out) + Pending <= 1

\* Only in the state RUNNING does the task wait for messages.
StateKnown ==
    /\ task.pc \in {"create", "prepare"} => task.state = "UNKNOWN"
    /\ task.pc \in {"start", "spawn", "loop", "resend"} => task.state = "RUNNING"

\* The life of a task and the state it is in go on as they should.
LEMMA LivesOn == Types /\ Lives /\ StateKnown /\ Next => Lives' /\ StateKnown'
<1> SUFFICES ASSUME Types, Lives, StateKnown, Next PROVE Lives' /\ StateKnown'
  OBVIOUS
<1>1. Moved(task, task')
  BY TaskMoves
<1>2. task \in TaskRecords /\ task' \in TaskRecords
  BY TypesAreInductive DEF Types, TaskGood
<1>3. Lives'
  <2>1. task'.registered <=> task'.pc \in InWork
    BY <1>1, <1>2 DEF Moved, Keeps, Lives, InWork, At, FlushSend, CreateFails, Create, Prepare,
           StartFails, Start, SpawnRun, LoopRunDone, LoopTimeout, LoopCancelled, LoopHealth,
           LoopNote, Resend, LoopStateChanged, Confirm, StopWorker, Unregister, ReleaseSlot
  <2>2. ~task'.slotHeld => task'.pc = "done"
    BY <1>1, <1>2 DEF Moved, Keeps, Lives, At, FlushSend, CreateFails, Create, Prepare,
           StartFails, Start, SpawnRun, LoopRunDone, LoopTimeout, LoopCancelled, LoopHealth,
           LoopNote, Resend, LoopStateChanged, Confirm, StopWorker, Unregister, ReleaseSlot
  <2>3. task'.pc \in {"create", "done"} => task'.sending = None
    BY <1>1, <1>2 DEF Moved, Lives, At, ReleaseSlot
  <2> QED
    BY <2>1, <2>2, <2>3 DEF Lives
<1>4. StateKnown'
  <2>1. Head(out) \in RemoteHealth => Head(out) \in {"RUNNING", "ERROR", "FINISHED"}
    BY DEF RemoteHealth
  <2>2. \A fails \in BOOLEAN : SetState("RUNNING", "RUNNING", fails).state = "RUNNING"
    BY DEF SetState, Transitions, StopWorkerTransitions
  <2>3. SetState("UNKNOWN", "RUNNING", FALSE).state = "RUNNING"
    BY DEF SetState, Transitions, StopWorkerTransitions
  <2>4. CASE LoopHealth
    <3>1. task.state = "RUNNING" /\ Head(out) \in {"RUNNING", "ERROR", "FINISHED"}
      BY <2>1, <2>4 DEF LoopHealth, At, StateKnown
    <3>2. ~Prepare /\ task.pc = "loop"
      BY <2>4 DEF LoopHealth, At, Prepare
    <3>3. ~Completes(Head(out)) => Head(out) = "RUNNING"
      BY <3>1 DEF Completes, FinalHealth
    <3>4. \A fails \in BOOLEAN : SetState(task.state, "RUNNING", fails).state = "RUNNING"
      BY <2>2, <3>1
    <3>5. \/ task'.state = "RUNNING"
          \/ task'.pc \notin {"create", "prepare", "start", "spawn", "loop", "resend"}
      <4>1. ~FlushSend /\ ~Create
        BY <2>4 DEF LoopHealth, At, FlushSend, Create
      <4> QED
        BY <1>1, <3>1, <3>2, <3>3, <3>4, <4>1 DEF Moved
    <3>6. ~Create /\ task'.pc \notin {"create", "prepare"}
      <4>1. ~FlushSend /\ ~Create
        BY <2>4 DEF LoopHealth, At, FlushSend, Create
      <4> QED
        BY <1>1, <3>2, <4>1 DEF Moved
    <3> QED
      BY <3>5, <3>6 DEF StateKnown
  <2>5. CASE ~LoopHealth
    BY <1>1, <2>3, <2>5 DEF Moved, StateKnown, At, Prepare, Create, Start, SpawnRun, LoopNote,
           Resend, LoopStateChanged
  <2> QED
    BY <2>4, <2>5
<1> QED
  BY <1>3, <1>4

\* What the steps do to the channel.
LEMMA OutMoves ==
    Types /\ Next =>
       \/ UNCHANGED out
       \/ /\ out # <<>> /\ out' = Tail(out) /\ UNCHANGED run
          /\ \/ ClientReads \/ ReaderStalls
             \/ LoopHealth /\ UNCHANGED client
             \/ LoopNote /\ Head(out) \notin RemoteHealth /\ UNCHANGED client
       \/ /\ Len(out) < OutputCap /\ UNCHANGED run
          /\ \E m \in {"note", "final"} : out' = Append(out, m)
          /\ \/ (FlushSend \/ Resend) /\ UNCHANGED client
             \/ client.adding /\ client' = [client EXCEPT !.adding = FALSE]
       \/ Len(out) < OutputCap /\ (RunStarted \/ RunLine \/ RunExit \/ RunLast)
<1> SUFFICES ASSUME Types, Next, ~UNCHANGED out
             PROVE  \/ /\ out # <<>> /\ out' = Tail(out) /\ UNCHANGED run
                       /\ \/ ClientReads \/ ReaderStalls
                          \/ LoopHealth /\ UNCHANGED client
                          \/ LoopNote /\ Head(out) \notin RemoteHealth /\ UNCHANGED client
                    \/ /\ Len(out) < OutputCap /\ UNCHANGED run
                       /\ \E m \in {"note", "final"} : out' = Append(out, m)
                       /\ \/ (FlushSend \/ Resend) /\ UNCHANGED client
                          \/ client.adding /\ client' = [client EXCEPT !.adding = FALSE]
                    \/ Len(out) < OutputCap /\ (RunStarted \/ RunLine \/ RunExit \/ RunLast)
  OBVIOUS
<1>1. task \in TaskRecords /\ (task.pc = "resend" => task.hand # None)
  BY DEF Types, TaskGood
<1>2. CASE FlushSend \/ Resend
  BY <1>1, <1>2 DEF FlushSend, Resend, At, TaskRecords, None
<1>3. CASE LoopHealth \/ LoopNote
  BY <1>3 DEF LoopHealth, LoopNote
<1>4. CASE ClientReads \/ ReaderStalls \/ AddTaskAnnounces
  BY <1>4 DEF ClientReads, ReaderStalls, AddTaskAnnounces
<1>5. CASE RunStarted \/ RunLine \/ RunExit \/ RunLast
  BY <1>5 DEF RunStarted, RunLine, RunExit, RunLast, Forward
<1>6. \/ FlushSend \/ Resend \/ LoopHealth \/ LoopNote
      \/ ClientReads \/ ReaderStalls \/ AddTaskAnnounces
      \/ RunStarted \/ RunLine \/ RunExit \/ RunLast
  BY DEF Next, TaskNext, LoopNext, RunNext, ClientNext, CreateFails, Create, Prepare, StartFails,
         Start, SpawnRun, LoopRunDone, LoopStateChanged, LoopTimeout, LoopCancelled, Confirm,
         StopWorker, Unregister, ReleaseSlot, RunReturnsNil, RunReturnsError, ClientLeaves,
         ReaderReturns
<1> QED
  BY <1>2, <1>3, <1>4, <1>5, <1>6

\* Before the worker is registered nothing but that announcement is sent.
LEMMA RoomyStays == Types /\ Lives /\ Roomy /\ Next => Roomy'
<1> SUFFICES ASSUME Types, Lives, Roomy, Next PROVE Roomy'
  OBVIOUS
<1>1. Moved(task, task')
  BY TaskMoves
<1>2. /\ task \in TaskRecords /\ client \in ClientRecords /\ run \in RunRecords
      /\ out \in Seq(Messages)
  BY DEF Types, TaskGood
<1>3. run.stream = "off" => UNCHANGED run \/ SpawnRun \/ LoopRunDone
  BY DEF Next, TaskNext, LoopNext, RunNext, ClientNext, FlushSend, CreateFails, Create, Prepare,
     StartFails, Start, LoopHealth, LoopNote, Resend, LoopStateChanged, LoopTimeout,
     LoopCancelled, Confirm, StopWorker, Unregister, ReleaseSlot, RunStarted, RunLine, RunExit,
     RunLast, RunReturnsNil, RunReturnsError, Streaming, ClientReads, ReaderStalls, ClientLeaves,
     ReaderReturns, AddTaskAnnounces
<1>4. LoopRunDone => run'.stream = run.stream
  BY <1>2 DEF LoopRunDone, RunRecords
<1>5. run.stream = "off" => run'.stream = "off" \/ SpawnRun
  BY <1>3, <1>4
<1>6. task'.pc \in {"create", "prepare", "start", "spawn"}
        => task.pc \in {"create", "prepare", "start", "spawn"} /\ ~SpawnRun
  <2>1. SpawnRun => task'.pc = "loop"
    BY <1>2 DEF SpawnRun, TaskRecords
  <2>2. task'.pc \in {"create", "prepare", "start", "spawn"}
          => task.pc \in {"create", "prepare", "start", "spawn"}
    BY <1>1 DEF Moved, At, Create, Prepare, Start
  <2> QED
    BY <2>1, <2>2
<1>7. ASSUME client' = client \/ ClientNext \/ client' = [client EXCEPT !.adding = FALSE]
      PROVE  client'.adding => client.adding
  BY <1>2, <1>7 DEF ClientNext, ClientReads, ClientLeaves, ReaderStalls, ReaderReturns,
     AddTaskAnnounces, ClientRecords
<1>8. ASSUME run.stream = "off", task.sending = None \/ task'.sending # None,
             task.pc \in {"create", "release"}, Len(out) + Pending <= 1
      PROVE  Len(out') + Pending' <= 1
  <2>0. Len(out) \in Nat /\ Pending \in {0, 1}
    BY <1>2 DEF Pending
  <2>1. CASE UNCHANGED out
    <3>1. client' = client \/ ClientNext
      BY DEF Next, TaskNext, LoopNext, RunNext, FlushSend, CreateFails, Create, Prepare,
         StartFails, Start, SpawnRun, LoopRunDone, LoopHealth, LoopNote, Resend, LoopStateChanged,
         LoopTimeout, LoopCancelled, Confirm, StopWorker, Unregister, ReleaseSlot, RunStarted,
         RunLine, RunExit, RunLast, RunReturnsNil, RunReturnsError, Forward
    <3> QED
      BY <1>2, <1>7, <1>8, <2>0, <2>1, <3>1 DEF Pending
  <2>2. CASE out # <<>> /\ out' = Tail(out)
             /\ (ClientReads \/ ReaderStalls \/ UNCHANGED client)
    <3>1. Len(out') = Len(out) - 1 /\ Len(out) \in Nat
      BY <1>2, <2>2, ChannelEffect
    <3>2. client'.adding => client.adding
      BY <1>7, <2>2 DEF ClientNext
    <3> QED
      BY <1>8, <2>0, <3>1, <3>2 DEF Pending
  <2>3. CASE /\ \E m \in {"note", "final"} : out' = Append(out, m)
             /\ client.adding /\ client' = [client EXCEPT !.adding = FALSE]
    <3>1. Len(out') = Len(out) + 1 /\ Len(out) \in Nat
      BY <1>2, <2>3, ChannelEffect DEF Messages
    <3>2. ~client'.adding /\ client.adding
      BY <1>2, <2>3 DEF ClientRecords
    <3> QED
      BY <1>8, <2>0, <3>1, <3>2 DEF Pending
  <2>4. CASE FlushSend \/ Resend
    <3>1. FlushSend => task'.sending = None
      BY <1>2 DEF FlushSend, TaskRecords
    <3> QED
      BY <1>8, <2>4, <3>1 DEF FlushSend, Resend, At
  <2>5. ~(RunStarted \/ RunLine \/ RunExit \/ RunLast)
    BY <1>8 DEF RunStarted, RunLine, RunExit, RunLast
  <2> QED
    BY <2>1, <2>2, <2>3, <2>4, <2>5, OutMoves
<1>9. task'.pc = "create" => task.pc = "create" /\ task.sending = None
  BY <1>1 DEF Moved, Lives
<1>10. ASSUME task'.pc = "release", task'.sending # None
       PROVE  \/ CreateFails
              \/ task.pc = "release" /\ task.sending # None
  BY <1>1, <1>10 DEF Moved, Unregister, At
<1>11. task'.pc = "create" => Len(out') + Pending' <= 1
  <2> SUFFICES ASSUME task'.pc = "create" PROVE Len(out') + Pending' <= 1
    OBVIOUS
  <2>1. run.stream = "off" /\ Len(out) + Pending <= 1 /\ task.pc = "create" /\ task.sending = None
    BY <1>9 DEF Roomy
  <2> QED
    BY <1>8, <2>1
<1>12. ASSUME task'.pc = "release", task'.sending # None
       PROVE  run'.stream = "off" /\ Len(out') + Pending' <= 1
  <2>1. CASE CreateFails
    BY <2>1 DEF CreateFails, At, Roomy, Pending
  <2>2. CASE task.pc = "release" /\ task.sending # None
    <3>1. run.stream = "off" /\ Len(out) + Pending <= 1
      BY <2>2 DEF Roomy
    <3>2. ~SpawnRun
      BY <2>2 DEF SpawnRun, At
    <3> QED
      BY <1>5, <1>8, <1>12, <2>2, <3>1, <3>2
  <2> QED
    BY <1>10, <1>12, <2>1, <2>2
<1>13. task'.pc \in {"create", "prepare", "start", "spawn"} => run'.stream = "off"
  BY <1>5, <1>6 DEF Roomy
<1> QED
  BY <1>11, <1>12, <1>13 DEF Roomy

-----------------------------------------------------------------------------
(* The refinement of TaskLifecycle *)

LifeInv == Lives /\ StateKnown /\ Roomy

\* What TaskLifecycle sees of the task, from where it is; it cannot wedge before its worker is
\* registered, nor after.
PhaseFacts ==
    /\ Phase = "admitted" <=> task.pc = "create"
    /\ Phase = "registered" <=> task.pc \in InWork
    /\ Phase = "unregistered" <=> task.pc = "release"
    /\ Phase = "ended" <=> task.pc = "done"
    /\ task.pc \in InWork \cup {"create", "release", "done"}
    /\ Wedged \in BOOLEAN
    /\ Wedged => task.pc \in InWork

\* So it is in every state of the life of a task.
LEMMA PhaseOf == Types /\ LifeInv => PhaseFacts
<1> SUFFICES ASSUME Types, LifeInv PROVE PhaseFacts
  OBVIOUS
<1>1. task \in TaskRecords /\ out \in Seq(Messages)
  BY DEF Types, TaskGood
<1>2. task.pc \in InWork \cup {"create", "release", "done"}
  BY <1>1 DEF TaskRecords, Locations, InWork
<1>3. task.registered <=> task.pc \in InWork
  BY DEF LifeInv, Lives
<1>4. task.pc = "release" /\ task.sending # None => Len(out) < OutputCap
  <2>1. Len(out) \in Nat /\ OutputCap \in Nat /\ OutputCap > 3
    BY <1>1, OutputCapAssumption
  <2> QED
    BY <2>1 DEF LifeInv, Roomy, Pending
<1>5. Wedged => task.pc \in InWork
  BY <1>2, <1>4 DEF LifeInv, Lives, Wedged
<1>6. Wedged \in BOOLEAN
  BY Zenon DEF Wedged
<1> QED
  BY <1>2, <1>3, <1>5, <1>6 DEF Phase, InWork, PhaseFacts

\* Where a task may go from where it is.
LEMMA PhaseMoves ==
    ASSUME Types, LifeInv, Next
    PROVE  /\ task.pc = "create" => task'.pc \in InWork \cup {"create", "release"}
           /\ task.pc \in InWork => task'.pc \in InWork \cup {"release"}
           /\ task.pc = "release" => task'.pc \in {"release", "done"}
           /\ task.pc = "done" => task'.pc = "done"
<1>1. Moved(task, task')
  BY TaskMoves
<1> QED
  BY <1>1 DEF Moved, InWork, At, CreateFails, Create, Prepare, StartFails, Start, SpawnRun,
     LoopRunDone, LoopTimeout, LoopCancelled, LoopHealth, LoopNote, Resend, LoopStateChanged,
     Confirm, StopWorker, Unregister, ReleaseSlot

\* A wedged task stays where it is, wedged.
LEMMA WedgedForGood ==
    ASSUME Types, LifeInv, Next, Wedged
    PROVE  task'.pc = task.pc /\ Wedged'
<1>1. Moved(task, task')
  BY TaskMoves
<1>2. CASE task.pc = "runErr"
  <2>1. task'.pc = "runErr"
    BY <1>1, <1>2 DEF Moved, At, CreateFails, Create, Prepare, StartFails, Start, SpawnRun,
       LoopRunDone, LoopTimeout, LoopCancelled, LoopHealth, LoopNote, Resend, LoopStateChanged,
       Confirm, StopWorker, Unregister, ReleaseSlot
  <2> QED
    BY <1>2, <2>1 DEF Wedged
<1>3. CASE task.sending # None /\ Len(out) = OutputCap /\ ~client.reading
  <2>1. ~(Len(out) < OutputCap)
    BY <1>3, OutputCapAssumption
  <2>2. RunNext \/ ClientNext
    BY <1>3, <2>1 DEF Next, TaskNext, LoopNext, At, FlushSend, CreateFails, Create, Prepare,
       StartFails, Start, SpawnRun, LoopRunDone, LoopTimeout, LoopCancelled, LoopHealth, LoopNote,
       Resend, LoopStateChanged, Confirm, StopWorker, Unregister, ReleaseSlot
  <2>3. UNCHANGED <<task, out>>
    BY <1>3, <2>1, <2>2 DEF RunNext, RunStarted, RunLine, RunExit, RunLast, RunReturnsNil,
       RunReturnsError, Forward, ClientNext, ClientReads, ReaderStalls, ClientLeaves,
       ReaderReturns, AddTaskAnnounces
  <2>4. ~client'.reading
    <3>1. client \in ClientRecords
      BY DEF Types
    <3>2. UNCHANGED client \/ ClientLeaves
      BY <1>3, <2>1, <2>2 DEF RunNext, RunStarted, RunLine, RunExit, RunLast, RunReturnsNil,
         RunReturnsError, Forward, ClientNext, ClientReads, ReaderStalls, ReaderReturns,
         AddTaskAnnounces
    <3> QED
      BY <1>3, <3>1, <3>2 DEF ClientLeaves, ClientRecords
  <2> QED
    BY <1>3, <2>3, <2>4 DEF Wedged
<1> QED
  BY <1>2, <1>3 DEF Wedged

\* A factory that succeeds leaves room in the channel.
LEMMA CreatedUnwedged ==
    ASSUME Types, LifeInv, Next, task.pc = "create"
    PROVE  ~Wedged' \/ task'.pc \notin InWork
<1>1. Moved(task, task')
  BY TaskMoves
<1>2. task'.pc \in InWork => Create /\ task'.pc = "prepare"
  BY <1>1 DEF Moved, InWork, At, Prepare, StartFails, Start, SpawnRun, LoopRunDone, LoopTimeout,
     LoopCancelled, LoopHealth, LoopNote, Resend, LoopStateChanged, Confirm, StopWorker
<1>3. Create => Len(out') < OutputCap
  <2>1. out \in Seq(Messages) /\ Len(out) \in Nat /\ OutputCap \in Nat /\ OutputCap > 3
    BY OutputCapAssumption DEF Types
  <2>2. Len(out) <= 1
    BY <2>1 DEF LifeInv, Roomy, Pending
  <2> QED
    BY <2>1, <2>2 DEF Create
<1> QED
  BY <1>2, <1>3, OutputCapAssumption DEF Wedged

\* The life of the task goes on.
LEMMA LifeIsInductive == Types /\ LifeInv /\ [Next]_vars => LifeInv'
<1>1. Types /\ LifeInv /\ Next => LifeInv'
  BY LivesOn, RoomyStays DEF LifeInv
<1>2. LifeInv /\ UNCHANGED vars => LifeInv'
  BY DEF vars, LifeInv, Lives, StateKnown, Roomy, Pending
<1> QED
  BY <1>1, <1>2

\* It begins so.
LEMMA Begins == Init => Types /\ LifeInv
<1> SUFFICES ASSUME Init PROVE Types /\ LifeInv
  OBVIOUS
<1>1. task.pc = "create" /\ task.sending = None /\ task.state = "UNKNOWN" /\ ~task.registered
        /\ task.slotHeld
  BY DEF Init
<1>2. out = <<>> /\ run.stream = "off" /\ client.adding
  BY DEF Init
<1>3. task \in TaskRecords /\ task.pc # "resend"
  BY DEF Init, TaskRecords, Locations, HealthStatus, None
<1>4. run \in RunRecords
  BY MaxLinesAssumption DEF Init, RunRecords, None
<1>5. worker \in WorkerRecords
  BY DEF Init, WorkerRecords
<1>6. client \in ClientRecords
  BY DEF Init, ClientRecords
<1>7. out \in Seq(Messages) /\ Len(out) = 0
  BY <1>2
<1>8. Types
  BY <1>3, <1>4, <1>5, <1>6, <1>7, OutputCapAssumption DEF Init, Types, TaskGood
<1>9. LifeInv
  BY <1>1, <1>2, <1>7 DEF LifeInv, Lives, InWork, StateKnown, Roomy, Pending
<1> QED
  BY <1>8, <1>9

\* The variables keep their types.
THEOREM TypeCorrect == Spec => []TypeOK
<1>1. Types => TypeOK
  BY DEF Types, TaskGood, TypeOK, TaskRecords, RunRecords, WorkerRecords, ClientRecords
<1> QED
  BY <1>1, Begins, TypesAreInductive, PTL DEF Spec

\* The life of the task, always.
LEMMA LifeHolds == Spec => [](Types /\ LifeInv /\ PhaseFacts)
BY Begins, TypesAreInductive, LifeIsInductive, PhaseOf, PTL DEF Spec

\* Whatever processTask does, to the rest of the manager it is a TaskLifecycle: it registers its
\* worker once, removes it unless it wedges, and gives its slot back only after that.
THEOREM TaskImplementsLifecycle == Spec => LifecycleImplemented
<1>1. Init => Lifecycle!LifeInit
  <2> SUFFICES ASSUME Init PROVE Lifecycle!LifeInit
    OBVIOUS
  <2>1. PhaseFacts /\ task.pc = "create"
    BY Begins, PhaseOf DEF Init
  <2> QED
    BY <2>1 DEF PhaseFacts, InWork, Lifecycle!LifeInit
<1>2. ASSUME Types, LifeInv, PhaseFacts, PhaseFacts', [Next]_vars
      PROVE  [Lifecycle!LifeNext]_Lifecycle!lifeVars
  <2>1. CASE UNCHANGED vars
    BY <2>1 DEF vars, Phase, Wedged, Lifecycle!lifeVars
  <2>2. CASE Next /\ Wedged
    <3>1. task'.pc = task.pc /\ Wedged'
      BY <1>2, <2>2, WedgedForGood
    <3>2. UNCHANGED <<Phase, Wedged>>
      BY <1>2, <2>2, <3>1 DEF PhaseFacts, InWork
    <3> QED
      BY <3>2 DEF Lifecycle!lifeVars
  <2>3. CASE Next /\ ~Wedged /\ Wedged'
    <3>1. task'.pc \in InWork /\ task.pc \in InWork
      BY <1>2, <2>3, CreatedUnwedged, PhaseMoves DEF PhaseFacts, InWork
    <3>2. Phase = "registered" /\ Phase' = "registered" /\ Wedged' = TRUE
      BY <1>2, <2>3, <3>1 DEF PhaseFacts
    <3> QED
      BY <2>3, <3>2 DEF Lifecycle!LifeNext, Lifecycle!Wedge
  <2>4. CASE Next /\ ~Wedged /\ ~Wedged'
    <3>1. Wedged' = Wedged
      BY <1>2, <2>4 DEF PhaseFacts
    <3>2. \/ Phase' = Phase
          \/ Phase = "admitted" /\ Phase' \in {"registered", "unregistered"}
          \/ Phase = "registered" /\ Phase' = "unregistered"
          \/ Phase = "unregistered" /\ Phase' = "ended"
      BY <1>2, <2>4, PhaseMoves DEF PhaseFacts, InWork
    <3> QED
      BY <2>4, <3>1, <3>2 DEF Lifecycle!LifeNext, Lifecycle!Register, Lifecycle!CreateFails,
         Lifecycle!Unregister, Lifecycle!ReleaseSlot, Lifecycle!lifeVars
  <2> QED
    BY <1>2, <2>1, <2>2, <2>3, <2>4
<1> QED
  BY <1>1, <1>2, LifeHolds, PTL DEF Spec, LifecycleImplemented, Lifecycle!LifeSpec

-----------------------------------------------------------------------------
(* The container *)

\* There is no container before Start, and after the deferred Stop only one it could not remove.
Reaped ==
    /\ task.pc \in {"create", "prepare", "start"} => ~worker.container /\ ~worker.connected
    /\ task.pc \in {"unregister", "release", "done"} /\ worker.container /\ worker.connected
         => worker.stopFailed

\* Every step leaves the container so.
LEMMA ReapedStays == Types /\ Reaped /\ Next => Reaped'
<1> SUFFICES ASSUME Types, Reaped, Next PROVE Reaped'
  OBVIOUS
<1>1. Moved(task, task')
  BY TaskMoves
<1>2. task \in TaskRecords /\ task' \in TaskRecords /\ worker \in WorkerRecords
  BY TypesAreInductive DEF Types, TaskGood
<1>3. CASE UNCHANGED worker /\ ~StopWorker
  <2>1. task'.pc \in {"create", "prepare", "start"} => task.pc \in {"create", "prepare", "start"}
    BY <1>1 DEF Moved, At, Create, Prepare
  <2>2. task'.pc \in {"unregister", "release", "done"}
          => task.pc \in {"unregister", "release", "done", "create"}
    BY <1>1, <1>3 DEF Moved, At, CreateFails, Unregister, ReleaseSlot
  <2> QED
    BY <1>2, <1>3, <2>1, <2>2 DEF Reaped
<1>4. CASE StopWorker
  <2>1. PICK fails \in BOOLEAN : worker' = WorkerStop(fails)
    BY <1>4 DEF StopWorker
  <2>2. worker'.container /\ worker'.connected => worker'.stopFailed
    BY <1>2, <2>1, WorkerStopEffect
  <2>3. task'.pc = "unregister"
    BY <1>2, <1>4 DEF StopWorker, TaskRecords
  <2> QED
    BY <2>2, <2>3 DEF Reaped
<1>5. CASE Start \/ StartFails \/ LoopHealth
  <2>1. task.pc \in {"start", "loop"} /\ ~Create /\ ~Prepare /\ ~CreateFails /\ ~StopWorker
          /\ ~Unregister /\ ~ReleaseSlot /\ ~FlushSend
    BY <1>5 DEF Start, StartFails, LoopHealth, At, Create, Prepare, CreateFails, StopWorker,
       Unregister, ReleaseSlot, FlushSend
  <2>2. UNCHANGED task => LoopHealth
    <3>1. StartFails => task'.pc = "stop"
      <4> DEFINE t == AfterSetState("ERROR", FALSE)
      <4>1. t \in TaskRecords
        BY <1>2, AfterSetStateEffect DEF HealthStatus
      <4>2. StartFails => task' = [t EXCEPT !.pc = "stop", !.sending = "final"]
        BY DEF StartFails
      <4> HIDE DEF t
      <4> QED
        BY <4>1, <4>2 DEF TaskRecords
    <3>2. Start => task'.pc = "spawn"
      BY <1>2 DEF Start, TaskRecords
    <3>3. Start \/ StartFails => task.pc = "start"
      BY DEF Start, StartFails, At
    <3> QED
      BY <1>5, <3>1, <3>2, <3>3
  <2>3. LoopHealth => task.pc = "loop"
    BY DEF LoopHealth, At
  <2>4. task'.pc \notin {"create", "prepare", "start", "unregister", "release", "done"}
    BY <1>1, <2>1, <2>2, <2>3 DEF Moved
  <2> QED
    BY <2>4 DEF Reaped
<1>6. UNCHANGED worker \/ Start \/ StartFails \/ LoopHealth \/ StopWorker
  BY DEF Next, TaskNext, LoopNext, RunNext, ClientNext, FlushSend, CreateFails, Create, Prepare,
     SpawnRun, LoopRunDone, LoopNote, Resend, LoopStateChanged, LoopTimeout, LoopCancelled,
     Confirm, Unregister, ReleaseSlot, RunStarted, RunLine, RunExit, RunLast, RunReturnsNil,
     RunReturnsError, Forward, ClientReads, ReaderStalls, ClientLeaves, ReaderReturns,
     AddTaskAnnounces
<1> QED
  BY <1>3, <1>4, <1>5, <1>6

\* A task that has given its slot back has left no container, but in the two cases named.
THEOREM NoContainerIsLeft == Spec => []ContainerReaped
<1>1. Init => Reaped
  BY DEF Init, Reaped
<1>2. Types /\ Reaped /\ [Next]_vars => Reaped'
  <2>1. Reaped /\ UNCHANGED vars => Reaped'
    BY DEF vars, Reaped
  <2> QED
    BY <2>1, ReapedStays
<1>3. LifeInv /\ Reaped => ContainerReaped
  BY DEF LifeInv, Lives, Reaped, ContainerReaped
<1> QED
  BY <1>1, <1>2, <1>3, LifeHolds, PTL DEF Spec

-----------------------------------------------------------------------------
(* The outcome *)

\* An ERROR was sent for the process.
Erred == run.exit = "fail" \/ run.wrong

\* How far the stream tells the exit of the process.
StreamTells ==
    /\ run.stream \in {"off", "setup", "running"} => run.exit = None /\ ~run.wrong
    /\ run.stream \in {"exited", "closed"} => run.exit # None

\* An ERROR is in the channel only if one was sent, a FINISHED only of a process that exited;
\* while the task waits, the ERROR that was sent is still in the channel, before any FINISHED,
\* or the websocket goroutine has taken it.
Waiting == task.pc \in {"loop", "resend"}
Told(q, took) ==
    /\ took \/ \E j \in 1..Len(q) : q[j] = "ERROR"
    /\ \A i \in 1..Len(q) : q[i] = "FINISHED" => took \/ \E j \in 1..(i - 1) : q[j] = "ERROR"
ChannelTells ==
    /\ \A i \in 1..Len(out) : out[i] = "ERROR" => Erred
    /\ \A i \in 1..Len(out) : out[i] = "FINISHED" => run.exit # None
    /\ Waiting /\ Erred => Told(out, client.took)

OutcomeInv == StreamTells /\ ChannelTells /\ OutcomeIsOfTheProcess

\* What a step does to what is known of the exit: only RunExit sets it, from nothing.
LEMMA ExitMoves ==
    ASSUME Types, Roomy, StreamTells, Next
    PROVE  /\ StreamTells'
           /\ ~RunExit => run'.exit = run.exit /\ run'.wrong = run.wrong
           /\ RunExit => run.exit = None /\ ~run.wrong /\ run'.exit # None
           /\ Erred => Erred'
           /\ run.exit # None => run'.exit # None
<1>1. run \in RunRecords
  BY DEF Types
<1>2. CASE RunExit
  BY <1>1, <1>2 DEF RunExit, Forward, StreamTells, Erred, RunRecords, None
<1>3. CASE RunStarted \/ RunLine \/ RunLast
  BY <1>1, <1>3 DEF RunStarted, RunLine, RunLast, RunExit, Forward, StreamTells, Erred,
     RunRecords, None
<1>4. CASE RunReturnsNil \/ RunReturnsError \/ SpawnRun \/ LoopRunDone
  <2>1. run'.exit = run.exit /\ run'.wrong = run.wrong
    BY <1>1, <1>4 DEF RunReturnsNil, RunReturnsError, SpawnRun, LoopRunDone, RunRecords
  <2>2. \/ run'.stream = "over"
        \/ run'.stream = "setup" /\ run.stream = "off"
        \/ run'.stream = run.stream
    BY <1>1, <1>4 DEF RunReturnsNil, RunReturnsError, SpawnRun, LoopRunDone, RunRecords, Roomy, At
  <2>3. StreamTells'
    BY <2>1, <2>2 DEF StreamTells
  <2>4. RunExit => run.exit = None /\ ~run.wrong /\ run'.exit # None
    BY <1>2
  <2> QED
    BY <2>1, <2>3, <2>4 DEF Erred
<1>5. CASE UNCHANGED run /\ ~RunExit
  BY <1>5 DEF StreamTells, Erred
<1>6. \/ RunExit \/ RunStarted \/ RunLine \/ RunLast \/ RunReturnsNil \/ RunReturnsError \/ SpawnRun
      \/ LoopRunDone \/ UNCHANGED run
  BY DEF Next, TaskNext, LoopNext, RunNext, ClientNext, FlushSend, CreateFails, Create, Prepare,
     StartFails, Start, LoopHealth, LoopNote, Resend, LoopStateChanged, LoopTimeout,
     LoopCancelled, Confirm, StopWorker, Unregister, ReleaseSlot, ClientReads, ReaderStalls,
     ClientLeaves, ReaderReturns, AddTaskAnnounces
<1> QED
  BY <1>2, <1>3, <1>4, <1>5, <1>6

\* What the loop does with a HEALTH message it accepts or refuses.
LEMMA HealthMoves ==
    ASSUME Types, StateKnown, LoopHealth
    PROVE  /\ task.pc = "loop" /\ task.state = "RUNNING" /\ out # <<>> /\ Head(out) \in RemoteHealth
           /\ Head(out) = "ERROR" => task'.pc = "confirm"
           /\ db' = db \/ db' = ConvertHealth(Head(out))
           /\ out' = Tail(out) /\ UNCHANGED <<run, client>>
<1>1. /\ task.pc = "loop" /\ task.state = "RUNNING" /\ out # <<>> /\ Head(out) \in RemoteHealth
      /\ out' = Tail(out) /\ UNCHANGED <<run, client>>
  BY DEF LoopHealth, At, StateKnown
<1>2. PICK fails \in BOOLEAN :
        LET status == Head(out)
            set == SetState(task.state, status, fails)
        IN  IF ~set.ok
            THEN task' = task /\ db' = db
            ELSE /\ Store(ConvertHealth(status))
                 /\ task' = [AfterSetState(status, fails) EXCEPT
                               !.sending = Announcement(status),
                               !.pc = IF Completes(status) THEN "confirm" ELSE "loop"]
  BY DEF LoopHealth
<1>3. db' = db \/ db' = ConvertHealth(Head(out))
  BY <1>2 DEF Store
<1>4. ASSUME Head(out) = "ERROR"
      PROVE  task'.pc = "confirm"
  <2>1. SetState(task.state, Head(out), fails).ok
    BY <1>1, <1>4 DEF SetState, Transitions, StopWorkerTransitions
  <2> DEFINE t == AfterSetState("ERROR", fails)
             m == Announcement(Head(out))
  <2>2. task' = [t EXCEPT !.sending = m, !.pc = IF Completes("ERROR") THEN "confirm" ELSE "loop"]
    BY <1>2, <1>4, <2>1
  <2>3. Completes("ERROR")
    BY DEF Completes, FinalHealth
  <2>4. t \in TaskRecords
    BY AfterSetStateEffect DEF Types, TaskGood, HealthStatus
  <2> HIDE DEF t, m
  <2> QED
    BY <2>2, <2>3, <2>4 DEF TaskRecords
<1> QED
  BY <1>1, <1>3, <1>4

\* What the websocket goroutine took it keeps.
LEMMA TookStays ==
    ASSUME Types, Next
    PROVE  /\ client.took => client'.took
           /\ (ClientReads \/ ReaderStalls) /\ Head(out) = "ERROR" => client'.took
<1>1. client \in ClientRecords
  BY DEF Types
<1>2. CASE ClientReads \/ ReaderStalls
  BY <1>1, <1>2 DEF ClientReads, ReaderStalls, ClientRecords
<1>3. CASE UNCHANGED client \/ ClientLeaves \/ ReaderReturns \/ AddTaskAnnounces
  <2>1. client.took => client'.took
    BY <1>1, <1>3 DEF ClientLeaves, ReaderStalls, ReaderReturns, AddTaskAnnounces, ClientRecords
  <2> QED
    BY <1>2, <2>1
<1>4. \/ UNCHANGED client \/ ClientReads \/ ReaderStalls
      \/ ClientLeaves \/ ReaderReturns \/ AddTaskAnnounces
  BY DEF Next, TaskNext, LoopNext, RunNext, ClientNext, FlushSend, CreateFails, Create, Prepare,
     StartFails, Start, SpawnRun, LoopRunDone, LoopHealth, LoopNote, Resend, LoopStateChanged,
     LoopTimeout, LoopCancelled, Confirm, StopWorker, Unregister, ReleaseSlot, RunStarted,
     RunLine, RunExit, RunLast, RunReturnsNil, RunReturnsError, Forward
<1> QED
  BY <1>2, <1>3, <1>4

\* The task begins to wait before anything is known of the process.
LEMMA WaitingBegins ==
    ASSUME Types, Roomy, StreamTells, Next, Waiting', Erred
    PROVE  Waiting
<1>1. Moved(task, task')
  BY TaskMoves
<1>2. ~SpawnRun
  BY DEF SpawnRun, At, Roomy, StreamTells, Erred, None
<1> QED
  BY <1>1, <1>2 DEF Moved, Waiting, At, LoopHealth, LoopNote, Resend, LoopStateChanged

\* What a channel tells it tells when its head was received, by the websocket goroutine if that
\* was the ERROR.
LEMMA ToldAfterReceive ==
    ASSUME NEW q \in Seq(Messages), NEW took \in BOOLEAN, NEW took2 \in BOOLEAN, q # <<>>,
           Told(q, took), took \/ Head(q) = "ERROR" => took2
    PROVE  Told(Tail(q), took2)
<1>1. /\ Head(q) = q[1] /\ Len(q) \in Nat \ {0} /\ Len(Tail(q)) = Len(q) - 1
      /\ \A i \in 1..Len(Tail(q)) : Tail(q)[i] = q[i + 1]
  BY ChannelEffect
<1>2. CASE took2
  BY <1>2 DEF Told
<1>3. CASE ~took2
  <2>1. ~took /\ q[1] # "ERROR"
    BY <1>1, <1>3
  <2>2. ASSUME NEW k \in 1..(Len(q) + 1), \E j \in 1..(k - 1) : q[j] = "ERROR"
        PROVE  \E j \in 1..((k - 1) - 1) : Tail(q)[j] = "ERROR"
    <3>1. PICK j \in 1..(k - 1) : q[j] = "ERROR"
      BY <2>2
    <3>2. j # 1 /\ j - 1 \in 1..((k - 1) - 1) /\ j - 1 \in 1..Len(Tail(q))
      BY <1>1, <2>1, <3>1
    <3>3. Tail(q)[j - 1] = q[(j - 1) + 1] /\ (j - 1) + 1 = j
      BY <1>1, <3>2
    <3> QED
      BY <3>1, <3>2, <3>3
  <2>3. \E j \in 1..Len(Tail(q)) : Tail(q)[j] = "ERROR"
    <3>1. \E j \in 1..((Len(q) + 1) - 1) : q[j] = "ERROR"
      BY <1>1, <2>1 DEF Told
    <3>2. \E j \in 1..(((Len(q) + 1) - 1) - 1) : Tail(q)[j] = "ERROR"
      BY <1>1, <2>2, <3>1
    <3> QED
      BY <1>1, <3>2
  <2>4. ASSUME NEW i \in 1..Len(Tail(q)), Tail(q)[i] = "FINISHED"
        PROVE  \E j \in 1..(i - 1) : Tail(q)[j] = "ERROR"
    <3>1. i + 1 \in 1..Len(q) /\ q[i + 1] = "FINISHED"
      BY <1>1, <2>4
    <3>2. \E j \in 1..((i + 1) - 1) : q[j] = "ERROR"
      BY <2>1, <3>1 DEF Told
    <3>3. \E j \in 1..(((i + 1) - 1) - 1) : Tail(q)[j] = "ERROR"
      BY <1>1, <2>2, <3>1, <3>2
    <3> QED
      BY <3>3
  <2> QED
    BY <2>3, <2>4 DEF Told
<1> QED
  BY <1>2, <1>3

\* What a channel tells it tells when a message was added, and a channel without a FINISHED tells
\* of an ERROR that is added.
LEMMA ToldAfterSend ==
    ASSUME NEW q \in Seq(Messages), NEW took \in BOOLEAN, NEW took2 \in BOOLEAN,
           NEW m \in Messages, took => took2,
           \/ Told(q, took)
           \/ m = "ERROR" /\ \A i \in 1..Len(q) : q[i] # "FINISHED"
    PROVE  Told(Append(q, m), took2)
<1> DEFINE a == Append(q, m)
<1>1. /\ Len(q) \in Nat /\ Len(a) = Len(q) + 1 /\ a[Len(q) + 1] = m
      /\ \A i \in 1..Len(q) : a[i] = q[i]
  BY ChannelEffect
<1> HIDE DEF a
<1>2. CASE Told(q, took)
  <2>1. took2 \/ \E j \in 1..Len(a) : a[j] = "ERROR"
    BY <1>1, <1>2 DEF Told
  <2>2. ASSUME NEW i \in 1..Len(a), a[i] = "FINISHED", ~took2
        PROVE  \E j \in 1..(i - 1) : a[j] = "ERROR"
    <3>1. CASE i = Len(q) + 1
      <4>1. PICK j \in 1..Len(q) : q[j] = "ERROR"
        BY <1>2, <2>2 DEF Told
      <4> QED
        BY <1>1, <3>1, <4>1
    <3>2. CASE i \in 1..Len(q)
      <4>1. PICK j \in 1..(i - 1) : q[j] = "ERROR"
        BY <1>1, <1>2, <2>2, <3>2 DEF Told
      <4> QED
        BY <1>1, <3>2, <4>1
    <3> QED
      BY <1>1, <3>1, <3>2
  <2> QED
    BY <2>1, <2>2 DEF Told, a
<1>3. CASE m = "ERROR" /\ \A i \in 1..Len(q) : q[i] # "FINISHED"
  <2>1. \E j \in 1..Len(a) : a[j] = "ERROR"
    BY <1>1, <1>3
  <2>2. \A i \in 1..Len(a) : a[i] # "FINISHED"
    BY <1>1, <1>3
  <2> QED
    BY <2>1, <2>2 DEF Told, a
<1> QED
  BY <1>2, <1>3

\* The channel goes on telling of the exit what it should.
LEMMA ChannelStays ==
    ASSUME Types, Roomy, StateKnown, StreamTells, ChannelTells, Next
    PROVE  ChannelTells'
<1>1. out \in Seq(Messages) /\ Len(out) \in Nat
  BY DEF Types
<1>2. /\ ~RunExit => run'.exit = run.exit /\ run'.wrong = run.wrong
      /\ RunExit => run.exit = None /\ ~run.wrong /\ run'.exit # None
      /\ Erred => Erred'
      /\ run.exit # None => run'.exit # None
  BY ExitMoves
<1>3. ~RunExit => (Erred' <=> Erred)
  BY <1>2 DEF Erred
<1>4. client.took \in BOOLEAN /\ client'.took \in BOOLEAN /\ (client.took => client'.took)
  BY TookStays, TypesAreInductive DEF Types, ClientRecords
<1>5. Waiting' /\ Erred => Waiting /\ Told(out, client.took)
  BY WaitingBegins DEF ChannelTells
<1>6. CASE UNCHANGED out
  <2>1. ~RunExit
    <3>1. RunExit => \E m \in Messages : out' = Append(out, m)
      BY DEF RunExit, Forward, Messages, RemoteHealth
    <3> QED
      BY <1>1, <1>6, <3>1, ChannelEffect
  <2>2. Told(out, client.took) => Told(out, client'.took)
    BY <1>4 DEF Told
  <2>3. Waiting' /\ Erred' => Told(out, client'.took)
    BY <1>3, <1>5, <2>1, <2>2
  <2> QED
    BY <1>2, <1>6, <2>1, <2>3 DEF ChannelTells
<1>7. CASE /\ out # <<>> /\ out' = Tail(out) /\ UNCHANGED run
           /\ ClientReads \/ ReaderStalls \/ LoopHealth \/ Head(out) \notin RemoteHealth
  <2>1. /\ Len(out') \in Nat /\ Len(out') = Len(out) - 1 /\ Head(out) = out[1]
        /\ \A i \in 1..Len(out') : out'[i] = out[i + 1]
    BY <1>1, <1>7, ChannelEffect
  <2>2. Erred' <=> Erred
    BY <1>7 DEF Erred
  <2>3. ASSUME Waiting', Erred'
        PROVE  Told(out', client'.took)
    <3>1. Head(out) = "ERROR" => client'.took
      <4>1. Head(out) = "ERROR" => ~LoopHealth
        BY <2>3, HealthMoves DEF Waiting
      <4>2. Head(out) = "ERROR" => Head(out) \in RemoteHealth
        BY DEF RemoteHealth
      <4> QED
        BY <1>7, <4>1, <4>2, TookStays
    <3> QED
      BY <1>1, <1>4, <1>5, <1>7, <2>2, <2>3, <3>1, ToldAfterReceive
  <2>4. /\ \A i \in 1..Len(out') : out'[i] = "ERROR" => Erred'
        /\ \A i \in 1..Len(out') : out'[i] = "FINISHED" => run'.exit # None
    BY <1>1, <1>7, <2>1, <2>2 DEF ChannelTells
  <2> QED
    BY <2>3, <2>4 DEF ChannelTells
<1>8. ASSUME NEW m \in Messages, out' = Append(out, m),
             m = "ERROR" => Erred',
             m = "FINISHED" => run'.exit # None,
             Erred' => Erred \/ (m = "ERROR" /\ run.exit = None)
      PROVE  ChannelTells'
  <2>1. /\ Len(out') = Len(out) + 1 /\ out'[Len(out) + 1] = m
        /\ \A i \in 1..Len(out) : out'[i] = out[i]
    BY <1>1, <1>8, ChannelEffect
  <2>2. /\ \A i \in 1..Len(out') : out'[i] = "ERROR" => Erred'
        /\ \A i \in 1..Len(out') : out'[i] = "FINISHED" => run'.exit # None
    BY <1>1, <1>2, <1>8, <2>1 DEF ChannelTells
  <2>3. ASSUME Waiting', Erred'
        PROVE  Told(out', client'.took)
    <3>1. \/ Told(out, client.took)
          \/ m = "ERROR" /\ \A i \in 1..Len(out) : out[i] # "FINISHED"
      BY <1>5, <1>8, <2>3 DEF ChannelTells
    <3> QED
      BY <1>1, <1>4, <1>8, <3>1, ToldAfterSend
  <2> QED
    BY <2>2, <2>3 DEF ChannelTells
<1>9. CASE UNCHANGED run /\ (\E m \in {"note", "final"} : out' = Append(out, m))
  <2>1. Erred' => Erred
    BY <1>9 DEF Erred
  <2>2. PICK m \in {"note", "final"} : out' = Append(out, m)
    BY <1>9
  <2>3. /\ m \in Messages
        /\ m = "ERROR" => Erred'
        /\ m = "FINISHED" => run'.exit # None
    BY <2>2 DEF Messages
  <2> QED
    BY <1>8, <2>1, <2>2, <2>3
<1>10. CASE RunStarted \/ RunLine \/ RunLast
  <2>1. run \in RunRecords
    BY DEF Types
  <2>2. run'.exit = run.exit /\ run'.wrong = run.wrong
    BY <1>10, <2>1 DEF RunStarted, RunLine, RunLast, Forward, RunRecords
  <2>3. PICK m \in {"RUNNING", "note", "FINISHED"} :
          out' = Append(out, m) /\ (m = "FINISHED" => run.exit # None)
    BY <1>10 DEF RunStarted, RunLine, RunLast, Forward, StreamTells
  <2>4. Erred' => Erred
    BY <2>2 DEF Erred
  <2>5. /\ m \in Messages
        /\ m = "ERROR" => Erred'
        /\ m = "FINISHED" => run'.exit # None
    BY <2>2, <2>3 DEF Messages, RemoteHealth
  <2> QED
    BY <1>8, <2>3, <2>4, <2>5
<1>11. CASE RunExit
  <2>1. run \in RunRecords /\ run.exit = None /\ ~run.wrong /\ run'.exit # None
    BY <1>2, <1>11 DEF Types
  <2>2. \/ out' = Append(out, "FINISHED") /\ run'.exit = "ok" /\ run'.wrong = run.wrong
        \/ out' = Append(out, "ERROR") /\ (run'.exit = "fail" \/ run'.wrong)
    BY <1>11, <2>1 DEF RunExit, Forward, RunRecords
  <2>3. CASE out' = Append(out, "FINISHED") /\ run'.exit = "ok" /\ run'.wrong = run.wrong
    <3>1. ~Erred'
      BY <2>1, <2>3 DEF Erred
    <3> QED
      BY <1>8, <2>1, <2>3, <3>1 DEF Messages, RemoteHealth
  <2>4. CASE out' = Append(out, "ERROR") /\ (run'.exit = "fail" \/ run'.wrong)
    <3>1. Erred'
      BY <2>4 DEF Erred
    <3> QED
      BY <1>8, <2>1, <2>4, <3>1 DEF Messages, RemoteHealth
  <2> QED
    BY <2>2, <2>3, <2>4
<1> QED
  BY <1>6, <1>7, <1>9, <1>10, <1>11, OutMoves

\* The outcome stored goes on being the one the process had.
LEMMA OutcomeStays ==
    ASSUME Types, Roomy, StateKnown, StreamTells, ChannelTells, OutcomeIsOfTheProcess, Next
    PROVE  OutcomeIsOfTheProcess'
<1>1. /\ run \in RunRecords /\ client \in ClientRecords /\ out \in Seq(Messages)
  BY DEF Types
<1>2. /\ ~RunExit => run'.exit = run.exit /\ run'.wrong = run.wrong
      /\ RunExit => run.exit = None /\ ~run.wrong /\ run'.exit # None
      /\ client.took => client'.took
  BY ExitMoves, TookStays
<1>3. CASE UNCHANGED db
  BY <1>2, <1>3 DEF OutcomeIsOfTheProcess, None
<1>4. CASE LoopHealth
  <2>1. /\ task.pc = "loop" /\ out # <<>> /\ Head(out) \in RemoteHealth
        /\ db' = db \/ db' = ConvertHealth(Head(out))
        /\ UNCHANGED <<run, client>>
    BY <1>4, HealthMoves
  <2>2. Head(out) = out[1] /\ 1 \in 1..Len(out)
    BY <1>1, <2>1, ChannelEffect
  <2>3. CASE db' = "Failed" /\ Head(out) = "ERROR"
    BY <2>1, <2>2, <2>3 DEF ChannelTells, Erred, OutcomeIsOfTheProcess
  <2>4. CASE db' = "Completed" /\ Head(out) = "FINISHED"
    <3>1. run.exit # None
      BY <2>2, <2>4 DEF ChannelTells
    <3>2. Erred => client.took
      <4>1. Erred => client.took \/ \E j \in 1..(1 - 1) : out[j] = "ERROR"
        BY <2>1, <2>2, <2>4 DEF ChannelTells, Waiting, Told
      <4> QED
        BY <4>1
    <3>3. run.exit \in {"ok", "fail"}
      BY <1>1, <3>1 DEF RunRecords
    <3> QED
      BY <2>1, <2>4, <3>1, <3>2, <3>3 DEF Erred, OutcomeIsOfTheProcess
  <2>5. \/ db' = db \/ db' \notin {"Failed", "Completed"}
        \/ db' = "Failed" /\ Head(out) = "ERROR"
        \/ db' = "Completed" /\ Head(out) = "FINISHED"
    BY <2>1 DEF ConvertHealth, RemoteHealth
  <2> QED
    BY <1>3, <2>3, <2>4, <2>5 DEF OutcomeIsOfTheProcess
<1>5. UNCHANGED db \/ LoopHealth
  BY DEF Next, TaskNext, LoopNext, RunNext, ClientNext, FlushSend, CreateFails, Create, Prepare,
     StartFails, Start, SpawnRun, LoopRunDone, LoopNote, Resend, LoopStateChanged, LoopTimeout,
     LoopCancelled, Confirm, StopWorker, Unregister, ReleaseSlot, RunStarted, RunLine, RunExit,
     RunLast, RunReturnsNil, RunReturnsError, Forward, ClientReads, ReaderStalls, ClientLeaves,
     ReaderReturns, AddTaskAnnounces
<1> QED
  BY <1>3, <1>4, <1>5

\* The outcome the manager stores is the one the process had, unless the executor told a wrong
\* one or the websocket goroutine took the ERROR.
THEOREM StoredOutcomeIsOfTheProcess == Spec => []OutcomeIsOfTheProcess
<1>1. Init => OutcomeInv
  BY DEF Init, OutcomeInv, StreamTells, ChannelTells, OutcomeIsOfTheProcess, Waiting, Erred, None
<1>2. Types /\ LifeInv /\ OutcomeInv /\ [Next]_vars => OutcomeInv'
  <2> SUFFICES ASSUME Types, LifeInv, OutcomeInv, [Next]_vars PROVE OutcomeInv'
    OBVIOUS
  <2>1. CASE Next
    BY <2>1, ExitMoves, ChannelStays, OutcomeStays DEF OutcomeInv, LifeInv
  <2>2. CASE UNCHANGED vars
    BY <2>2 DEF vars, OutcomeInv, StreamTells, ChannelTells, OutcomeIsOfTheProcess, Waiting,
       Erred, Told
  <2> QED
    BY <2>1, <2>2
<1>3. OutcomeInv => OutcomeIsOfTheProcess
  BY DEF OutcomeInv
<1> QED
  BY <1>1, <1>2, <1>3, LifeHolds, PTL DEF Spec
=============================================================================
