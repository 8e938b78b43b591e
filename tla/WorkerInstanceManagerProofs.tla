-------------------- MODULE WorkerInstanceManagerProofs --------------------
(***************************************************************************)
(* Proofs about WorkerInstanceManager, for every finite set of tasks and   *)
(* every number of slots.  The inductive invariant is the conjunction of   *)
(* the three invariants: the type of wedged and of the dispatcher's hand   *)
(* needs PlacedOnce (the task that starts had not started), and so does    *)
(* SlotConservation (one more holder for the token taken).                 *)
(***************************************************************************)
EXTENDS WorkerInstanceManager, SequenceTheorems, FiniteSetTheorems, TLAPS

IInv == TypeOK /\ PlacedOnce /\ SlotConservation

\* The tasks that have been accepted and have not started.
Accepted == {t \in Tasks : phase[t] = "accepted"}

-----------------------------------------------------------------------------
(* Sequences without repetition *)

\* Appending a new element (AddTask to taskQueue, Defer to pendingTasks) repeats none.
LEMMA AppendNew ==
    ASSUME NEW S, NEW s \in Seq(S), NEW e \in S, IsInjective(s), e \notin Range(s)
    PROVE  /\ IsInjective(Append(s, e))
           /\ Range(Append(s, e)) = Range(s) \cup {e}
<1> DEFINE a == Append(s, e)
<1>1. /\ a \in Seq(S) /\ Len(a) = Len(s) + 1
      /\ \A i \in 1..Len(s) : a[i] = s[i]
      /\ a[Len(s) + 1] = e
  BY AppendProperties
<1>2. DOMAIN s = 1..Len(s) /\ DOMAIN a = 1..(Len(s) + 1) /\ Len(s) \in Nat
  BY <1>1, LenProperties
<1> HIDE DEF a
<1>3. IsInjective(a)
  BY <1>1, <1>2 DEF IsInjective, Range
<1>4. Range(a) = Range(s) \cup {e}
  BY <1>1, <1>2 DEF Range
<1> QED BY <1>3, <1>4 DEF a

\* Receiving the head (from taskQueue, or from pendingTasks) leaves it nowhere in the rest.
LEMMA TailOfInjective ==
    ASSUME NEW S, NEW s \in Seq(S), s # <<>>, IsInjective(s)
    PROVE  /\ Head(s) \in S /\ Head(s) \in Range(s)
           /\ Tail(s) \in Seq(S) /\ Len(Tail(s)) <= Len(s)
           /\ IsInjective(Tail(s))
           /\ Range(Tail(s)) = Range(s) \ {Head(s)}
<1> DEFINE r == Tail(s)
<1>1. /\ Head(s) \in S /\ r \in Seq(S) /\ Len(r) = Len(s) - 1
      /\ \A i \in 1..Len(r) : r[i] = s[i + 1]
  BY HeadTailProperties
<1>2. DOMAIN s = 1..Len(s) /\ DOMAIN r = 1..Len(r) /\ Len(s) \in Nat \ {0} /\ Len(r) \in Nat
  BY <1>1, LenProperties, EmptySeq
<1>3. Head(s) = s[1]
  OBVIOUS
<1> HIDE DEF r
<1>4. IsInjective(r)
  BY SMTT(60), <1>1, <1>2 DEF IsInjective
<1>5. Range(r) \subseteq Range(s) \ {Head(s)}
  BY <1>1, <1>2, <1>3 DEF IsInjective, Range
<1>6. ASSUME NEW x \in Range(s), x # Head(s) PROVE x \in Range(r)
  <2>1. PICK i \in 1..Len(s) : s[i] = x
    BY <1>2 DEF Range
  <2>2. i - 1 \in 1..Len(r) /\ r[i - 1] = x
    BY <1>1, <1>2, <1>3, <1>6, <2>1
  <2> QED BY <1>2, <2>2 DEF Range
<1>7. Head(s) \in Range(s)
  BY <1>2, <1>3 DEF Range
<1> QED BY <1>1, <1>2, <1>4, <1>5, <1>6, <1>7 DEF r

-----------------------------------------------------------------------------
(* The tokens held by tasks *)

\* The holders of a token can be counted.
LEMMA HoldersFinite ==
    IsFiniteSet(Holders) /\ Cardinality(Holders) \in Nat
BY TasksAssumption, FS_Subset, FS_CardinalityType DEF Holders

\* A task that starts is one more holder ...
LEMMA HolderAdded ==
    ASSUME phase \in [Tasks -> Phases], NEW t \in Tasks, phase[t] = "accepted",
           SetPhase(t, "admitted")
    PROVE  /\ Holders' = Holders \cup {t} /\ t \notin Holders
           /\ Cardinality(Holders') = Cardinality(Holders) + 1
<1>1. Holders' = Holders \cup {t} /\ t \notin Holders
  BY DEF Holders, SetPhase
<1> QED BY <1>1, HoldersFinite, FS_AddElement

\* ... one that ends is one less ...
LEMMA HolderRemoved ==
    ASSUME phase \in [Tasks -> Phases], NEW t \in Tasks, phase[t] = "unregistered",
           SetPhase(t, "ended")
    PROVE  /\ Holders' = Holders \ {t} /\ t \in Holders
           /\ Cardinality(Holders') = Cardinality(Holders) - 1
<1>1. Holders' = Holders \ {t} /\ t \in Holders
  BY DEF Holders, SetPhase
<1> QED BY <1>1, HoldersFinite, FS_RemoveElement

\* ... and any other change of phase leaves them as they are.
LEMMA HoldersKept ==
    ASSUME phase \in [Tasks -> Phases], NEW t \in Tasks, NEW p,
           SetPhase(t, p),
           phase[t] \in {"admitted", "registered", "unregistered"}
             <=> p \in {"admitted", "registered", "unregistered"}
    PROVE  Holders' = Holders
BY DEF Holders, SetPhase

-----------------------------------------------------------------------------
(* IInv is inductive *)

\* NewWorkerInstanceManager: all tokens in the channel, no task anywhere.
LEMMA InitIInv == Init => IInv
<1> SUFFICES ASSUME Init PROVE IInv
  OBVIOUS
<1> USE TasksAssumption, MaxConcurrentAssumption, QueueCapAssumption DEF Init
<1>1. TypeOK
  BY EmptySeq DEF TypeOK, Phases, Notices
<1>2. PlacedOnce
  BY DEF PlacedOnce, Held, IsInjective, Range
<1>3. SlotConservation
  <2>1. Holders = {}
    BY DEF Holders
  <2>2. Cardinality(Holders) = 0
    BY <2>1, FS_EmptySet
  <2> QED BY <2>2 DEF SlotConservation, SlotInHand
<1> QED BY <1>1, <1>2, <1>3 DEF IInv

\* The steps of AddTask: a task enters the queue, and is announced or not.
LEMMA AddTaskKeepsIInv ==
    ASSUME IInv, NEW t \in Tasks,
           CallAddTask(t) \/ AddTask(t) \/ AnnounceQueued(t) \/ OutputJams(t)
    PROVE  IInv'
<1> USE DEF IInv
<1>1. CASE CallAddTask(t)
  <2> USE <1>1 DEF CallAddTask, SetPhase
  <2>1. TypeOK'
    BY DEF TypeOK, Phases
  <2>2. PlacedOnce'
    BY DEF PlacedOnce, Held, TypeOK
  <2>3. Holders' = Holders
    BY HoldersKept DEF TypeOK
  <2>4. SlotConservation'
    BY <2>3 DEF SlotConservation, SlotInHand
  <2> QED BY <2>1, <2>2, <2>4
<1>2. CASE AddTask(t)
  <2> USE <1>2 DEF AddTask, SetPhase
  <2>1. t \notin Range(taskQueue) /\ t \notin Held /\ t \notin Range(pendingTasks)
    BY DEF PlacedOnce
  <2>2. IsInjective(taskQueue') /\ Range(taskQueue') = Range(taskQueue) \cup {t}
    BY <2>1, AppendNew DEF TypeOK, PlacedOnce
  <2>3. TypeOK'
    <3>1. notice' \in [Tasks -> Notices]
      BY DEF TypeOK, Notices
    <3>2. phase' \in [Tasks -> Phases] /\ wedged' \subseteq {u \in Tasks : phase'[u] = "registered"}
      BY DEF TypeOK, Phases
    <3>3. taskQueue' \in Seq(Tasks) /\ Len(taskQueue') <= QueueCap
      BY AppendProperties, LenProperties, QueueCapAssumption DEF TypeOK
    <3> QED
      BY <3>1, <3>2, <3>3 DEF TypeOK
  <2>4. Accepted' = Accepted \cup {t}
    BY DEF Accepted, TypeOK
  <2>5. PlacedOnce'
    BY <2>1, <2>2, <2>4 DEF PlacedOnce, Held, Accepted
  <2>6. Holders' = Holders
    BY HoldersKept DEF TypeOK
  <2>7. SlotConservation'
    BY <2>6 DEF SlotConservation, SlotInHand
  <2> QED BY <2>3, <2>5, <2>7
<1>3. CASE AnnounceQueued(t) \/ OutputJams(t)
  <2> USE <1>3 DEF AnnounceQueued, OutputJams
  <2>1. TypeOK'
    BY DEF TypeOK, Notices
  <2>2. PlacedOnce'
    BY DEF PlacedOnce, Held
  <2>3. SlotConservation'
    BY DEF SlotConservation, SlotInHand, Holders
  <2> QED BY <2>1, <2>2, <2>3
<1> QED BY <1>1, <1>2, <1>3

\* The steps of the dispatcher: a task moves from one place to the next, or starts.
LEMMA DispatcherKeepsIInv == IInv /\ DispatcherNext => IInv'
<1> SUFFICES ASSUME IInv, DispatcherNext PROVE IInv'
  OBVIOUS
<1> USE DEF IInv
<1>1. CASE DispatcherExit
  BY <1>1 DEF DispatcherExit, Selecting, TypeOK, PlacedOnce, Held, SlotConservation,
              SlotInHand, Holders
<1>2. CASE Receive
  <2> USE <1>2 DEF Receive, Selecting
  <2> DEFINE t == Head(taskQueue)
  <2>1. /\ t \in Tasks /\ t \in Range(taskQueue)
        /\ taskQueue' \in Seq(Tasks) /\ Len(taskQueue') <= Len(taskQueue)
        /\ IsInjective(taskQueue')
        /\ Range(taskQueue') = Range(taskQueue) \ {t}
    BY TailOfInjective DEF TypeOK, PlacedOnce
  <2>2. Held = {} /\ Held' = {t}
    BY DEF Held, TypeOK
  <2>3. TypeOK'
    BY <2>1, LenProperties, QueueCapAssumption DEF TypeOK
  <2>4. PlacedOnce'
    BY <2>1, <2>2 DEF PlacedOnce
  <2>5. SlotConservation'
    BY DEF SlotConservation, SlotInHand, Holders, TypeOK
  <2> QED BY <2>3, <2>4, <2>5
<1>3. CASE AdmitReceived
  <2> USE <1>3 DEF AdmitReceived
  <2> DEFINE t == dispatcher.hand
  <2>1. t \in Tasks /\ phase[t] = "accepted" /\ Held = {t} /\ Held' = {}
    BY DEF PlacedOnce, Held
  <2>2. TypeOK'
    BY <2>1, MaxConcurrentAssumption DEF TypeOK, SlotFree, TakeSlot, SetPhase, Phases
  <2>3. Accepted' = Accepted \ {t}
    BY <2>1 DEF Accepted, TypeOK, SetPhase
  <2>4. PlacedOnce'
    BY <2>1, <2>3 DEF PlacedOnce, Accepted
  <2>5. Cardinality(Holders') = Cardinality(Holders) + 1
    BY <2>1, HolderAdded DEF TypeOK
  <2>6. SlotConservation'
    BY <2>5, HoldersFinite, MaxConcurrentAssumption
    DEF SlotConservation, SlotInHand, TypeOK, SlotFree, TakeSlot
  <2> QED BY <2>2, <2>4, <2>6
<1>4. CASE Defer
  <2> USE <1>4 DEF Defer
  <2> DEFINE t == dispatcher.hand
  <2>1. t \in Tasks /\ phase[t] = "accepted" /\ Held = {t} /\ Held' = {}
    BY DEF PlacedOnce, Held
  <2>2. t \notin Range(taskQueue) /\ t \notin Range(pendingTasks)
    BY <2>1 DEF PlacedOnce
  <2>3. IsInjective(pendingTasks') /\ Range(pendingTasks') = Range(pendingTasks) \cup {t}
    BY <2>1, <2>2, AppendNew DEF TypeOK, PlacedOnce
  <2>4. TypeOK'
    BY <2>1, AppendProperties DEF TypeOK
  <2>5. PlacedOnce'
    BY <2>1, <2>2, <2>3 DEF PlacedOnce
  <2>6. SlotConservation'
    BY DEF SlotConservation, SlotInHand, Holders
  <2> QED BY <2>4, <2>5, <2>6
<1>5. CASE AdmitPending
  <2> USE <1>5 DEF AdmitPending, Selecting
  <2> DEFINE t == Head(pendingTasks)
  <2>1. /\ t \in Tasks /\ t \in Range(pendingTasks)
        /\ pendingTasks' \in Seq(Tasks)
        /\ IsInjective(pendingTasks')
        /\ Range(pendingTasks') = Range(pendingTasks) \ {t}
    BY TailOfInjective DEF TypeOK, PlacedOnce
  <2>2. phase[t] = "accepted" /\ t \notin Range(taskQueue) /\ Held = {} /\ Held' = {}
    BY <2>1 DEF PlacedOnce, Held
  <2>3. TypeOK'
    BY <2>1, <2>2, MaxConcurrentAssumption DEF TypeOK, SlotFree, TakeSlot, SetPhase, Phases
  <2>4. Accepted' = Accepted \ {t}
    BY <2>1, <2>2 DEF Accepted, TypeOK, SetPhase
  <2>5. PlacedOnce'
    BY <2>1, <2>2, <2>4 DEF PlacedOnce, Accepted
  <2>6. Cardinality(Holders') = Cardinality(Holders) + 1
    BY <2>1, <2>2, HolderAdded DEF TypeOK
  <2>7. SlotConservation'
    BY <2>6, HoldersFinite, MaxConcurrentAssumption
    DEF SlotConservation, SlotInHand, TypeOK, SlotFree, TakeSlot
  <2> QED BY <2>3, <2>5, <2>7
<1>6. CASE TakeIdleSlot
  <2> USE <1>6 DEF TakeIdleSlot, Selecting
  <2>1. TypeOK'
    BY MaxConcurrentAssumption DEF TypeOK, SlotFree, TakeSlot
  <2>2. PlacedOnce'
    BY DEF PlacedOnce, Held, TypeOK
  <2>3. SlotConservation'
    BY HoldersFinite, MaxConcurrentAssumption
    DEF SlotConservation, SlotInHand, Holders, TypeOK, TakeSlot
  <2> QED BY <2>1, <2>2, <2>3
<1>7. CASE PutBack
  <2> USE <1>7 DEF PutBack
  <2>1. TypeOK'
    BY SMTT(60), MaxConcurrentAssumption DEF TypeOK, GiveSlot
  <2>2. PlacedOnce'
    BY DEF PlacedOnce, Held, TypeOK
  <2>3. SlotConservation'
    BY HoldersFinite, MaxConcurrentAssumption
    DEF SlotConservation, SlotInHand, Holders, TypeOK, GiveSlot
  <2> QED BY <2>1, <2>2, <2>3
<1> QED BY <1>1, <1>2, <1>3, <1>4, <1>5, <1>6, <1>7 DEF DispatcherNext

\* The steps of a running task, up to its last, which returns its token.
LEMMA TaskKeepsIInv ==
    ASSUME IInv, NEW t \in Tasks, TaskProgress(t) \/ Wedge(t)
    PROVE  IInv'
<1> USE DEF IInv
<1>1. ASSUME NEW p \in {"registered", "unregistered"}, SetPhase(t, p),
             phase[t] \in {"admitted", "registered"},
             p = "registered" => phase[t] = "admitted",
             t \notin wedged,
             UNCHANGED <<notice, wedged, taskQueue, pendingTasks, workerSlots, dispatcher,
                         manager, stop>>
      PROVE  IInv'
  <2> USE <1>1
  <2>1. TypeOK'
    BY DEF TypeOK, Phases, SetPhase
  <2>2. Accepted' = Accepted
    BY DEF Accepted, TypeOK, SetPhase
  <2>3. PlacedOnce'
    BY <2>2 DEF PlacedOnce, Accepted, Held
  <2>4. Holders' = Holders
    BY HoldersKept DEF TypeOK
  <2>5. SlotConservation'
    BY <2>4 DEF SlotConservation, SlotInHand
  <2> QED BY <2>1, <2>3, <2>5
<1>2. CASE Register(t)
  BY <1>1, <1>2 DEF Register, TypeOK
<1>3. CASE CreateFails(t)
  BY <1>1, <1>3 DEF CreateFails, TypeOK
<1>4. CASE Unregister(t)
  BY <1>1, <1>4 DEF Unregister
<1>5. CASE ReleaseSlot(t)
  <2> USE <1>5 DEF ReleaseSlot
  <2>1. TypeOK'
    BY MaxConcurrentAssumption DEF TypeOK, Phases, SetPhase, GiveSlot
  <2>2. Accepted' = Accepted
    BY DEF Accepted, TypeOK, SetPhase
  <2>3. PlacedOnce'
    BY <2>2 DEF PlacedOnce, Accepted, Held
  <2>4. Cardinality(Holders') = Cardinality(Holders) - 1
    BY HolderRemoved DEF TypeOK
  <2>5. SlotInHand' = SlotInHand /\ SlotInHand \in {0, 1}
    BY DEF SlotInHand
  <2>6. workerSlots' = workerSlots + 1 /\ workerSlots \in Nat
    BY MaxConcurrentAssumption DEF GiveSlot, TypeOK
  <2>7. workerSlots + SlotInHand + Cardinality(Holders) = MaxConcurrent
    BY DEF SlotConservation
  <2> HIDE DEF IInv, ReleaseSlot, SlotInHand
  <2>8. workerSlots' + SlotInHand' + Cardinality(Holders') = MaxConcurrent
    BY <2>4, <2>5, <2>6, <2>7, HoldersFinite, MaxConcurrentAssumption
  <2> QED BY <2>1, <2>3, <2>8 DEF IInv, SlotConservation
<1>6. CASE Wedge(t)
  BY <1>6 DEF Wedge, TypeOK, PlacedOnce, Held, SlotConservation, SlotInHand, Holders
<1> QED BY <1>2, <1>3, <1>4, <1>5, <1>6 DEF TaskProgress

\* The steps of Stop and workerManager move no task and no token.
LEMMA StopKeepsIInv == IInv /\ (CallStop \/ WorkerManagerExit \/ StopReturns) => IInv'
BY DEF IInv, CallStop, WorkerManagerExit, StopReturns, TypeOK, PlacedOnce, Held,
       SlotConservation, SlotInHand, Holders

\* The invariants speak of the variables of the specification only.
LEMMA StutterKeepsIInv == IInv /\ UNCHANGED vars => IInv'
BY DEF IInv, vars, TypeOK, PlacedOnce, Held, SlotConservation, SlotInHand, Holders

\* Every reachable state satisfies the three invariants together.
THEOREM IInvInvariant == Spec => []IInv
<1>1. IInv /\ [Next]_vars => IInv'
  <2> SUFFICES ASSUME IInv, [Next]_vars PROVE IInv'
    OBVIOUS
  <2>1. CASE DispatcherNext
    BY <2>1, DispatcherKeepsIInv
  <2>2. CASE CallStop \/ WorkerManagerExit \/ StopReturns
    BY <2>2, StopKeepsIInv
  <2>3. ASSUME NEW t \in Tasks,
               CallAddTask(t) \/ AddTask(t) \/ AnnounceQueued(t) \/ OutputJams(t)
        PROVE  IInv'
    BY <2>3, AddTaskKeepsIInv
  <2>4. ASSUME NEW t \in Tasks, TaskProgress(t) \/ Wedge(t) PROVE IInv'
    BY <2>4, TaskKeepsIInv
  <2>5. CASE UNCHANGED vars
    BY <2>5, StutterKeepsIInv
  <2> QED BY <2>1, <2>2, <2>3, <2>4, <2>5 DEF Next
<1> QED BY InitIInv, <1>1, PTL DEF Spec

-----------------------------------------------------------------------------
(* The theorems *)

\* The variables keep their types: taskQueue within its capacity, workerSlots between 0 and
\* MaxConcurrent, and only a task with a registered worker is ever wedged.
THEOREM TypeCorrect == Spec => []TypeOK
BY IInvInvariant, PTL DEF IInv

\* No token of workerSlots is ever lost or made by taskDispatcher and processTask.
THEOREM SlotsConserved == Spec => []SlotConservation
BY IInvInvariant, PTL DEF IInv

\* A task given to AddTask and not started is in exactly one place of the dispatcher, once.
THEOREM TasksPlacedOnce == Spec => []PlacedOnce
BY IInvInvariant, PTL DEF IInv

\* No send on workerSlots, the dispatcher's or the deferred one, ever finds the channel full.
THEOREM SendsFindRoom == Spec => []SlotSendsNeverBlock
<1>1. IInv => SlotSendsNeverBlock
  <2> SUFFICES ASSUME IInv PROVE SlotSendsNeverBlock
    OBVIOUS
  <2> USE HoldersFinite, MaxConcurrentAssumption
          DEF IInv, TypeOK, SlotConservation, SlotInHand, SlotSendsNeverBlock
  <2>1. CASE dispatcher.pc = "putBack"
    BY <2>1
  <2>2. ASSUME NEW t \in Tasks, phase[t] = "unregistered" PROVE workerSlots < MaxConcurrent
    <3>1. t \in Holders
      BY <2>2 DEF Holders
    <3>2. Cardinality(Holders) # 0
      BY <3>1, FS_EmptySet, TasksAssumption, FS_Subset DEF Holders
    <3> QED BY <3>2
  <2> QED BY <2>1, <2>2
<1> QED BY IInvInvariant, <1>1, PTL

\* The tasks with an entry in activeWorkers.
ActiveWorkers == {t \in Tasks : phase[t] = "registered"}

\* processTask runs for at most MaxConcurrent tasks at a time, so at most that many workers are
\* registered in activeWorkers.
THEOREM ActiveWorkersBounded == Spec => [](Cardinality(ActiveWorkers) <= MaxConcurrent)
<1>1. IInv => Cardinality(ActiveWorkers) <= MaxConcurrent
  <2> SUFFICES ASSUME IInv PROVE Cardinality(ActiveWorkers) <= MaxConcurrent
    OBVIOUS
  <2>1. ActiveWorkers \in SUBSET Holders
    BY DEF ActiveWorkers, Holders
  <2>2. /\ Cardinality(ActiveWorkers) \in Nat
        /\ Cardinality(ActiveWorkers) <= Cardinality(Holders)
    BY <2>1, HoldersFinite, FS_Subset, FS_CardinalityType
  <2> QED BY <2>2, HoldersFinite, MaxConcurrentAssumption
          DEF IInv, TypeOK, SlotConservation, SlotInHand
<1> QED BY IInvInvariant, <1>1, PTL

-----------------------------------------------------------------------------
(* WorkerInstanceManager implements TaskSlots *)

\* taskDispatcher has left when Stop has returned.
StoppedDispatcher == stop = "returned" => dispatcher.pc = "exited"

\* Stop returns only when taskDispatcher has left, for wg.Wait waits for it.
LEMMA StoppedDispatcherInvariant == Spec => []StoppedDispatcher
<1>1. Init => StoppedDispatcher
  BY DEF Init, StoppedDispatcher
<1>2. StoppedDispatcher /\ [Next]_vars => StoppedDispatcher'
  BY DEF StoppedDispatcher, Next, vars, DispatcherNext, DispatcherExit, Receive, AdmitReceived,
     Defer, AdmitPending, TakeIdleSlot, PutBack, Selecting, CallStop, WorkerManagerExit,
     StopReturns, CallAddTask, AddTask, AnnounceQueued, OutputJams, TaskProgress, Register,
     CreateFails, Unregister, ReleaseSlot, Wedge
<1> QED BY <1>1, <1>2, PTL DEF Spec

\* A task that starts takes a token, so there was room for one more.
LEMMA AdmitIsStart ==
    ASSUME IInv, StoppedDispatcher, NEW t \in Tasks, phase[t] = "accepted",
           SetPhase(t, "admitted"), SlotFree, dispatcher.pc # "exited", UNCHANGED stop
    PROVE  Slots!Start(t)
<1>1. Holders' = Holders \cup {t} /\ Cardinality(Holders) < MaxConcurrent
  BY HolderAdded, HoldersFinite, MaxConcurrentAssumption
  DEF IInv, TypeOK, SlotFree, SlotConservation, SlotInHand
<1>2. Accepted' = Accepted \ {t}
  BY DEF IInv, TypeOK, Accepted, SetPhase
<1>3. {u \in Tasks : phase'[u] = "ended"} = {u \in Tasks : phase[u] = "ended"}
  BY DEF IInv, TypeOK, SetPhase
<1>4. Slots!Cardinality(Holders) = Cardinality(Holders)
  BY DEF Slots!Cardinality, Cardinality
<1> QED BY <1>1, <1>2, <1>3, <1>4 DEF Slots!Start, StoppedDispatcher, Accepted

\* Every step is a step of TaskSlots or leaves its variables alone.
LEMMA StepIsSlotsStep ==
    IInv /\ StoppedDispatcher /\ [Next]_vars => [Slots!SlotsNext]_(Slots!slotVars)
<1> SUFFICES ASSUME IInv, StoppedDispatcher, [Next]_vars
             PROVE  Slots!SlotsNext \/ UNCHANGED Slots!slotVars
  OBVIOUS
<1>1. ASSUME UNCHANGED phase, (stop = "returned") <=> (stop' = "returned")
      PROVE  UNCHANGED Slots!slotVars
  BY <1>1 DEF Holders, Slots!slotVars
<1>2. CASE UNCHANGED vars
  BY <1>2, <1>1 DEF vars
<1>3. CASE DispatcherExit \/ Receive \/ Defer \/ TakeIdleSlot \/ PutBack \/ CallStop
           \/ WorkerManagerExit
  BY <1>3, <1>1 DEF DispatcherExit, Receive, Defer, TakeIdleSlot, PutBack, CallStop,
                    WorkerManagerExit
<1>4. CASE StopReturns
  BY <1>4 DEF StopReturns, Holders, Slots!SlotsNext, Slots!Close
<1>5. CASE AdmitReceived
  <2>1. dispatcher.hand \in Tasks /\ phase[dispatcher.hand] = "accepted"
    BY <1>5 DEF AdmitReceived, IInv, PlacedOnce, Held
  <2> QED BY <1>5, <2>1, AdmitIsStart DEF AdmitReceived, Slots!SlotsNext
<1>6. CASE AdmitPending
  <2>1. Head(pendingTasks) \in Tasks /\ phase[Head(pendingTasks)] = "accepted"
    BY <1>6, TailOfInjective DEF AdmitPending, IInv, TypeOK, PlacedOnce
  <2> QED BY <1>6, <2>1, AdmitIsStart DEF AdmitPending, Selecting, Slots!SlotsNext
<1>7. ASSUME NEW t \in Tasks, AddTask(t) PROVE Slots!SlotsNext
  <2>1. Slots!Accept(t)
    BY <1>7 DEF AddTask, SetPhase, IInv, TypeOK, Holders, Slots!Accept
  <2> QED BY <2>1 DEF Slots!SlotsNext
<1>8. ASSUME NEW t \in Tasks, ReleaseSlot(t) PROVE Slots!SlotsNext
  <2>1. Holders' = Holders \ {t} /\ t \in Holders
    BY <1>8, HolderRemoved DEF ReleaseSlot, IInv, TypeOK
  <2>2. Slots!Finish(t)
    BY <1>8, <2>1 DEF ReleaseSlot, SetPhase, IInv, TypeOK, Slots!Finish
  <2> QED BY <2>2 DEF Slots!SlotsNext
<1>9. ASSUME NEW t \in Tasks,
             \/ CallAddTask(t) \/ AnnounceQueued(t) \/ OutputJams(t)
             \/ Register(t) \/ CreateFails(t) \/ Unregister(t) \/ Wedge(t)
      PROVE  UNCHANGED Slots!slotVars
  BY <1>9 DEF CallAddTask, AnnounceQueued, OutputJams, Register, CreateFails, Unregister, Wedge,
     SetPhase, Holders, IInv, TypeOK, Slots!slotVars
<1> QED BY <1>2, <1>3, <1>4, <1>5, <1>6, <1>7, <1>8, <1>9
        DEF Next, DispatcherNext, TaskProgress

\* The queue, the pending slice and the tokens together implement the promise of TaskSlots.
THEOREM ManagerImplementsSlots == Spec => SlotsImplemented
<1>1. Init => Slots!SlotsInit
  BY DEF Init, Holders, Slots!SlotsInit
<1> QED BY <1>1, IInvInvariant, StoppedDispatcherInvariant, StepIsSlotsStep, PTL
        DEF Spec, SlotsImplemented, Slots!SlotsSpec
=============================================================================
