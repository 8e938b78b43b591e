------------------------ MODULE ProcessExecutorProofs ------------------------
(***************************************************************************)
(* What TLAPS proves of the process executor, for any set of pipes, any    *)
(* capacity of outputChan above 1 and any number of lines and ticks: when  *)
(* the channel is closed nobody is left who could send on it, what it says *)
(* of the exit, and what an answer of Stop means.                          *)
(***************************************************************************)
EXTENDS ProcessExecutor, TLAPS

Children == [alive : BOOLEAN, ok : BOOLEAN, reap : {"no", "reaped", "known"},
             watch : {"off", "on", "late", "killed", "taken"}]
Channels == [queued : 0..OutputCap, closed : BOOLEAN]
Readers == [pc : {"off", "scan", "status", "send", "returned"}, lines : 0..MaxLines]
Monitors == [pc : {"off", "idle", "send", "returned"}, msg : {"none"} \cup Statuses,
             ticks : 0..MaxTicks]
Waiters == {"off", "wait", "mark", "send", "join", "unlist", "forget", "last", "returned"}
Waits == [Callers -> {"off", "called", "inside", "reaped", "receive", "receiveErr", "nil", "err",
                      "ctxErr"}]
Stops == [pc : {"off", "mark", "signal", "wait", "returned"},
          answer : {"none", "stopped", "error"}]
Histories == [set : SUBSET Statuses, last : {"none"} \cup Statuses, misjudged : BOOLEAN]

\* The types, in the form the proofs use; a monitor that sends has a status to send.
Types ==
    /\ child \in Children
    /\ out \in Channels
    /\ ctxDone \in BOOLEAN /\ listed \in BOOLEAN
    /\ lock \in {"free", "monitor", "waiter", "subscriber"}
    /\ entry \in {"none"} \cup Statuses
    /\ handler \in {"starting", "reading", "gone", "returned"}
    /\ reader \in [Pipes -> Readers]
    /\ monitor \in Monitors /\ (monitor.pc = "send" => monitor.msg \in Statuses)
    /\ waiter \in Waiters /\ wait \in Waits
    /\ stop \in Stops
    /\ subscriber \in {"off", "idle", "send"}
    /\ told \in Histories

-----------------------------------------------------------------------------
(* Types *)

\* What a message sent does to the channel.
LEMMA SendEffect ==
    ASSUME Types, Send
    PROVE  out' \in Channels /\ out'.closed = out.closed
BY OutputCapAssumption DEF Types, Channels, Send

\* What a HEALTH message sent does to the history.
LEMMA SendHealthEffect ==
    ASSUME Types, NEW status \in Statuses, SendHealth(status)
    PROVE  /\ Send /\ told' \in Histories
           /\ told'.set = told.set \cup {status} /\ told'.last = status
           /\ told'.misjudged = told.misjudged
BY DEF Types, SendHealth, Histories

\* The handler, a reader of the channel, takes a message.
LEMMA ReceiveEffect ==
    ASSUME Types, out.queued > 0, out' = [out EXCEPT !.queued = @ - 1]
    PROVE  out' \in Channels /\ out'.closed = out.closed
BY OutputCapAssumption DEF Types, Channels

\* Every step keeps the types.
LEMMA TypesAreInductive == Types /\ [Next]_vars => Types'
<1> SUFFICES ASSUME Types, [Next]_vars PROVE Types'
  OBVIOUS
<1> USE OutputCapAssumption, BoundsAssumption
<1>1. CASE Start
  <2>3. out' \in Channels
    BY <1>1 DEF Start, Types, Channels
  <2>4. reader' \in [Pipes -> Readers]
    BY <1>1 DEF Start, Types, Readers
  <2>5. /\ told' \in Histories /\ child' \in Children /\ monitor' \in Monitors
        /\ waiter' \in Waiters /\ wait' \in Waits
    BY <1>1 DEF Start, Types, Histories, Children, Monitors, Waiters, Waits, Statuses
  <2> QED
    BY <1>1, <2>3, <2>4, <2>5 DEF Start, Types, Statuses, Monitors
<1>2. CASE StartFails
  BY <1>2 DEF StartFails, Types, Channels
<1>3. CASE HandlerReads \/ HandlerReturns \/ HandlerFails \/ StreamEnds
  <2>1. out' \in Channels
    BY <1>3, ReceiveEffect DEF HandlerReads, HandlerReturns, HandlerFails, StreamEnds, Types
  <2> QED
    BY <1>3, <2>1 DEF HandlerReads, HandlerReturns, HandlerFails, StreamEnds, Types
<1>4. CASE ChildExits
  BY ZenonT(60), <1>4 DEF ChildExits, Types, Children
<1>4a. CASE WatchKills
  <2> DEFINE ok == child.ok /\ ~child.alive
  <2>1. \/ child' = [child EXCEPT !.alive = FALSE, !.ok = ok, !.watch = "killed"]
        \/ child' = [child EXCEPT !.watch = "late"]
    BY <1>4a DEF WatchKills
  <2>2. ok \in BOOLEAN /\ child \in Children
    BY DEF Types
  <2> HIDE DEF ok
  <2>3. child' \in Children
    BY <2>1, <2>2 DEF Children
  <2> QED
    BY <1>4a, <2>3 DEF WatchKills, Types
<1>4b. ASSUME NEW c \in Callers, WaitNext(c)
       PROVE  Types'
  <2>1. wait' \in Waits
    BY <1>4b DEF WaitNext, WaitBegins, WaitReaps, WaitStores, WaitLosesReap, WaitReceives, WaitPc,
       Waits, Types
  <2>2. child' \in Children
    BY <1>4b DEF WaitNext, WaitBegins, WaitReaps, WaitStores, WaitLosesReap, WaitReceives,
       Children, Types
  <2> QED
    BY <1>4b, <2>1, <2>2 DEF WaitNext, WaitBegins, WaitReaps, WaitStores, WaitLosesReap,
       WaitReceives, Types
<1>5. ASSUME NEW p \in Pipes, ReaderNext(p)
      PROVE  Types'
  <2>1. CASE ReaderGetsLine(p) \/ ReaderGetsStatus(p) \/ ReaderReturns(p)
    <3>1. reader' \in [Pipes -> Readers]
      BY <2>1 DEF ReaderGetsLine, ReaderGetsStatus, ReaderReturns, ReaderPc, Types, Readers
    <3> QED
      BY <2>1, <3>1 DEF ReaderGetsLine, ReaderGetsStatus, ReaderReturns, Types
  <2>2. CASE ReaderSends(p)
    <3>1. reader' \in [Pipes -> Readers]
      BY <2>2 DEF ReaderSends, ReaderPc, Types, Readers
    <3>2. out' \in Channels
      BY <2>2, SendEffect DEF ReaderSends
    <3> QED
      BY <2>2, <3>1, <3>2 DEF ReaderSends, Types
  <2> QED
    BY <1>5, <2>1, <2>2 DEF ReaderNext
<1>6. CASE MonitorTicks
  <2>1. Verdict \in Statuses
    BY <1>6 DEF MonitorTicks, Verdict, Statuses, Types, Children
  <2>2. monitor' \in Monitors
    BY <1>6, <2>1 DEF MonitorTicks, Types, Monitors
  <2>3. told' \in Histories
    <3> DEFINE mis == told.misjudged \/ child.reap = "reaped"
    <3>1. told' = [told EXCEPT !.misjudged = mis]
      BY <1>6 DEF MonitorTicks
    <3>2. mis \in BOOLEAN
      OBVIOUS
    <3> HIDE DEF mis
    <3> QED
      BY <3>1, <3>2 DEF Types, Histories
  <2> QED
    BY <1>6, <2>1, <2>2, <2>3 DEF MonitorTicks, Types
<1>7. CASE MonitorReturns
  BY <1>7 DEF MonitorReturns, Types, Monitors
<1>8. CASE MonitorSends
  <2>1. monitor.msg \in Statuses /\ SendHealth(monitor.msg)
    BY <1>8 DEF MonitorSends, Types
  <2>2. /\ out' \in Channels
        /\ told' \in Histories
    BY <2>1, SendEffect, SendHealthEffect
  <2>3. monitor' \in Monitors /\ monitor'.pc = "idle"
    BY <1>8 DEF MonitorSends, Types, Monitors
  <2> QED
    BY <1>8, <2>2, <2>3 DEF MonitorSends, Types
<1>9. CASE WaiterReturnsFromWait
  BY <1>9 DEF WaiterReturnsFromWait, WaiterPc, Waiters, Types
<1>10. CASE WaiterMarks \/ WaiterJoins \/ WaiterUnlists \/ WaiterForgets
  <2>1. waiter' \in Waiters
    BY <1>10 DEF WaiterMarks, WaiterJoins, WaiterUnlists, WaiterForgets, WaiterPc, Types, Waiters
  <2>2. entry' \in {"none"} \cup Statuses
    BY <1>10 DEF WaiterMarks, WaiterJoins, WaiterUnlists, WaiterForgets, Types, Outcome, Statuses
  <2> QED
    BY <1>10, <2>1, <2>2 DEF WaiterMarks, WaiterJoins, WaiterUnlists, WaiterForgets, Types
<1>11. CASE WaiterSends
  <2>1. Outcome \in Statuses /\ SendHealth(Outcome)
    BY <1>11 DEF WaiterSends, Outcome, Statuses
  <2>2. /\ out' \in Channels
        /\ told' \in Histories
    BY <2>1, SendEffect, SendHealthEffect
  <2>3. waiter' \in Waiters
    BY <1>11 DEF WaiterSends, WaiterPc, Types, Waiters
  <2> QED
    BY <1>11, <2>2, <2>3 DEF WaiterSends, Types
<1>12. CASE WaiterCloses
  <2>3. out' \in Channels
    BY <1>12 DEF WaiterCloses, Types, Channels
  <2>4. told' \in Histories /\ waiter' \in Waiters
    BY <1>12 DEF WaiterCloses, WaiterPc, Types, Histories, Waiters, Statuses
  <2> QED
    BY <1>12, <2>3, <2>4 DEF WaiterCloses, Types
<1>13. CASE StopFinds \/ StopNext
  <2>1. stop' \in Stops
    BY <1>13 DEF StopFinds, StopNext, StopMarks, StopSignals, StopAnswers, StopTimesOut, Types,
       Stops
  <2>2. child' \in Children /\ wait' \in Waits
    BY <1>13 DEF StopFinds, StopNext, StopMarks, StopSignals, StopAnswers, StopTimesOut, WaitPc,
       Types, Children, Waits
  <2>3. entry' \in {"none"} \cup Statuses
    BY <1>13 DEF StopFinds, StopNext, StopMarks, StopSignals, StopAnswers, StopTimesOut, Types,
       Statuses
  <2> QED
    BY <1>13, <2>1, <2>2, <2>3 DEF StopFinds, StopNext, StopMarks, StopSignals, StopAnswers,
       StopTimesOut, Types
<1>14. CASE Subscribe \/ SubscriberBlocks \/ SubscriberServed \/ SubscriberLeaves
  BY <1>14 DEF Subscribe, SubscriberBlocks, SubscriberServed, SubscriberLeaves, Types
<1>15. CASE UNCHANGED vars
  BY <1>15 DEF vars, Types
<1> QED
  BY <1>1, <1>2, <1>3, <1>4, <1>4a, <1>4b, <1>5, <1>6, <1>7, <1>8, <1>9, <1>10, <1>11, <1>12,
     <1>13, <1>14, <1>15 DEF Next, HandlerNext, WaiterNext

\* The states the executor begins in.
LEMMA Begins == Init => Types
<1> SUFFICES ASSUME Init PROVE Types
  OBVIOUS
<1> USE OutputCapAssumption, BoundsAssumption
<1>1. reader \in [Pipes -> Readers]
  BY DEF Init, Readers
<1>2. out \in Channels
  BY DEF Init, Channels
<1>3. /\ child \in Children /\ waiter \in Waiters /\ wait \in Waits /\ stop \in Stops
      /\ told \in Histories
  BY DEF Init, Children, Waiters, Waits, Stops, Histories, Statuses
<1>4. monitor \in Monitors /\ monitor.pc # "send"
  BY DEF Init, Monitors
<1>6. /\ ctxDone \in BOOLEAN /\ listed \in BOOLEAN /\ lock = "free" /\ entry = "none"
      /\ handler = "starting" /\ subscriber = "off"
  BY DEF Init
<1> QED
  BY <1>1, <1>2, <1>3, <1>4, <1>6 DEF Types

\* The variables have their types.
THEOREM TypeCorrect == Spec => []TypeOK
<1>1. Types => TypeOK
  BY DEF Types, TypeOK, Children, Channels, Readers, Monitors, Waiters, Waits, Stops,
     Histories
<1> QED
  BY <1>1, Begins, TypesAreInductive, PTL DEF Spec

-----------------------------------------------------------------------------
(* The inductive invariant *)

\* The goroutines of Start do not run before Start, nor after it failed.
OffTogether ==
    /\ handler = "starting" => waiter = "off" /\ stop.pc = "off" /\ ~out.closed
    /\ waiter = "off" =>
          /\ ~child.alive /\ child.reap = "no" /\ ~listed /\ child.watch = "off"
          /\ monitor.pc = "off" /\ monitor.msg = "none"
          /\ \A p \in Pipes : reader[p].pc = "off"
          /\ stop.pc \in {"off", "returned"}
          /\ told.set = {} /\ told.last = "none"
          /\ wait["waiter"] = "off"
    /\ stop.pc \in {"off", "mark", "signal"} \/ waiter = "off" => wait["stop"] = "off"
    /\ waiter = "wait" => wait["waiter"] # "off"
    /\ waiter \notin {"off", "wait"} => Returned("waiter")

\* The exit is reaped by one of the two callers of Wait, and one value comes of ctxResult.
Got(c) == wait[c] \in {"reaped", "receive", "nil", "ctxErr"}
ReapedByOne ==
    /\ child.alive => child.reap = "no"
    /\ child.reap = "no" => \A c \in Callers : wait[c] \in {"off", "called", "inside"}
    /\ child.reap # "no" /\ child.ok => \E c \in Callers : Got(c)
    /\ ~(Got("waiter") /\ Got("stop"))
    /\ \A c \in Callers : wait[c] \in {"receive", "nil", "ctxErr"} => child.ok
    /\ \A c \in Callers : wait[c] \in {"nil", "ctxErr"} => child.watch = "taken"
    /\ stop.answer = "stopped" => wait["stop"] = "nil"

\* What has been told of the exit, or is about to be.
Excused == told.misjudged \/ wait["waiter"] = "ctxErr" \/ Got("stop")
ToldOfExit ==
    /\ "ERROR" \in told.set \/ monitor.msg = "ERROR" => ~child.alive /\ (child.ok => Excused)
    /\ "FINISHED" \in told.set => ~child.alive /\ (child.ok \/ "ERROR" \in told.set)
    /\ monitor.msg = "FINISHED" => ~child.alive /\ child.ok
    /\ waiter \in {"join", "unlist", "forget", "last", "returned"} =>
          child.ok \/ "ERROR" \in told.set

\* The channel is closed last.
ClosedLast ==
    /\ waiter \in {"unlist", "forget", "last", "returned"} =>
          monitor.pc = "returned" /\ \A p \in Pipes : reader[p].pc = "returned"
    /\ out.closed => waiter \in {"off", "returned"}
    /\ waiter = "returned" => told.last = "FINISHED"

ExecutorInv == OffTogether /\ ReapedByOne /\ ToldOfExit /\ ClosedLast

\* Before Start, and where it failed, nothing runs.
LEMMA OffTogetherStays == Types /\ OffTogether /\ Next => OffTogether'
<1> SUFFICES ASSUME Types, OffTogether, Next PROVE OffTogether'
  OBVIOUS
<1>0. /\ child \in Children /\ out \in Channels /\ reader \in [Pipes -> Readers]
      /\ monitor \in Monitors /\ waiter \in Waiters /\ wait \in Waits /\ stop \in Stops
      /\ told \in Histories
  BY DEF Types
<1> USE DEF Returned
<1>1. CASE Start \/ StartFails
  BY <1>0, <1>1 DEF Start, StartFails, OffTogether, Waiters, Waits, Callers, Stops, Channels
<1>2. CASE HandlerReads \/ HandlerReturns \/ HandlerFails \/ StreamEnds
  BY <1>0, <1>2 DEF HandlerReads, HandlerReturns, HandlerFails, StreamEnds, OffTogether, Channels
<1>3. CASE ChildExits \/ WatchKills
  <2>1. /\ child.alive \/ child.watch = "on"
        /\ UNCHANGED <<listed, handler, monitor, reader, waiter, wait, stop, told, out>>
    BY <1>3 DEF ChildExits, WatchKills
  <2>2. waiter # "off"
    BY <2>1 DEF OffTogether
  <2> QED
    BY <2>1, <2>2 DEF OffTogether
<1>3a. ASSUME NEW c \in Callers, WaitNext(c)
       PROVE  OffTogether'
  <2>1. /\ wait[c] \notin {"off", "nil", "err", "ctxErr"} /\ wait'[c] # "off"
        /\ \A d \in Callers \ {c} : wait'[d] = wait[d]
        /\ UNCHANGED <<listed, handler, monitor, reader, waiter, stop, told, out>>
    BY <1>0, <1>3a DEF WaitNext, WaitBegins, WaitReaps, WaitStores, WaitLosesReap, WaitReceives,
       WaitPc, Waits
  <2>2. waiter # "off"
    BY <2>1 DEF OffTogether, Callers
  <2> QED
    BY <2>1, <2>2 DEF OffTogether, Callers
<1>4. ASSUME NEW p \in Pipes, ReaderNext(p)
      PROVE  OffTogether'
  <2>1. /\ reader[p].pc # "off"
        /\ UNCHANGED <<child, listed, handler, monitor, waiter, wait, stop, told>>
    BY <1>4 DEF ReaderNext, ReaderGetsLine, ReaderGetsStatus, ReaderSends, ReaderReturns
  <2>2. waiter # "off" /\ handler # "starting"
    BY <2>1 DEF OffTogether
  <2> QED
    BY <2>1, <2>2 DEF OffTogether
<1>5. CASE MonitorTicks \/ MonitorSends \/ MonitorReturns
  <2>1. /\ monitor.pc # "off" /\ UNCHANGED <<child, listed, handler, reader, waiter, wait, stop>>
    BY <1>5 DEF MonitorTicks, MonitorSends, MonitorReturns
  <2>2. waiter # "off" /\ handler # "starting"
    BY <2>1 DEF OffTogether
  <2> QED
    BY <2>1, <2>2 DEF OffTogether
<1>6. CASE WaiterNext
  <2>1. /\ waiter # "off" /\ waiter' \notin {"off", "wait"} /\ UNCHANGED <<handler, wait, stop>>
        /\ waiter # "wait" \/ Returned("waiter")
    BY <1>0, <1>6 DEF WaiterNext, WaiterReturnsFromWait, WaiterMarks, WaiterSends,
       WaiterJoins, WaiterUnlists, WaiterForgets, WaiterCloses, WaiterPc, Waiters
  <2>2. handler # "starting"
    BY <2>1 DEF OffTogether
  <2> QED
    BY <2>1, <2>2 DEF OffTogether
<1>7. CASE StopFinds \/ StopMarks \/ StopAnswers
  <2>1. UNCHANGED <<child, out, listed, handler, reader, monitor, waiter, wait, told>>
    BY <1>7 DEF StopFinds, StopMarks, StopAnswers
  <2>2. /\ handler # "starting"
        /\ waiter = "off" => stop.pc = "off" /\ ~listed
    BY <1>7 DEF StopFinds, StopMarks, StopAnswers, OffTogether
  <2>3. /\ waiter = "off" => stop'.pc = "returned"
        /\ stop'.pc \in {"off", "mark", "signal"} => stop.pc \in {"off", "mark", "signal"}
    BY <1>0, <1>7, <2>2 DEF StopFinds, StopMarks, StopAnswers, Stops
  <2> QED
    BY <2>1, <2>2, <2>3 DEF OffTogether
<1>8. CASE StopSignals \/ StopTimesOut
  <2>1. /\ stop.pc \in {"signal", "wait"} /\ UNCHANGED <<handler, waiter>>
        /\ wait'["waiter"] = wait["waiter"]
        /\ stop'.pc \in {"wait", "returned"}
    BY <1>0, <1>8 DEF StopSignals, StopTimesOut, WaitPc, Waits, Callers, Stops
  <2>2. waiter # "off" /\ handler # "starting"
    BY <2>1 DEF OffTogether
  <2> QED
    BY <2>1, <2>2 DEF OffTogether
<1>9. CASE Subscribe \/ SubscriberBlocks \/ SubscriberServed \/ SubscriberLeaves
  <2>1. UNCHANGED <<child, out, listed, handler, reader, monitor, waiter, wait, stop, told>>
    BY <1>9 DEF Subscribe, SubscriberBlocks, SubscriberServed, SubscriberLeaves
  <2> QED
    BY <2>1 DEF OffTogether
<1> QED
  BY <1>1, <1>2, <1>3, <1>3a, <1>4, <1>5, <1>6, <1>7, <1>8, <1>9 DEF Next, HandlerNext, StopNext

\* The steps that touch the process or a call of Wait.
LEMMA StepsOfTheExit ==
    Next => \/ UNCHANGED <<child, wait>> \/ Start \/ ChildExits \/ WatchKills
            \/ (\E c \in Callers : WaitNext(c)) \/ StopSignals \/ StopTimesOut
BY DEF Next, HandlerNext, StartFails, HandlerReads, HandlerReturns, HandlerFails, StreamEnds,
   ReaderNext, ReaderGetsLine, ReaderGetsStatus, ReaderSends, ReaderReturns, MonitorTicks,
   MonitorSends, MonitorReturns, WaiterNext, WaiterReturnsFromWait, WaiterMarks, WaiterSends,
   WaiterJoins, WaiterUnlists, WaiterForgets, WaiterCloses, StopFinds, StopNext, StopMarks,
   StopAnswers, Subscribe, SubscriberBlocks, SubscriberServed, SubscriberLeaves

\* What a step of one call of Wait does to the process and to the other call.
LEMMA WaitEffect ==
    ASSUME Types, NEW c \in Callers, WaitNext(c)
    PROVE  /\ child'.alive = child.alive /\ child'.ok = child.ok
           /\ \A d \in Callers \ {c} : wait'[d] = wait[d]
           /\ \/ /\ wait[c] = "called" /\ child' = child
                 /\ wait'[c] = IF child.reap = "known" THEN "err" ELSE "inside"
              \/ /\ wait[c] = "inside" /\ ~child.alive /\ child.reap = "no"
                 /\ wait'[c] = "reaped" /\ child'.reap = "reaped" /\ child'.watch = child.watch
              \/ /\ wait[c] = "reaped" /\ child'.reap = "known" /\ child'.watch = child.watch
                 /\ wait'[c] = IF child.ok THEN "receive" ELSE "receiveErr"
              \/ /\ wait[c] = "inside" /\ child.reap # "no" /\ child'.reap = "reaped"
                 /\ wait'[c] = "receiveErr" /\ child'.watch = child.watch
              \/ /\ wait[c] = "receiveErr" /\ wait'[c] = "err"
                 /\ child'.reap = child.reap /\ child'.watch = "taken"
              \/ /\ wait[c] = "receive" /\ wait'[c] \in {"nil", "ctxErr"}
                 /\ child'.reap = child.reap /\ child'.watch = "taken"
<1>0. child \in Children /\ wait \in Waits
  BY DEF Types
<1>1. /\ child'.alive = child.alive /\ child'.ok = child.ok
      /\ \A d \in Callers \ {c} : wait'[d] = wait[d]
  BY <1>0 DEF WaitNext, WaitBegins, WaitReaps, WaitStores, WaitLosesReap, WaitReceives, WaitPc,
     Children, Waits
<1>2. CASE WaitBegins(c) \/ WaitReaps(c)
  BY <1>0, <1>1, <1>2 DEF WaitBegins, WaitReaps, WaitPc, Exited, Children, Waits
<1>3. CASE WaitStores(c) \/ WaitLosesReap(c)
  BY <1>0, <1>1, <1>3 DEF WaitStores, WaitLosesReap, WaitPc, Exited, Children, Waits
<1>4. CASE WaitReceives(c)
  BY <1>0, <1>1, <1>4 DEF WaitReceives, WaitPc, Children, Waits
<1> QED
  BY <1>2, <1>3, <1>4 DEF WaitNext

\* One of the two reaps the process, and each makes of it what cmd.Wait told it.
LEMMA ReapedByOneStays == Types /\ OffTogether /\ ReapedByOne /\ Next => ReapedByOne'
<1> SUFFICES ASSUME Types, OffTogether, ReapedByOne, Next PROVE ReapedByOne'
  OBVIOUS
<1>0. child \in Children /\ wait \in Waits /\ stop \in Stops
  BY DEF Types
<1> USE DEF Got, Callers
<1> DEFINE Exit ==
      /\ child.alive => child.reap = "no"
      /\ child.reap = "no" => \A c \in Callers : wait[c] \in {"off", "called", "inside"}
      /\ child.reap # "no" /\ child.ok => \E c \in Callers : Got(c)
      /\ ~(Got("waiter") /\ Got("stop"))
      /\ \A c \in Callers : wait[c] \in {"receive", "nil", "ctxErr"} => child.ok
      /\ \A c \in Callers : wait[c] \in {"nil", "ctxErr"} => child.watch = "taken"
<1>1. Exit
  BY DEF ReapedByOne
<1>2. CASE UNCHANGED <<child, wait>>
  <2>1. Exit'
    BY <1>1, <1>2
  <2>2. stop'.answer = "stopped" => stop.answer = "stopped" \/ wait["stop"] = "nil"
    BY <1>0 DEF Next, HandlerNext, Start, StartFails, HandlerReads, HandlerReturns, HandlerFails,
       StreamEnds, ChildExits, WatchKills, WaitNext, WaitBegins, WaitReaps, WaitStores,
       WaitLosesReap, WaitReceives, ReaderNext, ReaderGetsLine, ReaderGetsStatus, ReaderSends,
       ReaderReturns, MonitorTicks, MonitorSends, MonitorReturns, WaiterNext,
       WaiterReturnsFromWait, WaiterMarks, WaiterSends, WaiterJoins, WaiterUnlists,
       WaiterForgets, WaiterCloses, StopFinds, StopNext, StopMarks, StopSignals, StopAnswers,
       StopTimesOut, Subscribe, SubscriberBlocks, SubscriberServed, SubscriberLeaves, Stops
  <2> QED
    BY <1>2, <2>1, <2>2 DEF ReapedByOne
<1>3. CASE Start
  <2>1. /\ child'.alive /\ child'.reap = "no" /\ stop' = stop
        /\ wait'["waiter"] = "called" /\ wait'["stop"] = "off"
    BY <1>0, <1>3 DEF Start, OffTogether, Children, Waits
  <2>2. stop.answer # "stopped"
    BY <1>3 DEF Start, OffTogether, ReapedByOne
  <2> QED
    BY <2>1, <2>2 DEF ReapedByOne
<1>4. CASE ChildExits
  <2>1. child.alive /\ ~child'.alive /\ child'.reap = child.reap /\ UNCHANGED <<wait, stop>>
    BY <1>0, <1>4 DEF ChildExits, Children
  <2> QED
    BY <2>1 DEF ReapedByOne
<1>5. CASE WatchKills
  <2>1. /\ UNCHANGED <<wait, stop>> /\ child'.reap = child.reap
        /\ child.watch = "on"
        /\ child.reap = "no" \/ (child'.alive = child.alive /\ child'.ok = child.ok)
        /\ child.reap = "no" => ~child'.alive
    <3> DEFINE ok == child.ok /\ ~child.alive
    <3>1. \/ child.reap = "no"
             /\ child' = [child EXCEPT !.alive = FALSE, !.ok = ok, !.watch = "killed"]
          \/ child.reap # "no" /\ child' = [child EXCEPT !.watch = "late"]
      BY <1>5 DEF WatchKills
    <3> HIDE DEF ok
    <3> QED
      BY <1>0, <1>5, <3>1 DEF WatchKills, Children
  <2> QED
    BY <2>1 DEF ReapedByOne
<1>6. ASSUME NEW c \in Callers, WaitNext(c)
      PROVE  ReapedByOne'
  <2>1. stop' = stop /\ (wait[c] = "nil" => FALSE)
    BY <1>6 DEF WaitNext, WaitBegins, WaitReaps, WaitStores, WaitLosesReap, WaitReceives
  <2>2. Exit'
    <3>1. /\ child'.alive = child.alive /\ child'.ok = child.ok
          /\ \A d \in Callers \ {c} : wait'[d] = wait[d]
      BY <1>6, WaitEffect
    <3>2. PICK d \in Callers : Callers = {c, d} /\ c # d
      BY DEF Callers
    <3>3. /\ wait'[d] = wait[d] /\ ~(Got(c) /\ Got(d))
          /\ Exit' <=>
               /\ child'.alive => child'.reap = "no"
               /\ child'.reap = "no" => {wait'[c], wait'[d]} \subseteq {"off", "called", "inside"}
               /\ child'.reap # "no" /\ child'.ok => Got(c)' \/ Got(d)'
               /\ ~(Got(c)' /\ Got(d)')
               /\ wait'[c] \in {"receive", "nil", "ctxErr"} => child'.ok
               /\ wait'[d] \in {"receive", "nil", "ctxErr"} => child'.ok
               /\ wait'[c] \in {"nil", "ctxErr"} => child'.watch = "taken"
               /\ wait'[d] \in {"nil", "ctxErr"} => child'.watch = "taken"
      BY <1>1, <3>1, <3>2
    <3> QED
      BY <1>1, <1>6, <3>1, <3>2, <3>3, WaitEffect
  <2>3. wait["stop"] = "nil" => wait'["stop"] = "nil"
    BY <1>6, <2>1, WaitEffect
  <2> QED
    BY <2>1, <2>2, <2>3 DEF ReapedByOne
<1>7. CASE StopSignals
  <2>1. /\ wait["stop"] = "off" /\ wait'["stop"] \in {"off", "called"}
        /\ wait'["waiter"] = wait["waiter"] /\ child' = child
        /\ stop'.answer \in {stop.answer, "error"}
    BY <1>0, <1>7 DEF StopSignals, WaitPc, OffTogether, Stops, Waits
  <2> QED
    BY <2>1 DEF ReapedByOne
<1>8. CASE StopTimesOut
  <2>1. /\ stop'.answer = "error" /\ wait' = wait
        /\ ~child'.alive /\ child'.reap = child.reap /\ child'.watch = child.watch
        /\ child.alive \/ child' = child
    BY <1>0, <1>8 DEF StopTimesOut, Stops, Children
  <2> QED
    BY <2>1 DEF ReapedByOne
<1> QED
  BY <1>2, <1>3, <1>4, <1>5, <1>6, <1>7, <1>8, StepsOfTheExit

\* What a step does to the exit that is told: a process that is gone stays gone, with the exit it
\* had, and what excuses an error told of a success excuses it for good.
LEMMA ExitStays ==
    ASSUME Types, OffTogether, ReapedByOne, Next
    PROVE  /\ ~child.alive /\ waiter # "off" => ~child'.alive /\ child'.ok = child.ok
           /\ Start \/ (child.ok /\ ~child.alive /\ Excused => Excused')
<1>0. child \in Children /\ wait \in Waits /\ stop \in Stops /\ told \in Histories
  BY DEF Types
<1>1. Start \/ (told.misjudged => told'.misjudged)
  <2>1. \/ Start \/ UNCHANGED told \/ MonitorTicks \/ WaiterCloses
        \/ (\E status \in Statuses : SendHealth(status))
    BY DEF Next, HandlerNext, StartFails, HandlerReads, HandlerReturns, HandlerFails, StreamEnds,
       ChildExits, WatchKills, WaitNext, WaitBegins, WaitReaps, WaitStores, WaitLosesReap,
       WaitReceives, ReaderNext, ReaderGetsLine, ReaderGetsStatus, ReaderSends, ReaderReturns,
       MonitorSends, MonitorReturns, WaiterNext, WaiterReturnsFromWait, WaiterMarks,
       WaiterSends, WaiterJoins, WaiterUnlists, WaiterForgets, StopFinds, StopNext, StopMarks,
       StopSignals, StopAnswers, StopTimesOut, Subscribe, SubscriberBlocks, SubscriberServed,
       SubscriberLeaves, Types, Outcome, Statuses
  <2>2. CASE MonitorTicks
    <3> DEFINE mis == told.misjudged \/ child.reap = "reaped"
    <3>1. told' = [told EXCEPT !.misjudged = mis]
      BY <2>2 DEF MonitorTicks
    <3>2. told.misjudged => mis
      OBVIOUS
    <3> HIDE DEF mis
    <3>3. told'.misjudged = mis
      BY <1>0, <3>1 DEF Histories
    <3> QED
      BY <3>2, <3>3
  <2>3. CASE WaiterCloses
    BY <1>0, <2>3 DEF WaiterCloses, Histories
  <2>4. ASSUME NEW status \in Statuses, SendHealth(status)
        PROVE  told'.misjudged = told.misjudged
    BY <2>4, SendHealthEffect
  <2> QED
    BY <2>1, <2>2, <2>3, <2>4
<1>2. ASSUME ~child.alive, waiter # "off"
      PROVE  ~child'.alive /\ child'.ok = child.ok
  <2>1. ~Start /\ ~ChildExits
    BY <1>2 DEF Start, OffTogether, ChildExits
  <2>2. CASE WatchKills
    <3> DEFINE ok == child.ok /\ ~child.alive
    <3>1. \/ child' = [child EXCEPT !.alive = FALSE, !.ok = ok, !.watch = "killed"]
          \/ child' = [child EXCEPT !.watch = "late"]
      BY <2>2 DEF WatchKills
    <3>2. ok = child.ok
      BY <1>0, <1>2 DEF Children
    <3> HIDE DEF ok
    <3> QED
      BY <1>0, <1>2, <3>1, <3>2 DEF Children
  <2>3. ASSUME NEW c \in Callers, WaitNext(c)
        PROVE  ~child'.alive /\ child'.ok = child.ok
    BY <1>2, <2>3, WaitEffect
  <2>4. CASE StopSignals \/ StopTimesOut
    BY <1>2, <2>4 DEF StopSignals, StopTimesOut
  <2> QED
    BY <1>2, <2>1, <2>2, <2>3, <2>4, StepsOfTheExit
<1>3. ASSUME child.ok, ~child.alive, ~Start, wait["waiter"] = "ctxErr" \/ Got("stop")
      PROVE  wait'["waiter"] = "ctxErr" \/ Got("stop")'
  <2>1. ASSUME NEW c \in Callers, WaitNext(c)
        PROVE  wait'["waiter"] = "ctxErr" \/ Got("stop")'
    BY <1>3, <2>1, WaitEffect DEF Got, Callers
  <2>2. CASE StopSignals
    BY <1>0, <1>3, <2>2 DEF StopSignals, WaitPc, OffTogether, Got, Waits, Callers
  <2>3. CASE WatchKills \/ StopTimesOut
    BY <1>3, <2>3 DEF WatchKills, StopTimesOut, Got
  <2> QED
    BY <1>3, <2>1, <2>2, <2>3, StepsOfTheExit DEF ChildExits, Got
<1> QED
  BY <1>1, <1>2, <1>3 DEF Excused

\* What was told stays right.
LEMMA ToldOfExitStays ==
    Types /\ OffTogether /\ ReapedByOne /\ ToldOfExit /\ Next => ToldOfExit'
<1> SUFFICES ASSUME Types, OffTogether, ReapedByOne, ToldOfExit, Next PROVE ToldOfExit'
  OBVIOUS
<1>0. child \in Children /\ monitor \in Monitors /\ waiter \in Waiters /\ told \in Histories
  BY DEF Types
<1>1. /\ ~child.alive /\ waiter # "off" => ~child'.alive /\ child'.ok = child.ok
      /\ Start \/ (child.ok /\ ~child.alive /\ Excused => Excused')
  BY ExitStays
<1>2. CASE Start
  <2>1. /\ told'.set = {"RUNNING"} /\ monitor'.msg = monitor.msg /\ waiter' = "wait"
    BY <1>0, <1>2 DEF Start, Histories, Monitors, Waiters
  <2>2. monitor.msg \notin {"ERROR", "FINISHED"}
    BY <1>2 DEF Start, OffTogether
  <2> QED
    BY <2>1, <2>2 DEF ToldOfExit
<1> DEFINE Late == waiter \in {"join", "unlist", "forget", "last", "returned"}
<1>3. CASE waiter' = "off"
  <2>1. OffTogether'
    BY OffTogetherStays
  <2> QED
    BY <1>3, <2>1 DEF OffTogether, ToldOfExit
<1>4. ASSUME waiter \notin {"off", "wait"}
      PROVE  /\ ~child.alive /\ waiter # "off"
             /\ wait["waiter"] = "nil" => child.ok
             /\ wait["waiter"] # "nil" /\ child.ok => Excused
  <2>1. Returned("waiter")
    BY <1>4 DEF OffTogether
  <2>2. child.reap # "no"
    BY <2>1 DEF ReapedByOne, Returned, Callers
  <2> QED
    BY <1>4, <2>1, <2>2 DEF ReapedByOne, Returned, Callers, Excused, Got
<1>4a. waiter # "off" => ~Start
  BY DEF Start, OffTogether
<1>5. ASSUME waiter # "off", ~Start, told'.set = told.set, monitor'.msg = monitor.msg,
             Late' => Late
      PROVE  ToldOfExit'
  BY <1>1, <1>4, <1>5 DEF ToldOfExit
<1>6. CASE MonitorTicks
  <2>1. /\ monitor'.msg = Verdict /\ told'.set = told.set /\ UNCHANGED <<child, waiter>>
        /\ child.reap = "reaped" => told'.misjudged
        /\ waiter # "off" /\ ~Start
    <3>1. monitor'.msg = Verdict /\ UNCHANGED <<child, waiter, handler>>
      BY <1>0, <1>6 DEF MonitorTicks, Monitors
    <3>2. waiter # "off" /\ ~Start
      BY <1>6 DEF MonitorTicks, OffTogether, Start
    <3> DEFINE mis == told.misjudged \/ child.reap = "reaped"
    <3>3. told' = [told EXCEPT !.misjudged = mis]
      BY <1>6 DEF MonitorTicks
    <3>4. child.reap = "reaped" => mis
      OBVIOUS
    <3> HIDE DEF mis
    <3>5. told'.misjudged = mis /\ told'.set = told.set
      BY <1>0, <3>3 DEF Histories
    <3> QED
      BY <3>1, <3>2, <3>4, <3>5
  <2>2. Verdict = "ERROR" => ~child.alive /\ (child.ok => child.reap = "reaped")
    BY <1>0 DEF Verdict, ReapedByOne, Children
  <2>3. Verdict = "FINISHED" => ~child.alive /\ child.ok
    BY <1>0 DEF Verdict, ReapedByOne, Children
  <2> QED
    BY <1>1, <2>1, <2>2, <2>3 DEF ToldOfExit, Excused
<1>7. CASE MonitorSends
  <2>1. monitor.msg \in Statuses /\ SendHealth(monitor.msg) /\ waiter # "off"
    BY <1>7 DEF MonitorSends, Types, OffTogether
  <2>2. /\ told'.set = told.set \cup {monitor.msg} /\ monitor'.msg = "none"
        /\ UNCHANGED <<child, waiter>>
    BY <1>0, <1>7, <2>1, SendHealthEffect DEF MonitorSends, Monitors
  <2> QED
    BY <1>1, <1>4a, <2>1, <2>2 DEF ToldOfExit
<1>8. CASE WaiterSends
  <2>1. /\ Outcome \in Statuses /\ SendHealth(Outcome) /\ waiter = "send"
        /\ Outcome = IF wait["waiter"] = "nil" THEN "FINISHED" ELSE "ERROR"
    BY <1>8 DEF WaiterSends, Outcome, Statuses
  <2>2. /\ told'.set = told.set \cup {Outcome} /\ UNCHANGED <<child, monitor>>
    BY <1>8, <2>1, SendHealthEffect DEF WaiterSends
  <2>3. /\ ~child.alive /\ (Outcome = "FINISHED" => child.ok)
        /\ Outcome = "ERROR" /\ child.ok => Excused
    BY <2>1, <1>4
  <2> QED
    BY <1>1, <1>4a, <2>1, <2>2, <2>3 DEF ToldOfExit
<1>9. CASE WaiterCloses
  <2>1. /\ told'.set = told.set \cup {"FINISHED"} /\ UNCHANGED <<child, monitor>>
        /\ waiter = "last"
    BY <1>0, <1>9 DEF WaiterCloses, Histories
  <2> QED
    BY <1>1, <1>4, <1>4a, <2>1 DEF ToldOfExit
<1>10. CASE UNCHANGED told /\ ~Start /\ ~MonitorTicks /\ ~MonitorSends
  <2>1. monitor'.msg = monitor.msg
    BY <1>0, <1>10 DEF Next, HandlerNext, StartFails, HandlerReads, HandlerReturns, HandlerFails,
       StreamEnds, ChildExits, WatchKills, WaitNext, WaitBegins, WaitReaps, WaitStores,
       WaitLosesReap, WaitReceives, ReaderNext, ReaderGetsLine, ReaderGetsStatus, ReaderSends,
       ReaderReturns, MonitorReturns, WaiterNext, WaiterReturnsFromWait, WaiterMarks, WaiterSends,
       WaiterJoins, WaiterUnlists, WaiterForgets, WaiterCloses, StopFinds, StopNext, StopMarks,
       StopSignals, StopAnswers, StopTimesOut, Subscribe, SubscriberBlocks, SubscriberServed,
       SubscriberLeaves, Monitors
  <2>2. CASE UNCHANGED waiter
    BY <1>3, <1>5, <1>10, <2>1, <2>2
  <2>3. CASE WaiterNext
    <3>1. (Late' => Late) \/ WaiterSends
      BY <1>0, <2>3 DEF WaiterNext, WaiterReturnsFromWait, WaiterMarks, WaiterJoins,
         WaiterUnlists, WaiterForgets, WaiterCloses, WaiterPc, Waiters
    <3>2. waiter # "off"
      BY <2>3 DEF WaiterNext, WaiterReturnsFromWait, WaiterMarks, WaiterSends,
         WaiterJoins, WaiterUnlists, WaiterForgets, WaiterCloses
    <3> QED
      BY <1>5, <1>8, <1>10, <2>1, <3>1, <3>2
  <2>4. UNCHANGED waiter \/ WaiterNext
    BY <1>10 DEF Next, HandlerNext, StartFails, HandlerReads, HandlerReturns, HandlerFails,
       StreamEnds, ChildExits, WatchKills, WaitNext, WaitBegins, WaitReaps, WaitStores,
       WaitLosesReap, WaitReceives, ReaderNext, ReaderGetsLine, ReaderGetsStatus, ReaderSends,
       ReaderReturns, MonitorReturns, StopFinds, StopNext, StopMarks, StopSignals, StopAnswers,
       StopTimesOut, Subscribe, SubscriberBlocks, SubscriberServed, SubscriberLeaves
  <2> QED
    BY <2>2, <2>3, <2>4
<1>11. UNCHANGED told \/ Start \/ MonitorTicks \/ MonitorSends \/ WaiterSends \/ WaiterCloses
  BY DEF Next, HandlerNext, StartFails, HandlerReads, HandlerReturns, HandlerFails, StreamEnds,
     ChildExits, WatchKills, WaitNext, WaitBegins, WaitReaps, WaitStores, WaitLosesReap,
     WaitReceives, ReaderNext, ReaderGetsLine, ReaderGetsStatus, ReaderSends, ReaderReturns,
     MonitorReturns, WaiterNext, WaiterReturnsFromWait, WaiterMarks, WaiterJoins, WaiterUnlists,
     WaiterForgets, StopFinds, StopNext, StopMarks, StopSignals, StopAnswers, StopTimesOut,
     Subscribe, SubscriberBlocks, SubscriberServed, SubscriberLeaves
<1> QED
  BY <1>2, <1>6, <1>7, <1>8, <1>9, <1>10, <1>11

\* The channel is closed when the goroutines that send on it have returned, after FINISHED.
LEMMA ClosedLastStays == Types /\ OffTogether /\ ClosedLast /\ Next => ClosedLast'
<1> SUFFICES ASSUME Types, OffTogether, ClosedLast, Next PROVE ClosedLast'
  OBVIOUS
<1>0. /\ out \in Channels /\ reader \in [Pipes -> Readers] /\ monitor \in Monitors
      /\ waiter \in Waiters /\ told \in Histories
  BY DEF Types
<1>1. CASE Start
  <2>1. waiter' = "wait" /\ ~out'.closed
    BY <1>0, <1>1 DEF Start, OffTogether, Waiters, Channels
  <2> QED
    BY <2>1 DEF ClosedLast
<1>2. CASE StartFails
  <2>1. waiter = "off" /\ UNCHANGED waiter
    BY <1>2 DEF StartFails, OffTogether
  <2> QED
    BY <2>1 DEF ClosedLast
<1>3. CASE HandlerReads \/ HandlerFails \/ StreamEnds
  <2>1. out'.closed = out.closed /\ UNCHANGED <<reader, monitor, waiter, told>>
    BY <1>0, <1>3 DEF HandlerReads, HandlerFails, StreamEnds, Channels
  <2> QED
    BY <2>1 DEF ClosedLast
<1>4. ASSUME NEW p \in Pipes, ReaderNext(p)
      PROVE  ClosedLast'
  <2>1. reader[p].pc \notin {"off", "returned"} /\ UNCHANGED <<monitor, waiter, told>>
    BY <1>4 DEF ReaderNext, ReaderGetsLine, ReaderGetsStatus, ReaderSends, ReaderReturns
  <2>2. out'.closed = out.closed
    BY <1>0, <1>4 DEF ReaderNext, ReaderGetsLine, ReaderGetsStatus, ReaderSends, ReaderReturns,
       Send, Channels
  <2> QED
    BY <2>1, <2>2 DEF ClosedLast
<1>5. CASE MonitorTicks \/ MonitorSends \/ MonitorReturns
  <2>1. monitor.pc # "returned" /\ UNCHANGED <<reader, waiter>>
    BY <1>5 DEF MonitorTicks, MonitorSends, MonitorReturns
  <2>2. out'.closed = out.closed
    BY <1>0, <1>5 DEF MonitorTicks, MonitorSends, MonitorReturns, SendHealth, Send, Channels
  <2> QED
    BY <2>1, <2>2 DEF ClosedLast
<1>6. CASE WaiterReturnsFromWait \/ WaiterMarks \/ WaiterSends
  <2>1. /\ waiter \notin {"off", "returned"}
        /\ waiter' \notin {"unlist", "forget", "last", "returned"}
    BY <1>0, <1>6 DEF WaiterReturnsFromWait, WaiterMarks, WaiterSends, WaiterPc,
       Waiters
  <2>2. out'.closed = out.closed
    BY <1>0, <1>6 DEF WaiterReturnsFromWait, WaiterMarks, WaiterSends, SendHealth,
       Send, Channels
  <2> QED
    BY <2>1, <2>2 DEF ClosedLast
<1>7. CASE WaiterJoins \/ WaiterUnlists \/ WaiterForgets
  BY <1>0, <1>7 DEF WaiterJoins, WaiterUnlists, WaiterForgets, WaiterPc, Waiters, ClosedLast
<1>8. CASE WaiterCloses
  <2>1. /\ waiter = "last" /\ waiter' = "returned" /\ told'.last = "FINISHED"
        /\ UNCHANGED <<reader, monitor>>
    BY <1>0, <1>8 DEF WaiterCloses, WaiterPc, Waiters, Histories
  <2> QED
    BY <2>1 DEF ClosedLast
<1>9. CASE UNCHANGED <<out, reader, monitor, waiter, told>>
  BY <1>9 DEF ClosedLast
<1>10. \/ HandlerNext \/ (\E p \in Pipes : ReaderNext(p)) \/ WaiterNext
       \/ MonitorTicks \/ MonitorSends \/ MonitorReturns
       \/ UNCHANGED <<out, reader, monitor, waiter, told>>
  BY DEF Next, ChildExits, WatchKills, WaitNext, WaitBegins, WaitReaps, WaitStores, WaitLosesReap,
     WaitReceives, StopFinds, StopNext, StopMarks, StopSignals, StopAnswers, StopTimesOut,
     Subscribe, SubscriberBlocks, SubscriberServed, SubscriberLeaves
<1>11. HandlerReturns => UNCHANGED <<out, reader, monitor, waiter, told>>
  BY DEF HandlerReturns
<1> QED
  BY <1>1, <1>2, <1>3, <1>4, <1>5, <1>6, <1>7, <1>8, <1>9, <1>10, <1>11 DEF HandlerNext,
     WaiterNext

\* The invariant holds of every state the executor reaches.
LEMMA ExecutorHolds == Spec => [](Types /\ ExecutorInv)
<1>1. Init => Types /\ ExecutorInv
  <2> SUFFICES ASSUME Init PROVE Types /\ ExecutorInv
    OBVIOUS
  <2>1. \A p \in Pipes : reader[p].pc = "off"
    BY DEF Init
  <2>2. Types
    BY Begins
  <2>3. OffTogether
    BY <2>1 DEF Init, OffTogether, Callers
  <2>4. ReapedByOne /\ ToldOfExit /\ ClosedLast
    BY DEF Init, ReapedByOne, ToldOfExit, ClosedLast, Got, Callers
  <2> QED
    BY <2>2, <2>3, <2>4 DEF ExecutorInv
<1>2. Types /\ ExecutorInv /\ [Next]_vars => (Types /\ ExecutorInv)'
  <2> SUFFICES ASSUME Types, ExecutorInv, [Next]_vars PROVE (Types /\ ExecutorInv)'
    OBVIOUS
  <2>1. Types'
    BY TypesAreInductive
  <2>2. CASE Next
    BY <2>1, <2>2, OffTogetherStays, ReapedByOneStays, ToldOfExitStays, ClosedLastStays
       DEF ExecutorInv
  <2>3. CASE UNCHANGED vars
    BY <2>1, <2>3 DEF vars, ExecutorInv, OffTogether, ReapedByOne, ToldOfExit, ClosedLast, Got,
       Excused, Returned
  <2> QED
    BY <2>2, <2>3
<1> QED
  BY <1>1, <1>2, PTL DEF Spec

-----------------------------------------------------------------------------
(* The theorems *)

\* When outputChan is closed no goroutine is left that could send on it.
THEOREM ClosedChannelIsLeftAlone == Spec => []NoSendAfterClose
<1>1. ExecutorInv => NoSendAfterClose
  BY DEF ExecutorInv, OffTogether, ClosedLast, NoSendAfterClose
<1> QED
  BY <1>1, ExecutorHolds, PTL

\* The failure of a process has been told before any FINISHED.
THEOREM FailuresAreToldFirst == Spec => []FailureToldFirst
<1>1. ExecutorInv => FailureToldFirst
  BY DEF ExecutorInv, ToldOfExit, FailureToldFirst
<1> QED
  BY <1>1, ExecutorHolds, PTL

\* A success is told as a failure only where a tick, the kill of the context or a Stop raced with
\* the waiter's cmd.Wait.
THEOREM MisjudgementsAreRaces == Spec => []SuccessMisjudged
<1>1. ExecutorInv => SuccessMisjudged
  BY DEF ExecutorInv, ToldOfExit, Excused, Got, SuccessMisjudged
<1> QED
  BY <1>1, ExecutorHolds, PTL

\* A process Stop calls stopped is gone, and its waiter gets an error from cmd.Wait or nothing.
THEOREM StoppedProcessIsGone == Spec => []StoppedIsGone
<1>1. Types /\ ExecutorInv => StoppedIsGone
  <2> SUFFICES ASSUME Types, ExecutorInv, stop.answer = "stopped"
               PROVE  /\ ~child.alive /\ child.ok
                      /\ child.watch = "taken"
                      /\ wait["waiter"] \in {"called", "inside", "receiveErr", "err"}
    BY DEF StoppedIsGone
  <2>1. wait["stop"] = "nil" /\ child.ok /\ child.watch = "taken"
    BY DEF ExecutorInv, ReapedByOne, Callers
  <2>2. child.reap # "no"
    BY <2>1 DEF ExecutorInv, ReapedByOne, Callers
  <2>3. ~Got("waiter")
    BY <2>1 DEF ExecutorInv, ReapedByOne, Got
  <2>4. waiter # "off" /\ wait["waiter"] # "off"
    BY <2>1 DEF ExecutorInv, OffTogether, Returned
  <2>5. wait \in Waits
    BY DEF Types
  <2> QED
    BY <2>1, <2>2, <2>3, <2>4, <2>5 DEF ExecutorInv, ReapedByOne, Got, Waits, Callers
<1> QED
  BY <1>1, ExecutorHolds, PTL
=============================================================================
