-------------------------- MODULE ProcessExecutor --------------------------
(***************************************************************************)
(* LocalProcessExecutor of the remote worker, for one process: the gRPC    *)
(* handler that reads outputChan, the goroutines Start leaves behind (two  *)
(* readers, the health monitor, the waiter), a call of Stop and a          *)
(* subscriber of MonitorHealth.  They share healthStatusMu, which the      *)
(* monitor, the waiter and the subscriber hold while they send on a        *)
(* channel: the mutex is one for all the processes of the executor.        *)
(***************************************************************************)
EXTENDS Naturals

CONSTANTS Pipes,      \* "stdout" and "stderr"
          OutputCap,  \* capacity of outputChan (100 in the code)
          MaxLines,   \* bound: lines the process writes on each pipe
          MaxTicks    \* bound: ticks on which the health monitor sends

ASSUME OutputCapAssumption == OutputCap \in Nat /\ OutputCap > 1
ASSUME BoundsAssumption == MaxLines \in Nat /\ MaxTicks \in Nat

VARIABLES
  child,       \* the process and its cmd: [alive, ok: it exited with 0, reap: what cmd knows of
               \* the exit, watch: the goroutine of cmd that waits for the context]
  out,         \* outputChan: how many messages are in it, and whether it is closed
  ctxDone,     \* the context of Start is done
  lock,        \* who holds healthStatusMu
  entry,       \* the status in healthStatuses, or "none"
  listed,      \* it is in processes
  handler,     \* the gRPC handler StartProcess
  reader,      \* of each pipe: the goroutine of readOutput, and the lines it has read
  monitor,     \* the health monitor: [pc, msg, ticks]
  waiter,      \* the goroutine of Start that waits for the process
  wait,        \* of each caller of cmd.Wait: its call, or what it returned
  stop,        \* a call of Stop and its answer: [pc, answer]
  subscriber,  \* a goroutine of MonitorHealth, one at a time
  told         \* history: the HEALTH messages sent, the last one, and a wrong verdict

vars == <<child, out, ctxDone, lock, entry, listed, handler, reader, monitor, waiter, wait,
          stop, subscriber, told>>

Callers == {"waiter", "stop"}

Init ==
    /\ child = [alive |-> FALSE, ok |-> FALSE, reap |-> "no", watch |-> "off"]
    /\ out = [queued |-> 0, closed |-> FALSE]
    /\ ctxDone = FALSE
    /\ lock = "free"
    /\ entry = "none"
    /\ listed = FALSE
    /\ handler = "starting"
    /\ reader = [p \in Pipes |-> [pc |-> "off", lines |-> 0]]
    /\ monitor = [pc |-> "off", msg |-> "none", ticks |-> 0]
    /\ waiter = "off"
    /\ wait = [c \in Callers |-> "off"]
    /\ stop = [pc |-> "off", answer |-> "none"]
    /\ subscriber = "off"
    /\ told = [set |-> {}, last |-> "none", misjudged |-> FALSE]

\* A send on outputChan blocks while it is full.
Send ==
    /\ out.queued < OutputCap
    /\ out' = [out EXCEPT !.queued = @ + 1]
SendHealth(status) ==
    /\ Send
    /\ told' = [told EXCEPT !.set = @ \cup {status}, !.last = status]

-----------------------------------------------------------------------------
(* Start, and the handler that called it *)

\* A pipe or the command fails: the channel is closed and the handler returns the error.
StartFails ==
    /\ handler = "starting"
    /\ handler' = "returned"
    /\ out' = [out EXCEPT !.closed = TRUE]
    /\ ctxDone' = TRUE
    /\ UNCHANGED <<child, lock, entry, listed, reader, monitor, waiter, wait, stop, subscriber,
                   told>>

\* Two messages stand for RUNNING and those sent before it; nobody reads the channel yet.
Start ==
    /\ handler = "starting"
    /\ handler' = "reading"
    /\ child' = [child EXCEPT !.alive = TRUE, !.watch = "on"]
    /\ out' = [out EXCEPT !.queued = 2]
    /\ told' = [told EXCEPT !.set = {"RUNNING"}, !.last = "RUNNING"]
    /\ entry' = "RUNNING" /\ listed' = TRUE
    /\ reader' = [p \in Pipes |-> [reader[p] EXCEPT !.pc = "scan"]]
    /\ monitor' = [monitor EXCEPT !.pc = "idle"]
    /\ waiter' = "wait" /\ wait' = [wait EXCEPT !["waiter"] = "called"]
    /\ UNCHANGED <<ctxDone, lock, stop, subscriber>>

HandlerReads ==
    /\ handler = "reading"
    /\ out.queued > 0
    /\ out' = [out EXCEPT !.queued = @ - 1]
    /\ UNCHANGED <<child, ctxDone, lock, entry, listed, handler, reader, monitor, waiter, wait,
                   stop, subscriber, told>>

HandlerReturns ==
    /\ handler = "reading"
    /\ out.queued = 0 /\ out.closed
    /\ handler' = "returned"
    /\ UNCHANGED <<child, out, ctxDone, lock, entry, listed, reader, monitor, waiter, wait, stop,
                   subscriber, told>>

\* stream.Send fails: the handler returns, its context is done and nobody drains the channel.
HandlerFails ==
    /\ handler = "reading"
    /\ out.queued > 0
    /\ out' = [out EXCEPT !.queued = @ - 1]
    /\ handler' = "gone"
    /\ ctxDone' = TRUE
    /\ UNCHANGED <<child, lock, entry, listed, reader, monitor, waiter, wait, stop, subscriber,
                   told>>

\* The client leaves or cancels the call before a Send shows it.
StreamEnds ==
    /\ handler = "reading" /\ ~ctxDone
    /\ ctxDone' = TRUE
    /\ UNCHANGED <<child, out, lock, entry, listed, handler, reader, monitor, waiter, wait, stop,
                   subscriber, told>>

-----------------------------------------------------------------------------
(* The process, and exec.Cmd: its Wait is called by the waiter and by Stop *)

ChildExits ==
    /\ child.alive
    /\ \E ok \in BOOLEAN : child' = [child EXCEPT !.alive = FALSE, !.ok = ok]
    /\ UNCHANGED <<out, ctxDone, lock, entry, listed, handler, reader, monitor, waiter, wait,
                   stop, subscriber, told>>

Exited == handler # "starting" /\ ~child.alive
WaitPc(c, pc) == wait' = [wait EXCEPT ![c] = pc]

\* exec.CommandContext: when the context is done the watching goroutine kills the process.  The
\* kill succeeds until the exit has been reaped, on a process that has ended with 0 too; its
\* result is then the context's error, which Wait returns for want of another.
WatchKills ==
    /\ child.watch = "on" /\ ctxDone
    /\ child' = IF child.reap = "no"
                THEN [child EXCEPT !.alive = FALSE, !.ok = @ /\ ~child.alive, !.watch = "killed"]
                ELSE [child EXCEPT !.watch = "late"]
    /\ UNCHANGED <<out, ctxDone, lock, entry, listed, handler, reader, monitor, waiter, wait, stop,
                   subscriber, told>>

\* cmd.Wait returns an error at once when cmd.ProcessState is set.
WaitBegins(c) ==
    /\ wait[c] = "called"
    /\ WaitPc(c, IF child.reap = "known" THEN "err" ELSE "inside")
    /\ UNCHANGED <<child, out, ctxDone, lock, entry, listed, handler, reader, monitor, waiter, stop,
                   subscriber, told>>

\* One caller reaps the exit (os.Process knows it) ...
WaitReaps(c) ==
    /\ wait[c] = "inside"
    /\ Exited /\ child.reap = "no"
    /\ child' = [child EXCEPT !.reap = "reaped"]
    /\ WaitPc(c, "reaped")
    /\ UNCHANGED <<out, ctxDone, lock, entry, listed, handler, reader, monitor, waiter, stop,
                   subscriber, told>>

\* ... and stores it in cmd.ProcessState;
WaitStores(c) ==
    /\ wait[c] = "reaped"
    /\ child' = [child EXCEPT !.reap = "known"]
    /\ WaitPc(c, IF child.ok THEN "receive" ELSE "receiveErr")
    /\ UNCHANGED <<out, ctxDone, lock, entry, listed, handler, reader, monitor, waiter, stop,
                   subscriber, told>>

\* the other has an error, and stores a nil there.
WaitLosesReap(c) ==
    /\ wait[c] = "inside"
    /\ Exited /\ child.reap # "no"
    /\ child' = [child EXCEPT !.reap = "reaped"]
    /\ WaitPc(c, "receiveErr")
    /\ UNCHANGED <<out, ctxDone, lock, entry, listed, handler, reader, monitor, waiter, stop,
                   subscriber, told>>

\* Both then receive the one value the watching goroutine sends on ctxResult, which is not
\* buffered: the second waits for ever.
WaitReceives(c) ==
    /\ wait[c] \in {"receive", "receiveErr"}
    /\ child.watch \in {"on", "late", "killed"}
    /\ child' = [child EXCEPT !.watch = "taken"]
    /\ WaitPc(c, CASE wait[c] = "receiveErr" -> "err"
                   [] wait[c] = "receive" ->
                        IF child.watch = "killed" THEN "ctxErr" ELSE "nil")
    /\ UNCHANGED <<out, ctxDone, lock, entry, listed, handler, reader, monitor, waiter, stop,
                   subscriber, told>>

WaitNext(c) ==
    WaitBegins(c) \/ WaitReaps(c) \/ WaitStores(c) \/ WaitLosesReap(c) \/ WaitReceives(c)

Returned(c) == wait[c] \in {"nil", "err", "ctxErr"}

-----------------------------------------------------------------------------
(* readOutput *)

ReaderPc(p, pc) == reader' = [reader EXCEPT ![p].pc = pc]

\* Lines left in the pipe or in the scanner's buffer may come after the exit.
ReaderGetsLine(p) ==
    /\ reader[p].pc = "scan" /\ reader[p].lines < MaxLines
    /\ reader' = [reader EXCEPT ![p] = [pc |-> "status", lines |-> @.lines + 1]]
    /\ UNCHANGED <<child, out, ctxDone, lock, entry, listed, handler, monitor, waiter, wait, stop,
                   subscriber, told>>

\* getProcessStatus, evaluated before the select.
ReaderGetsStatus(p) ==
    /\ reader[p].pc = "status"
    /\ lock = "free"
    /\ ReaderPc(p, "send")
    /\ UNCHANGED <<child, out, ctxDone, lock, entry, listed, handler, monitor, waiter, wait, stop,
                   subscriber, told>>

ReaderSends(p) ==
    /\ reader[p].pc = "send"
    /\ Send
    /\ ReaderPc(p, "scan")
    /\ UNCHANGED <<child, ctxDone, lock, entry, listed, handler, monitor, waiter, wait, stop,
                   subscriber, told>>

\* The end of the pipe, or the context is done; a line in hand is lost.
ReaderReturns(p) ==
    /\ \/ reader[p].pc = "scan" /\ (ctxDone \/ Exited)
       \/ reader[p].pc = "send" /\ ctxDone
    /\ ReaderPc(p, "returned")
    /\ UNCHANGED <<child, out, ctxDone, lock, entry, listed, handler, monitor, waiter, wait, stop,
                   subscriber, told>>

ReaderNext(p) == ReaderGetsLine(p) \/ ReaderGetsStatus(p) \/ ReaderSends(p) \/ ReaderReturns(p)

-----------------------------------------------------------------------------
(* The health monitor *)

\* Mutant: the exit code is not looked at.
VerdictOfAnyExit == IF child.reap = "no" THEN "none" ELSE "ERROR"

\* What a tick concludes: nothing while signal 0 reaches the process; an error when it does not
\* and cmd.ProcessState is nil, whatever the exit was.
Verdict ==
    CASE child.reap = "no"     -> "none"
      [] child.reap = "reaped" -> "ERROR"
      [] child.reap = "known"  -> IF child.ok THEN "FINISHED" ELSE "ERROR"

\* The status is sent before the mutex is released.
MonitorTicks ==
    /\ monitor.pc = "idle" /\ monitor.ticks < MaxTicks
    /\ lock = "free"
    /\ entry # "none" /\ Verdict # "none"
    /\ entry' = Verdict
    /\ lock' = "monitor"
    /\ monitor' = [pc |-> "send", msg |-> Verdict, ticks |-> monitor.ticks + 1]
    /\ told' = [told EXCEPT !.misjudged = @ \/ child.reap = "reaped"]
    /\ UNCHANGED <<child, out, ctxDone, listed, handler, reader, waiter, wait, stop, subscriber>>

MonitorSends ==
    /\ monitor.pc = "send"
    /\ SendHealth(monitor.msg)
    /\ lock' = "free"
    /\ monitor' = [monitor EXCEPT !.pc = "idle", !.msg = "none"]
    /\ UNCHANGED <<child, ctxDone, entry, listed, handler, reader, waiter, wait, stop,
                   subscriber>>

MonitorReturns ==
    /\ monitor.pc = "idle" /\ ctxDone
    /\ monitor' = [monitor EXCEPT !.pc = "returned"]
    /\ UNCHANGED <<child, out, ctxDone, lock, entry, listed, handler, reader, waiter, wait, stop,
                   subscriber, told>>

-----------------------------------------------------------------------------
(* The waiter *)

WaiterPc(pc) == waiter' = pc

\* Mutant: the context is not cancelled after cmd.Wait.
WaiterForgetsCancel ==
    /\ waiter = "wait" /\ Returned("waiter")
    /\ WaiterPc("mark")
    /\ UNCHANGED <<child, out, ctxDone, lock, entry, listed, handler, reader, monitor, wait, stop,
                   subscriber, told>>

\* cmd.Wait returns, and cancel() follows.
WaiterReturnsFromWait ==
    /\ waiter = "wait" /\ Returned("waiter")
    /\ ctxDone' = TRUE
    /\ WaiterPc("mark")
    /\ UNCHANGED <<child, out, lock, entry, listed, handler, reader, monitor, wait, stop,
                   subscriber, told>>

Outcome == IF wait["waiter"] = "nil" THEN "FINISHED" ELSE "ERROR"

\* It replaces a STOPPED too.
WaiterMarks ==
    /\ waiter = "mark"
    /\ lock = "free"
    /\ entry' = Outcome
    /\ lock' = "waiter"
    /\ WaiterPc("send")
    /\ UNCHANGED <<child, out, ctxDone, listed, handler, reader, monitor, wait, stop, subscriber,
                   told>>

\* Mutant: the outcome of a process that failed is not sent.
WaiterSendsSuccess ==
    /\ waiter = "send"
    /\ IF Outcome = "ERROR" THEN UNCHANGED <<out, told>> ELSE SendHealth(Outcome)
    /\ lock' = "free"
    /\ WaiterPc("join")
    /\ UNCHANGED <<child, ctxDone, entry, listed, handler, reader, monitor, wait, stop,
                   subscriber>>

WaiterSends ==
    /\ waiter = "send"
    /\ SendHealth(Outcome)
    /\ lock' = "free"
    /\ WaiterPc("join")
    /\ UNCHANGED <<child, ctxDone, entry, listed, handler, reader, monitor, wait, stop,
                   subscriber>>

\* Mutant: the goroutines that send are not waited for.
WaiterJoinsNobody ==
    /\ waiter = "join"
    /\ WaiterPc("unlist")
    /\ UNCHANGED <<child, out, ctxDone, lock, entry, listed, handler, reader, monitor, wait, stop,
                   subscriber, told>>

\* wg.Wait()
WaiterJoins ==
    /\ waiter = "join"
    /\ monitor.pc = "returned" /\ \A p \in Pipes : reader[p].pc = "returned"
    /\ WaiterPc("unlist")
    /\ UNCHANGED <<child, out, ctxDone, lock, entry, listed, handler, reader, monitor, wait, stop,
                   subscriber, told>>

WaiterUnlists ==
    /\ waiter = "unlist"
    /\ listed' = FALSE
    /\ WaiterPc("forget")
    /\ UNCHANGED <<child, out, ctxDone, lock, entry, handler, reader, monitor, wait, stop,
                   subscriber, told>>

WaiterForgets ==
    /\ waiter = "forget"
    /\ lock = "free"
    /\ entry' = "none"
    /\ WaiterPc("last")
    /\ UNCHANGED <<child, out, ctxDone, lock, listed, handler, reader, monitor, wait, stop,
                   subscriber, told>>

\* FINISHED in any case, then close.
WaiterCloses ==
    /\ waiter = "last"
    /\ out.queued < OutputCap
    /\ out' = [queued |-> out.queued + 1, closed |-> TRUE]
    /\ told' = [told EXCEPT !.set = @ \cup {"FINISHED"}, !.last = "FINISHED"]
    /\ WaiterPc("returned")
    /\ UNCHANGED <<child, ctxDone, lock, entry, listed, handler, reader, monitor, wait, stop,
                   subscriber>>

WaiterNext ==
    \/ WaiterReturnsFromWait \/ WaiterMarks \/ WaiterSends \/ WaiterJoins
    \/ WaiterUnlists \/ WaiterForgets \/ WaiterCloses

-----------------------------------------------------------------------------
(* Stop *)

StopFinds ==
    /\ stop.pc = "off" /\ handler # "starting"
    /\ stop' = IF listed THEN [stop EXCEPT !.pc = "mark"]
               ELSE [stop EXCEPT !.pc = "returned", !.answer = "error"]
    /\ UNCHANGED <<child, out, ctxDone, lock, entry, listed, handler, reader, monitor, waiter,
                   wait, subscriber, told>>

StopMarks ==
    /\ stop.pc = "mark"
    /\ lock = "free"
    /\ entry' = IF entry = "none" THEN entry ELSE "STOPPED"
    /\ stop' = [stop EXCEPT !.pc = "signal"]
    /\ UNCHANGED <<child, out, ctxDone, lock, listed, handler, reader, monitor, waiter, wait,
                   subscriber, told>>

\* SIGTERM, which the process may ignore or end on (ChildExits).  Once it has been reaped
\* neither SIGTERM nor SIGKILL can be sent, and Stop answers with an error.
StopSignals ==
    /\ stop.pc = "signal"
    /\ IF child.reap # "no"
       THEN /\ stop' = [stop EXCEPT !.pc = "returned", !.answer = "error"]
            /\ UNCHANGED wait
       ELSE /\ stop' = [stop EXCEPT !.pc = "wait"]
            /\ WaitPc("stop", "called")
    /\ UNCHANGED <<child, out, ctxDone, lock, entry, listed, handler, reader, monitor, waiter,
                   subscriber, told>>

\* Mutant: what cmd.Wait returned is not looked at.
StopAnswersAlwaysWell ==
    /\ stop.pc = "wait" /\ Returned("stop")
    /\ stop' = [stop EXCEPT !.pc = "returned", !.answer = "stopped"]
    /\ UNCHANGED <<child, out, ctxDone, lock, entry, listed, handler, reader, monitor, waiter, wait,
                   subscriber, told>>

\* The result of its own cmd.Wait.
StopAnswers ==
    /\ stop.pc = "wait" /\ Returned("stop")
    /\ stop' = [stop EXCEPT !.pc = "returned",
                            !.answer = IF wait["stop"] = "nil" THEN "stopped" ELSE "error"]
    /\ UNCHANGED <<child, out, ctxDone, lock, entry, listed, handler, reader, monitor, waiter, wait,
                   subscriber, told>>

\* After 5 seconds: SIGKILL, and an error.
StopTimesOut ==
    /\ stop.pc = "wait"
    /\ child' = IF child.alive THEN [child EXCEPT !.alive = FALSE, !.ok = FALSE] ELSE child
    /\ stop' = [stop EXCEPT !.pc = "returned", !.answer = "error"]
    /\ UNCHANGED <<out, ctxDone, lock, entry, listed, handler, reader, monitor, waiter, wait,
                   subscriber, told>>

StopNext == StopMarks \/ StopSignals \/ StopAnswers \/ StopTimesOut

-----------------------------------------------------------------------------
(* MonitorHealth *)

Subscribe ==
    /\ subscriber = "off" /\ listed
    /\ subscriber' = "idle"
    /\ UNCHANGED <<child, out, ctxDone, lock, entry, listed, handler, reader, monitor, waiter,
                   wait, stop, told>>

\* healthChan is full: the subscriber waits for its client with the mutex in hand.  A tick that
\* finds room changes nothing.
SubscriberBlocks ==
    /\ subscriber = "idle"
    /\ lock = "free" /\ entry # "none"
    /\ lock' = "subscriber"
    /\ subscriber' = "send"
    /\ UNCHANGED <<child, out, ctxDone, entry, listed, handler, reader, monitor, waiter, wait,
                   stop, told>>

\* The client reads, or it leaves and the goroutine returns.
SubscriberServed ==
    /\ subscriber = "send"
    /\ lock' = "free"
    /\ subscriber' \in {"idle", "off"}
    /\ UNCHANGED <<child, out, ctxDone, entry, listed, handler, reader, monitor, waiter, wait,
                   stop, told>>

SubscriberLeaves ==
    /\ subscriber = "idle"
    /\ subscriber' = "off"
    /\ UNCHANGED <<child, out, ctxDone, lock, entry, listed, handler, reader, monitor, waiter,
                   wait, stop, told>>

-----------------------------------------------------------------------------
HandlerNext == Start \/ StartFails \/ HandlerReads \/ HandlerReturns \/ HandlerFails
               \/ StreamEnds

Next ==
    \/ HandlerNext \/ ChildExits \/ WatchKills
    \/ (\E c \in Callers : WaitNext(c))
    \/ (\E p \in Pipes : ReaderNext(p))
    \/ MonitorTicks \/ MonitorSends \/ MonitorReturns
    \/ WaiterNext
    \/ StopFinds \/ StopNext
    \/ Subscribe \/ SubscriberBlocks \/ SubscriberServed \/ SubscriberLeaves

Spec == Init /\ [][Next]_vars

\* Ready goroutines run, one that waits for the mutex gets it in the end (a Go mutex is not
\* starved: strong fairness), and the client of MonitorHealth reads or leaves.  The process
\* need not exit unless it is killed.
Fairness ==
    /\ WF_vars(HandlerReads \/ HandlerReturns) /\ WF_vars(WatchKills)
    /\ \A c \in Callers : WF_vars(WaitNext(c))
    /\ \A p \in Pipes : SF_vars(ReaderNext(p))
    /\ WF_vars(MonitorSends \/ MonitorReturns)
    /\ SF_vars(WaiterNext) /\ SF_vars(StopNext)
    /\ WF_vars(SubscriberServed)

FairSpec == Spec /\ Fairness

-----------------------------------------------------------------------------
(* Properties *)

Statuses == {"RUNNING", "ERROR", "FINISHED", "STOPPED"}

TypeOK ==
    /\ child \in [alive : BOOLEAN, ok : BOOLEAN, reap : {"no", "reaped", "known"},
                   watch : {"off", "on", "late", "killed", "taken"}]
    /\ out \in [queued : 0..OutputCap, closed : BOOLEAN]
    /\ ctxDone \in BOOLEAN /\ listed \in BOOLEAN
    /\ lock \in {"free", "monitor", "waiter", "subscriber"}
    /\ entry \in {"none"} \cup Statuses
    /\ handler \in {"starting", "reading", "gone", "returned"}
    /\ reader \in [Pipes -> [pc : {"off", "scan", "status", "send", "returned"},
                              lines : 0..MaxLines]]
    /\ monitor \in [pc : {"off", "idle", "send", "returned"}, msg : {"none"} \cup Statuses,
                     ticks : 0..MaxTicks]
    /\ waiter \in {"off", "wait", "mark", "send", "join", "unlist", "forget", "last", "returned"}
    /\ wait \in [Callers -> {"off", "called", "inside", "reaped", "receive", "receiveErr",
                               "nil", "err", "ctxErr"}]
    /\ stop \in [pc : {"off", "mark", "signal", "wait", "returned"},
                  answer : {"none", "stopped", "error"}]
    /\ subscriber \in {"off", "idle", "send"}
    /\ told \in [set : SUBSET Statuses, last : {"none"} \cup Statuses, misjudged : BOOLEAN]

\* Nobody is left who could send on outputChan when it is closed (a send would panic): the
\* WaitGroup covers every goroutine that sends, and FINISHED is the last message.
NoSendAfterClose ==
    out.closed =>
       /\ \A p \in Pipes : reader[p].pc \in {"off", "returned"}
       /\ monitor.pc \in {"off", "returned"} /\ waiter \in {"off", "returned"}
       /\ told.last \in {"none", "FINISHED"}

\* A process that failed has been told to have failed before any FINISHED is sent.
FailureToldFirst ==
    "FINISHED" \in told.set /\ waiter # "off" /\ ~child.ok => "ERROR" \in told.set

\* A process that succeeded is told to have failed only if a tick fell between its being reaped
\* and cmd knowing it, if the kill of the context still reached it before it was reaped, or if
\* Stop took its exit from the waiter.
SuccessMisjudged ==
    "ERROR" \in told.set /\ ~child.alive /\ child.ok
        => \/ told.misjudged
           \/ wait["waiter"] = "ctxErr"
           \/ wait["stop"] \in {"reaped", "receive", "nil", "ctxErr"}

\* Stop answers "stopped" only for a process that is gone, exited with 0, and was reaped by Stop
\* itself: of the waiter's own Wait comes an error, or nothing at all, for Stop has received the
\* one value of ctxResult.
StoppedIsGone ==
    stop.answer = "stopped" =>
       /\ ~child.alive /\ child.ok
       /\ child.watch = "taken"
       /\ wait["waiter"] \in {"called", "inside", "receiveErr", "err"}

\* The waiter is in its Wait for ever.
WaitStolen == wait["waiter"] \in {"receive", "receiveErr"} /\ child.watch = "taken"

\* The process that exits is cleaned up and its channel closed, as long as its handler reads and
\* Stop's Wait has not left the waiter's without an answer.
EndsUnlessAbandoned == Exited ~> (out.closed \/ handler = "gone" \/ WaitStolen)

\* docs/remote_process.md:89, StopProcess stops a running process: the call is answered.
StopIsAnswered == (stop.pc = "mark") ~> (stop.pc = "returned")
=============================================================================
