--------------------------- MODULE FileSyncProofs ---------------------------
(***************************************************************************)
(* What TLAPS proves of the file synchronisation, for any number of calls, *)
(* any names, trees and requests and any capacity of the channels: that    *)
(* sharing one progress channel harms only calls that overlap, that a      *)
(* client that stays hears a verdict, and what Done means.                 *)
(*                                                                         *)
(* The two threads of a call take many kinds of steps.  WorkEffect,        *)
(* HandlerKeeps and CallKeeps say what all of them leave alone; the        *)
(* invariants are proved from these, thread by thread.                     *)
(***************************************************************************)
EXTENDS FileSync, SequenceTheorems, WellFoundedInduction, TLAPS

\* The ranges of the fields.
WorkerPcs == {"none", "spawned", "validating", "scanning", "files", "copying", "closing", "ended"}
HandlerPcs == {"idle", "calling", "forwarding", "receiving", "returned"}
ServiceNames == {"files", "directory", "upload", "list", "remove"}
SyncNames == {"files", "directory"}
Named == Names \cup {0}
SyncRequests == UNION {UNION {Requests[c][s] : s \in SyncNames} : c \in Calls}
AnyRequest == SyncRequests \cup {<<>>}

Workers == [pc : WorkerPcs, closes : Calls \cup {NoCall}, listed : SUBSET Named,
            todo : SUBSET Named, file : Named, copied : Nat, errors : Nat]
Uploads == [name : Named, isOpen : BOOLEAN]
Handlers == [pc : HandlerPcs, service : ServiceNames \cup {"none"}, request : AnyRequest,
             reads : Calls \cup {NoCall}, ctxDone : BOOLEAN, upload : Uploads,
             leaked : Nat, received : Nat]
Clients == [last : Messages, gone : BOOLEAN, mixed : BOOLEAN, alone : BOOLEAN,
            dropped : BOOLEAN]
Channels == [queue : Seq(Messages), closed : BOOLEAN]

\* The types, field by field, in the form the proofs use.
Types ==
    /\ fs \in [Dirs \X Names -> Nodes]
    /\ progressChan \in Calls \cup {NoCall}
    /\ chan \in [Calls -> Channels]
    /\ \A c \in Calls : Len(chan[c].queue) <= ProgressCap
    /\ worker \in [Calls -> Workers]
    /\ handler \in [Calls -> Handlers]
    /\ client \in [Calls -> Clients]
    /\ crashed \in BOOLEAN
    /\ faults \in 0..MaxFaults

Sync(c) == handler[c].service \in SyncNames
Running(c) == worker[c].pc \notin {"none", "spawned", "ended"}

\* Where the two threads of a call are, and what they have by then.
Located(c) ==
    /\ handler[c].pc = "idle" => worker[c].pc = "none" /\ handler[c].service = "none"
    /\ worker[c].pc # "none" => Sync(c) /\ progressChan \in Calls
    /\ handler[c].pc \in {"calling", "forwarding"} => Sync(c) /\ worker[c].pc # "none"
    /\ handler[c].pc = "receiving" => handler[c].service = "upload"
    /\ handler[c].pc = "forwarding" => handler[c].reads \in Calls
    /\ Running(c) => worker[c].closes \in Calls
    /\ handler[c].service # "files" => 0 \notin worker[c].todo
    /\ worker[c].pc = "copying" => worker[c].file \in Names
    /\ handler[c].upload.isOpen => handler[c].upload.name \in Names

Shape == Types /\ \A c \in Calls : Located(c)

-----------------------------------------------------------------------------
(* Helpers *)

\* A set of names that is not empty has a least one.
LEMMA MinIsIn == ASSUME NEW S \in SUBSET Nat, S # {} PROVE Min(S) \in S
<1>1. PICK x \in S : \A y \in S : ~(<<y, x>> \in OpToRel(<, Nat))
  BY NatLessThanWellFounded, WFMin
<1>2. \A y \in S : ~(y < x)
  <2>1. \A y \in Nat : y < x => <<y, x>> \in OpToRel(<, Nat)
    BY Zenon DEF OpToRel
  <2> QED
    BY <1>1, <2>1
<1>3. \A y \in S : x <= y
  BY <1>2
<1> QED
  BY <1>3 DEF Min

\* A block written leaves a file of blocks.
LEMMA WriteKeepsNode ==
    ASSUME NEW node \in Nodes, NEW i \in Nat \ {0}, NEW b \in Blocks
    PROVE  Write(node, i, b) \in Nodes
<1> DEFINE m == Max({i, Len(node.content)})
           new == [j \in 1..m |-> IF j = i THEN b
                                  ELSE IF j <= Len(node.content) THEN node.content[j] ELSE "hole"]
<1>1. node.content \in Seq(Blocks) /\ Len(node.content) \in Nat
  BY DEF Nodes
<1>2. m \in Nat
  <2>1. \E x \in {i, Len(node.content)} : \A y \in {i, Len(node.content)} : x >= y
    BY <1>1
  <2> QED
    BY <1>1, <2>1 DEF Max
<1> HIDE DEF m
<1>3. new \in Seq(Blocks)
  <2>1. new \in [1..m -> Blocks]
    BY <1>1, ElementOfSeq DEF Blocks
  <2> HIDE DEF new
  <2> QED
    BY <1>2, <2>1, SeqDef
<1> HIDE DEF new
<1>4. Write(node, i, b) = IF node.type # "file" THEN node
                          ELSE [node EXCEPT !.mtime = "now", !.content = new]
  BY DEF Write, new, m
<1> QED
  BY <1>3, <1>4 DEF Nodes

\* The contents the operations put in place of what was there.
LEMMA SimpleNodes == /\ Absent \in Nodes /\ Empty \in Nodes /\ Link \in Nodes
                  /\ \A node \in Nodes : Opened(node) \in Nodes
<1>1. <<>> \in Seq(Blocks) /\ <<"target">> \in Seq(Blocks)
  BY DEF Blocks
<1> QED
  BY <1>1 DEF Absent, Empty, Link, Nodes, Opened

\* A message sent: only the channel that the field holds changes, or what the sender lost.
LEMMA SendEffect ==
    ASSUME Types, progressChan \in Calls, NEW c \in Calls, NEW action \in Actions,
           NEW errors \in Nat, sendProgress(c, action, errors)
    PROVE  /\ chan' \in [Calls -> Channels]
           /\ \A d \in Calls : Len(chan[d].queue)' <= ProgressCap
           /\ client' \in [Calls -> Clients]
           /\ crashed' \in BOOLEAN
           /\ \A d \in Calls :
                 /\ chan'[d].closed = chan[d].closed
                 /\ d # progressChan => chan'[d].queue = chan[d].queue
                 /\ client'[d].last = client[d].last
                 /\ client'[d].gone = client[d].gone
                 /\ client'[d].mixed = client[d].mixed
                 /\ client'[d].alone = client[d].alone
                 /\ d # c => client'[d].dropped = client[d].dropped
           /\ \/ chan[progressChan].closed /\ crashed' /\ chan' = chan /\ client' = client
              \/ crashed' = crashed /\ client'[c].dropped /\ chan' = chan
              \/ /\ crashed' = crashed /\ client' = client
                 /\ chan'[progressChan].queue = Append(chan[progressChan].queue,
                        [of |-> c, action |-> action, errors |-> errors])
<1> DEFINE to == progressChan
           m == [of |-> c, action |-> action, errors |-> errors]
           q == Append(chan[to].queue, m)
<1>1. m \in Messages
  BY DEF Messages
<1>2. chan[to].queue \in Seq(Messages) /\ chan[to].closed \in BOOLEAN
  BY DEF Types, Channels
<1>3. q \in Seq(Messages) /\ Len(q) = Len(chan[to].queue) + 1
  BY <1>1, <1>2, AppendProperties
<1>4. \/ chan[to].closed /\ crashed' = TRUE /\ chan' = chan /\ client' = client
      \/ crashed' = crashed /\ client' = [client EXCEPT ![c].dropped = TRUE] /\ chan' = chan
      \/ /\ crashed' = crashed /\ client' = client /\ chan' = [chan EXCEPT ![to].queue = q]
         /\ Len(chan[to].queue) # ProgressCap
  BY DEF sendProgress
<1> HIDE DEF q, m
<1>5. CASE chan[to].closed /\ crashed' = TRUE /\ chan' = chan /\ client' = client
  BY <1>5 DEF Types
<1>6. CASE crashed' = crashed /\ client' = [client EXCEPT ![c].dropped = TRUE] /\ chan' = chan
  BY <1>6 DEF Types, Clients
<1>7. CASE /\ crashed' = crashed /\ client' = client /\ chan' = [chan EXCEPT ![to].queue = q]
           /\ Len(chan[to].queue) # ProgressCap
  <2>1. Len(q) <= ProgressCap
    BY <1>2, <1>3, <1>7, ServiceAssumption DEF Types
  <2> QED
    BY <1>3, <1>7, <2>1 DEF Types, Channels, q, m
<1> QED
  BY <1>4, <1>5, <1>6, <1>7

\* The types and places of the initial states.
LEMMA InitShape == Init => Shape
<1> SUFFICES ASSUME Init PROVE Shape
  OBVIOUS
<1>1. fs \in [Dirs \X Names -> Nodes]
  BY TreesAssumption DEF Init
<1>2. NoMessage \in Messages /\ <<>> \in Seq(Messages) /\ Len(<<>>) = 0
  BY DEF NoMessage, Messages, Actions
<1>3. IdleWorker \in Workers /\ IdleWorker.pc = "none" /\ IdleWorker.todo = {}
  BY DEF IdleWorker, Workers, WorkerPcs, Named
<1>4. /\ IdleHandler \in Handlers /\ IdleHandler.pc = "idle"
      /\ IdleHandler.service = "none" /\ ~IdleHandler.upload.isOpen
  <2>1. <<>> \in AnyRequest
    BY DEF AnyRequest
  <2>2. NoUpload \in Uploads /\ ~NoUpload.isOpen
    BY DEF NoUpload, Uploads, Named
  <2> QED
    BY <2>1, <2>2 DEF IdleHandler, Handlers, HandlerPcs
<1>5. NewClient \in Clients
  BY <1>2 DEF NewClient, Clients
<1>6. [queue |-> <<>>, closed |-> FALSE] \in Channels
  BY <1>2 DEF Channels
<1>7. Types
  <2>1. chan \in [Calls -> Channels] /\ \A c \in Calls : Len(chan[c].queue) <= ProgressCap
    BY <1>2, <1>6, ServiceAssumption DEF Init
  <2>2. faults \in 0..MaxFaults
    <3>1. MaxFaults \in Nat
      BY ServiceAssumption
    <3> QED
      BY <3>1 DEF Init
  <2>4. crashed \in BOOLEAN /\ progressChan = NoCall
    BY DEF Init
  <2>3. /\ worker \in [Calls -> Workers] /\ handler \in [Calls -> Handlers]
        /\ client \in [Calls -> Clients]
    BY <1>3, <1>4, <1>5 DEF Init
  <2> QED
    BY <1>1, <2>1, <2>2, <2>3, <2>4 DEF Types
<1>8. ASSUME NEW c \in Calls PROVE Located(c)
  BY <1>3, <1>4 DEF Init, Located, Running
<1> QED
  BY <1>7, <1>8 DEF Shape

-----------------------------------------------------------------------------
(* The goroutine *)

\* What the goroutine of c becomes, w.
Becomes(c, w) ==
    /\ worker' = [worker EXCEPT ![c] = w]
    /\ w \in Workers
    /\ w.pc \notin {"none", "spawned"}
    /\ \/ w.pc = "ended"
       \/ worker[c].pc # "spawned" /\ w.closes = worker[c].closes
       \/ worker[c].pc = "spawned" /\ w.closes = progressChan
    /\ handler[c].service # "files" => 0 \notin w.todo
    /\ w.pc = "copying" => w.file \in Names

\* What it reports: nothing, unless its context is done, when it gives up; or a message,
\* which is a verdict when it gives up.
Reports(c, w) ==
    \/ NoReport /\ (w.pc = "closing" => handler[c].ctxDone) /\ w.pc # "ended"
    \/ /\ w.pc # "ended"
       /\ \E action \in Actions, errors \in Nat :
             /\ sendProgress(c, action, errors)
             /\ w.pc = "closing" => action \in {"Done", "Error"}
    \/ CloseChan(c) /\ w.pc = "ended"

\* What no step of a goroutine disturbs, and the file system.
Quiet == /\ handler' = handler /\ progressChan' = progressChan
         /\ fs' \in [Dirs \X Names -> Nodes]
         /\ faults' \in 0..MaxFaults

WorkEffect(c) ==
    /\ ~crashed
    /\ worker[c].pc \notin {"none", "ended"}
    /\ worker[c].pc = "closing" => CloseChan(c)
    /\ Quiet
    /\ \E w \in Workers : Becomes(c, w) /\ Reports(c, w)

\* A failure stays within its bound.
LEMMA FailEffect == Types /\ Fail => faults' \in 0..MaxFaults
BY ServiceAssumption DEF Types, Fail, CanFail

\* An error counted, at a point of the loop over the files.
LEMMA CountErrorEffect ==
    ASSUME Shape, NEW c \in Calls, Running(c), NEW n, CountError(c, n)
    PROVE  \E w \in Workers : Becomes(c, w) /\ w.pc = "files" /\ w.errors = worker[c].errors + 1
<1> DEFINE w == [worker[c] EXCEPT !.todo = @ \ {n}, !.errors = @ + 1, !.pc = "files"]
<1>1. worker[c] \in Workers /\ Located(c)
  BY DEF Shape, Types
<1>2. /\ w \in Workers /\ w.pc = "files" /\ w.errors = worker[c].errors + 1
      /\ w.todo = worker[c].todo \ {n} /\ w.closes = worker[c].closes
  <2>1. worker[c].todo \ {n} \in SUBSET Named /\ worker[c].errors + 1 \in Nat
    BY <1>1 DEF Workers
  <2> QED
    BY <1>1, <2>1 DEF Workers, WorkerPcs
<1>3. worker' = [worker EXCEPT ![c] = w]
  BY DEF CountError
<1> HIDE DEF w
<1>4. Becomes(c, w)
  BY <1>1, <1>2, <1>3 DEF Becomes, Located, Running
<1> QED
  BY <1>2, <1>4

\* The end of the loop over one file.
LEMMA DropTodoEffect ==
    ASSUME Shape, NEW c \in Calls, worker[c].pc = "files", NEW n,
           worker' = [worker EXCEPT ![c].todo = @ \ {n}]
    PROVE  \E w \in Workers : Becomes(c, w) /\ w.pc = "files"
<1> DEFINE w == [worker[c] EXCEPT !.todo = @ \ {n}]
<1>1. worker[c] \in Workers /\ Located(c)
  BY DEF Shape, Types
<1>2. /\ w \in Workers /\ w.pc = "files"
      /\ w.todo = worker[c].todo \ {n} /\ w.closes = worker[c].closes
  BY <1>1 DEF Workers, WorkerPcs
<1>3. worker' = [worker EXCEPT ![c] = w]
  BY DEF Types
<1> HIDE DEF w
<1>4. Becomes(c, w)
  BY <1>1, <1>2, <1>3 DEF Becomes, Located
<1> QED
  BY <1>2, <1>4

\* A change of the pc alone.
LEMMA PcEffect ==
    ASSUME Shape, NEW c \in Calls, Running(c), NEW pc \in WorkerPcs \ {"none", "spawned", "copying", "ended"},
           worker' = [worker EXCEPT ![c].pc = pc]
    PROVE  \E w \in Workers : Becomes(c, w) /\ w.pc = pc
<1> DEFINE w == [worker[c] EXCEPT !.pc = pc]
<1>1. worker[c] \in Workers /\ Located(c)
  BY DEF Shape, Types
<1>2. /\ w \in Workers /\ w.pc = pc
      /\ w.todo = worker[c].todo /\ w.closes = worker[c].closes
  BY <1>1 DEF Workers, WorkerPcs
<1>3. worker' = [worker EXCEPT ![c] = w]
  BY DEF Types
<1> HIDE DEF w
<1>4. Becomes(c, w)
  BY <1>1, <1>2, <1>3 DEF Becomes, Located, Running
<1> QED
  BY <1>2, <1>4

\* Of the file system and the bound of its failures.
Files == fs' \in [Dirs \X Names -> Nodes] /\ faults' \in 0..MaxFaults

\* Steps that leave the file system alone.
LEMMA Untouched == Types /\ UNCHANGED <<fs, faults>> => Files
BY DEF Types, Files

\* The start of a copy: the goroutine copies, or has counted an error.
LEMMA StartCopyEffect ==
    ASSUME Shape, NEW c \in Calls, worker[c].pc = "files", NEW n \in Names,
           NEW from \in Dirs \X Names, NEW to \in Dirs \X Names, NEW compress,
           StartCopy(c, n, from, to, compress)
    PROVE  /\ Files /\ NoReport
           /\ \E w \in Workers : /\ Becomes(c, w) /\ w.pc \in {"files", "copying"}
                                 /\ w.pc = "files" => w.errors = worker[c].errors + 1
<1>1. CASE CountError(c, n) /\ UNCHANGED <<fs, faults>>
  <2>1. Running(c)
    BY DEF Running
  <2> QED
    BY <1>1, <2>1, CountErrorEffect, Untouched DEF Shape, StartCopy
<1>2. CASE Fail /\ CountError(c, n) /\ UNCHANGED fs
  <2>1. Running(c)
    BY DEF Running
  <2>2. Files
    BY <1>2, FailEffect DEF Shape, Types, Files
  <2> QED
    BY <1>2, <2>1, <2>2, CountErrorEffect DEF StartCopy
<1>3. CASE fs' = [fs EXCEPT ![to] = Opened(@)] /\ UNCHANGED faults /\ compress /\ CountError(c, n)
  <2>1. Running(c)
    BY DEF Running
  <2>2. Files
    BY <1>3, SimpleNodes DEF Shape, Types, Files
  <2> QED
    BY <1>3, <2>1, <2>2, CountErrorEffect DEF StartCopy
<1>4. CASE /\ fs' = [fs EXCEPT ![to] = Opened(@)] /\ UNCHANGED faults
           /\ worker' = [worker EXCEPT ![c] = [@ EXCEPT !.pc = "copying", !.file = n, !.copied = 0]]
  <2> DEFINE w == [worker[c] EXCEPT !.pc = "copying", !.file = n, !.copied = 0]
  <2>1. worker[c] \in Workers /\ Located(c)
    BY DEF Shape, Types
  <2>2. /\ w \in Workers /\ w.pc = "copying" /\ w.file = n
        /\ w.todo = worker[c].todo /\ w.closes = worker[c].closes
    BY <2>1 DEF Workers, WorkerPcs, Named
  <2>3. worker' = [worker EXCEPT ![c] = w]
    BY <1>4 DEF Shape, Types
  <2> HIDE DEF w
  <2>4. Becomes(c, w)
    BY <2>1, <2>2, <2>3 DEF Becomes, Located
  <2>5. Files
    BY <1>4, SimpleNodes DEF Shape, Types, Files
  <2> QED
    BY <2>2, <2>4, <2>5 DEF StartCopy
<1> QED
  BY <1>1, <1>2, <1>3, <1>4 DEF StartCopy

\* A link made again, or an error counted.
LEMMA SymlinkEffect ==
    ASSUME Shape, NEW c \in Calls, worker[c].pc = "files", NEW dir \in Dirs, NEW n \in Names,
           createSymlink(c, <<dir, n>>)
    PROVE  /\ Files /\ NoReport
           /\ \E w \in Workers : Becomes(c, w) /\ w.pc = "files"
<1>1. NoReport
  BY DEF createSymlink
<1>2. Files
  <2>1. CASE fs' = [fs EXCEPT ![<<dir, n>>] = Link] /\ UNCHANGED faults
    BY <2>1, SimpleNodes DEF Shape, Types, Files
  <2>2. CASE fs' = [fs EXCEPT ![<<dir, n>>] = Absent] /\ Fail
    BY <2>2, FailEffect, SimpleNodes DEF Shape, Types, Files
  <2> QED
    BY <2>1, <2>2 DEF createSymlink
<1>3. CASE worker' = [worker EXCEPT ![c].todo = @ \ {n}]
  BY <1>1, <1>2, <1>3, DropTodoEffect
<1>4. CASE CountError(c, n)
  <2>1. Running(c)
    BY DEF Running
  <2> QED
    BY <1>1, <1>2, <1>4, <2>1, CountErrorEffect
<1> QED
  BY <1>3, <1>4 DEF createSymlink

\* The list of a call holds names, and its least element is one of them.
LEMMA TodoNames ==
    ASSUME Shape, NEW c \in Calls
    PROVE  /\ worker[c].todo \subseteq Named
           /\ handler[c].service # "files" => worker[c].todo \subseteq Names
           /\ worker[c].todo # {} => Min(worker[c].todo) \in worker[c].todo
<1>1. worker[c].todo \in SUBSET Named /\ Located(c)
  BY DEF Shape, Types, Workers
<1>2. Named \subseteq Nat
  BY ServiceAssumption DEF Named
<1> QED
  BY <1>1, <1>2, MinIsIn DEF Located, Named

\* One round of the loop of SyncFiles.
LEMMA ProcessFileEffect ==
    ASSUME Shape, NEW c \in Calls, worker[c].pc = "files", ~crashed, NEW n \in Named,
           processFile(c, n)
    PROVE  Files /\ \E w \in Workers : Becomes(c, w) /\ Reports(c, w) /\ w.pc # "closing"
<1>0. Running(c) /\ progressChan \in Calls
  BY DEF Running, Shape, Located
<1>1. CASE CountError(c, n) /\ NoReport /\ UNCHANGED <<fs, faults>>
  BY <1>0, <1>1, CountErrorEffect, Untouched DEF Shape, Reports
<1>2. CASE n # 0 /\ createSymlink(c, <<"dst", n>>)
  BY <1>2, SymlinkEffect DEF Named, Dirs, Reports
<1>3. CASE /\ n # 0 /\ sendProgress(c, "Skipping", 0) /\ UNCHANGED <<fs, faults>>
           /\ worker' = [worker EXCEPT ![c].todo = @ \ {n}]
  <2>1. PICK w \in Workers : Becomes(c, w) /\ w.pc = "files"
    BY <1>3, DropTodoEffect
  <2>2. Reports(c, w)
    BY <1>3, <2>1 DEF Reports, Actions
  <2> QED
    BY <1>3, <2>1, <2>2, Untouched DEF Shape
<1>4. CASE n # 0 /\ StartCopy(c, n, <<"src", n>>, <<"dst", n>>, handler[c].request.compress)
  <2>1. n \in Names /\ <<"src", n>> \in Dirs \X Names /\ <<"dst", n>> \in Dirs \X Names
    BY <1>4 DEF Named, Dirs
  <2> QED
    BY <1>4, <2>1, StartCopyEffect DEF Reports
<1> QED
  BY <1>1, <1>2, <1>3, <1>4 DEF processFile

\* One round of the loop of SyncDirectory.
LEMMA ApplyChangeEffect ==
    ASSUME Shape, NEW c \in Calls, worker[c].pc = "files", NEW n \in Names, applyChange(c, n)
    PROVE  Files /\ \E w \in Workers : Becomes(c, w) /\ Reports(c, w) /\ w.pc # "closing"
<1>0. Running(c)
  BY DEF Running
<1>1. CASE createSymlink(c, <<"cwd", n>>)
  BY <1>1, SymlinkEffect DEF Dirs, Reports
<1>2. CASE worker' = [worker EXCEPT ![c].todo = @ \ {n}] /\ NoReport /\ UNCHANGED <<fs, faults>>
  BY <1>2, DropTodoEffect, Untouched DEF Shape, Reports
<1>3. CASE StartCopy(c, n, <<"cwd", n>>, <<"cwd", n>>, handler[c].request.compress)
  <2>1. <<"cwd", n>> \in Dirs \X Names
    BY DEF Dirs
  <2> QED
    BY <1>3, <2>1, StartCopyEffect DEF Reports
<1>4. CASE CountError(c, n) /\ NoReport /\ UNCHANGED <<fs, faults>>
  BY <1>0, <1>4, CountErrorEffect, Untouched DEF Shape, Reports
<1>5. CASE /\ fs' = [fs EXCEPT ![<<"cwd", n>>] = Absent] /\ NoReport /\ UNCHANGED faults
           /\ worker' = [worker EXCEPT ![c].todo = @ \ {n}]
  <2>1. Files
    BY <1>5, SimpleNodes DEF Shape, Types, Files
  <2> QED
    BY <1>5, <2>1, DropTodoEffect DEF Reports
<1> QED
  BY <1>1, <1>2, <1>3, <1>4, <1>5 DEF applyChange

\* A goroutine that gives up goes to its deferred close.
LEMMA GiveUpEffect ==
    ASSUME Shape, NEW c \in Calls, Running(c), worker' = [worker EXCEPT ![c].pc = "closing"]
    PROVE  \E w \in Workers : Becomes(c, w) /\ w.pc = "closing"
BY PcEffect DEF WorkerPcs

\* Every step of a goroutine is of the kind WorkEffect describes.
LEMMA WorkIsKnown == ASSUME Shape, NEW c \in Calls, Work(c) PROVE WorkEffect(c)
<1> USE DEF Working
<1>0. ASSUME Running(c), worker[c].pc # "closing", ~crashed, Files, UNCHANGED <<progressChan, handler>>,
             NEW w \in Workers, Becomes(c, w), Reports(c, w)
      PROVE  WorkEffect(c)
  BY <1>0 DEF WorkEffect, Quiet, Files, Running
<1>1. ASSUME Capture(c) PROVE WorkEffect(c)
  <2> DEFINE pc == IF handler[c].service = "files" THEN "validating" ELSE "scanning"
             w == [worker[c] EXCEPT !.closes = progressChan, !.pc = pc]
  <2>1. worker[c] \in Workers /\ Located(c) /\ worker[c].pc = "spawned" /\ ~crashed
    BY <1>1 DEF Shape, Types, Capture
  <2>2. pc \in WorkerPcs \ {"none", "spawned", "copying", "closing", "ended"}
    BY DEF WorkerPcs
  <2>3. worker' = [worker EXCEPT ![c] = w]
    BY <1>1 DEF Capture, Shape, Types
  <2> HIDE DEF pc
  <2>4. w \in Workers /\ w.pc = pc /\ w.closes = progressChan /\ w.todo = worker[c].todo
    BY <2>1, <2>2 DEF Workers, Located, Shape, Types
  <2> HIDE DEF w
  <2>5. Becomes(c, w)
    BY <2>1, <2>2, <2>3, <2>4 DEF Becomes, Located
  <2>6. Reports(c, w)
    BY <1>1, <2>2, <2>4 DEF Reports, Capture, NoReport
  <2>7. Files
    BY <1>1, Untouched DEF Shape, Capture
  <2> QED
    BY <1>1, <2>1, <2>4, <2>5, <2>6, <2>7 DEF WorkEffect, Quiet, Files, Capture
<1>2. ASSUME validateRequest(c) PROVE WorkEffect(c)
  <2>1. /\ Running(c) /\ worker[c].pc # "closing" /\ ~crashed /\ Files
        /\ UNCHANGED <<progressChan, handler>>
    BY <1>2, Untouched DEF Shape, validateRequest, Running
  <2>2. CASE sendProgress(c, "Scanning", 0) /\ worker' = [worker EXCEPT ![c].pc = "scanning"]
    <3>1. PICK w \in Workers : Becomes(c, w) /\ w.pc = "scanning"
      BY <2>1, <2>2, PcEffect DEF WorkerPcs
    <3> QED
      BY <1>0, <2>1, <2>2, <3>1 DEF Reports, Actions
  <2>3. CASE sendError(c) /\ worker' = [worker EXCEPT ![c].pc = "closing"]
    <3>1. PICK w \in Workers : Becomes(c, w) /\ w.pc = "closing"
      BY <2>1, <2>3, GiveUpEffect
    <3> QED
      BY <1>0, <2>1, <2>3, <3>1 DEF Reports, Actions, sendError
  <2> QED
    BY <1>2, <2>2, <2>3 DEF validateRequest
<1>3. ASSUME ScanFails(c), worker[c].pc = "scanning", ~crashed, UNCHANGED <<fs, progressChan, handler>>
      PROVE WorkEffect(c)
  <2>1. Running(c) /\ Files
    BY <1>3, FailEffect DEF ScanFails, Running, Files, Shape, Types
  <2>2. PICK w \in Workers : Becomes(c, w) /\ w.pc = "closing"
    BY <1>3, <2>1, GiveUpEffect DEF ScanFails
  <2> QED
    BY <1>0, <1>3, <2>1, <2>2 DEF Reports, Actions, sendError, ScanFails
<1>4. ASSUME worker[c].pc = "scanning", ~crashed, NoReport, UNCHANGED <<fs, faults, progressChan, handler>>,
             NEW listed \in SUBSET Named, NEW todo \in SUBSET Named,
             handler[c].service # "files" => 0 \notin todo,
             worker' = [worker EXCEPT ![c] =
                     [@ EXCEPT !.pc = "files", !.listed = listed, !.todo = todo]]
      PROVE WorkEffect(c)
  <2> DEFINE w == [worker[c] EXCEPT !.pc = "files", !.listed = listed, !.todo = todo]
  <2>1. worker[c] \in Workers /\ Located(c)
    BY DEF Shape, Types
  <2>2. w \in Workers /\ w.pc = "files" /\ w.closes = worker[c].closes /\ w.todo = todo
    BY <1>4, <2>1 DEF Workers, WorkerPcs
  <2>3. worker' = [worker EXCEPT ![c] = w]
    BY <1>4 DEF Shape, Types
  <2> HIDE DEF w
  <2>4. Becomes(c, w)
    BY <1>4, <2>1, <2>2, <2>3 DEF Becomes
  <2>5. Files /\ Running(c)
    BY <1>4, Untouched DEF Running, Shape
  <2> QED
    BY <1>0, <1>4, <2>2, <2>4, <2>5 DEF Reports
<1>5. ASSUME scanDirectory(c) PROVE WorkEffect(c)
  <2> DEFINE found == IF handler[c].request.single THEN {0} ELSE Present("src")
  <2>1. found \in SUBSET Named
    BY DEF Named, Present
  <2> HIDE DEF found
  <2>2. CASE ScanFails(c)
    BY <1>3, <1>5, <2>2 DEF scanDirectory
  <2>3. CASE /\ worker' = [worker EXCEPT ![c] =
                     [@ EXCEPT !.pc = "files", !.listed = found, !.todo = found]]
             /\ NoReport /\ UNCHANGED faults
    BY <1>4, <1>5, <2>1, <2>3 DEF scanDirectory
  <2> QED
    BY <1>5, <2>2, <2>3 DEF scanDirectory, found
<1>6. ASSUME scanDirectoryWithMetadata(c) PROVE WorkEffect(c)
  <2> DEFINE todo == calculateChanges(handler[c].request)
             listed == Present("dst")
  <2>1. todo \in SUBSET Names /\ listed \in SUBSET Named
    BY DEF Named, Present, calculateChanges
  <2>2. 0 \notin Names /\ todo \in SUBSET Named
    BY <2>1, ServiceAssumption DEF Named
  <2> HIDE DEF todo, listed
  <2>3. CASE ScanFails(c)
    BY <1>3, <1>6, <2>3 DEF scanDirectoryWithMetadata
  <2>4. CASE /\ worker' = [worker EXCEPT ![c] =
                     [@ EXCEPT !.pc = "files", !.listed = listed, !.todo = todo]]
             /\ NoReport /\ UNCHANGED faults
    <3>1. 0 \notin todo
      BY <2>1, <2>2
    <3> QED
      BY <1>4, <1>6, <2>1, <2>2, <2>4, <3>1 DEF scanDirectoryWithMetadata
  <2> QED
    BY <1>6, <2>3, <2>4 DEF scanDirectoryWithMetadata, todo, listed
<1>7. ASSUME ProcessFiles(c) PROVE WorkEffect(c)
  <2>1. /\ Running(c) /\ worker[c].pc = "files" /\ ~crashed
        /\ UNCHANGED <<progressChan, handler>>
    BY <1>7 DEF ProcessFiles, Running
  <2>2. CASE sendError(c) /\ worker' = [worker EXCEPT ![c].pc = "closing"] /\ UNCHANGED <<fs, faults>>
    <3>1. PICK w \in Workers : Becomes(c, w) /\ w.pc = "closing"
      BY <2>1, <2>2, GiveUpEffect
    <3>2. Files
      BY <2>2, Untouched DEF Shape
    <3> QED
      BY <1>0, <2>1, <2>2, <3>1, <3>2 DEF Reports, Actions, sendError
  <2>3. CASE processFile(c, Min(worker[c].todo))
    <3>1. Min(worker[c].todo) \in Named
      BY <1>7, TodoNames DEF ProcessFiles
    <3> QED
      BY <1>0, <2>1, <2>3, <3>1, ProcessFileEffect
  <2> QED
    BY <1>7, <2>2, <2>3 DEF ProcessFiles
<1>8. ASSUME ApplyChanges(c) PROVE WorkEffect(c)
  <2>1. /\ Running(c) /\ worker[c].pc = "files" /\ ~crashed
        /\ UNCHANGED <<progressChan, handler>>
    BY <1>8 DEF ApplyChanges, Running
  <2>2. CASE /\ handler[c].ctxDone /\ NoReport
             /\ worker' = [worker EXCEPT ![c].pc = "closing"] /\ UNCHANGED <<fs, faults>>
    <3>1. PICK w \in Workers : Becomes(c, w) /\ w.pc = "closing"
      BY <2>1, <2>2, GiveUpEffect
    <3>2. Files
      BY <2>2, Untouched DEF Shape
    <3> QED
      BY <1>0, <2>1, <2>2, <3>1, <3>2 DEF Reports
  <2>3. CASE \E n \in worker[c].todo : applyChange(c, n)
    <3>1. worker[c].todo \subseteq Names
      BY <1>8, TodoNames DEF ApplyChanges
    <3> QED
      BY <1>0, <2>1, <2>3, <3>1, ApplyChangeEffect
  <2> QED
    BY <1>8, <2>2, <2>3 DEF ApplyChanges
<1>9. ASSUME Copy(c) PROVE WorkEffect(c)
  <2>1. /\ Running(c) /\ worker[c].pc = "copying" /\ ~crashed
        /\ UNCHANGED <<progressChan, handler>> /\ Located(c) /\ worker[c] \in Workers
    BY <1>9 DEF Copy, Running, Shape, Types
  <2>2. CASE CountError(c, worker[c].file) /\ NoReport /\ UNCHANGED fs /\ (UNCHANGED faults \/ Fail)
    <3>1. Files
      BY <2>2, Untouched, FailEffect DEF Shape, Files, Types
    <3> QED
      BY <1>0, <2>1, <2>2, <3>1, CountErrorEffect DEF Reports
  <2>3. CASE /\ worker[c].copied < Len(fs[From(c)].content)
             /\ fs' = [fs EXCEPT ![To(c)] =
                    Write(@, worker[c].copied + 1, fs[From(c)].content[worker[c].copied + 1])]
             /\ worker' = [worker EXCEPT ![c].copied = @ + 1]
             /\ sendProgress(c, "Copying", 0)
             /\ UNCHANGED faults
    <3> DEFINE i == worker[c].copied + 1
               source == fs[From(c)].content
               w == [worker[c] EXCEPT !.copied = @ + 1]
    <3>1. From(c) \in Dirs \X Names /\ To(c) \in Dirs \X Names
      BY <2>1 DEF From, To, Located, Dirs
    <3>2. source \in Seq(Blocks) /\ i \in Nat \ {0} /\ worker[c].copied \in Nat
      BY <2>1, <3>1 DEF Shape, Types, Nodes, Workers
    <3>3. source[i] \in Blocks
      BY <2>3, <3>2, ElementOfSeq
    <3>4. Write(fs[To(c)], i, source[i]) \in Nodes
      BY <3>1, <3>2, <3>3, WriteKeepsNode DEF Shape, Types
    <3>5. /\ fs' = [fs EXCEPT ![To(c)] = Write(@, i, source[i])] /\ UNCHANGED faults
          /\ worker' = [worker EXCEPT ![c].copied = @ + 1]
          /\ sendProgress(c, "Copying", 0)
      BY <2>3
    <3>6. Files
      BY <3>1, <3>4, <3>5 DEF Files, Shape, Types
    <3>7. /\ w \in Workers /\ w.pc = "copying" /\ w.closes = worker[c].closes
          /\ w.todo = worker[c].todo /\ w.file = worker[c].file
      BY <2>1, <3>2 DEF Workers
    <3>8. worker' = [worker EXCEPT ![c] = w]
      BY <3>5 DEF Shape, Types
    <3> HIDE DEF w
    <3>9. Becomes(c, w)
      BY <2>1, <3>7, <3>8 DEF Becomes, Located
    <3> QED
      BY <1>0, <2>1, <3>5, <3>6, <3>7, <3>9 DEF Reports, Actions
  <2> QED
    BY <1>9, <2>2, <2>3 DEF Copy, CopyBlock
<1>10. ASSUME deleteExtraFiles(c) PROVE WorkEffect(c)
  <2>1. /\ Running(c) /\ worker[c].pc = "files" /\ ~crashed
        /\ UNCHANGED <<progressChan, handler>> /\ Located(c) /\ worker[c] \in Workers
    BY <1>10 DEF deleteExtraFiles, Running, Shape, Types
  <2>2. CASE sendError(c) /\ worker' = [worker EXCEPT ![c].pc = "closing"] /\ UNCHANGED fs /\ Fail
    <3>1. PICK w \in Workers : Becomes(c, w) /\ w.pc = "closing"
      BY <2>1, <2>2, GiveUpEffect
    <3>2. Files
      BY <2>2, FailEffect DEF Shape, Types, Files
    <3> QED
      BY <1>0, <2>1, <2>2, <3>1, <3>2 DEF Reports, Actions, sendError
  <2>3. CASE /\ sendProgress(c, "Deleting", 0) /\ UNCHANGED <<worker, faults>>
             /\ fs' = [fs EXCEPT ![<<"dst", Min(Extra(c))>>] = Absent]
    <3>1. Files
      BY <2>3, SimpleNodes DEF Shape, Types, Files
    <3>2. worker' = [worker EXCEPT ![c] = worker[c]]
      BY <2>3 DEF Shape, Types
    <3>3. Becomes(c, worker[c])
      BY <2>1, <3>2 DEF Becomes, Located
    <3>4. Reports(c, worker[c])
      BY <2>1, <2>3 DEF Reports, Actions
    <3> QED
      BY <1>0, <2>1, <3>1, <3>3, <3>4
  <2> QED
    BY <1>10, <2>2, <2>3 DEF deleteExtraFiles
<1>11. ASSUME Verdict(c) PROVE WorkEffect(c)
  <2>1. /\ Running(c) /\ worker[c].pc = "files" /\ ~crashed /\ Files
        /\ UNCHANGED <<progressChan, handler>> /\ worker[c] \in Workers
    BY <1>11, Untouched DEF Verdict, AllSeen, Running, Shape, Types
  <2>2. PICK w \in Workers : Becomes(c, w) /\ w.pc = "closing"
    BY <1>11, <2>1, GiveUpEffect DEF Verdict
  <2>3. sendProgress(c, "Done", worker[c].errors) /\ worker[c].errors \in Nat
    BY <1>11, <2>1 DEF Verdict, Workers
  <2>4. Reports(c, w)
    BY <2>2, <2>3 DEF Reports, Actions
  <2> QED
    BY <1>0, <2>1, <2>2, <2>4
<1>12. ASSUME CloseChan(c) PROVE WorkEffect(c)
  <2> DEFINE w == [IdleWorker EXCEPT !.pc = "ended"]
  <2>1. w \in Workers /\ w.pc = "ended" /\ w.todo = {}
    BY DEF IdleWorker, Workers, WorkerPcs, Named
  <2>2. worker' = [worker EXCEPT ![c] = w]
    BY <1>12 DEF CloseChan
  <2> HIDE DEF w
  <2>3. Becomes(c, w)
    BY <2>1, <2>2 DEF Becomes
  <2>4. Reports(c, w)
    BY <1>12, <2>1 DEF Reports
  <2>5. Files
    BY <1>12, Untouched DEF Shape, CloseChan
  <2> QED
    BY <1>12, <2>1, <2>3, <2>4, <2>5 DEF WorkEffect, Quiet, Files, CloseChan
<1> QED
  BY <1>1, <1>2, <1>5, <1>6, <1>7, <1>8, <1>9, <1>10, <1>11, <1>12 DEF Work

\* The close: one channel becomes closed, or the worker dies.
LEMMA CloseEffect ==
    ASSUME Shape, NEW c \in Calls, CloseChan(c)
    PROVE  LET k == worker[c].closes
           IN  /\ k \in Calls
               /\ chan' \in [Calls -> Channels] /\ crashed' \in BOOLEAN /\ client' = client
               /\ \A d \in Calls : /\ chan'[d].queue = chan[d].queue
                                   /\ d # k => chan'[d].closed = chan[d].closed
               /\ crashed' => chan[k].closed
<1> DEFINE k == worker[c].closes
<1>1. k \in Calls /\ ~crashed
  BY DEF CloseChan, Working, Shape, Located, Running
<1>2. \/ chan[k].closed /\ crashed' = TRUE /\ chan' = chan
      \/ chan' = [chan EXCEPT ![k].closed = TRUE] /\ crashed' = crashed
  BY DEF CloseChan
<1> HIDE DEF k
<1>3. CASE chan[k].closed /\ crashed' = TRUE /\ chan' = chan
  BY <1>1, <1>3 DEF Shape, Types, CloseChan, k
<1>4. CASE chan' = [chan EXCEPT ![k].closed = TRUE] /\ crashed' = crashed
  BY <1>1, <1>4 DEF Shape, Types, Channels, CloseChan, k
<1> QED
  BY <1>2, <1>3, <1>4

\* What every step of the goroutine of c leaves as it was, or moves one way only.
LEMMA WorkKeeps ==
    ASSUME Shape, NEW c \in Calls, WorkEffect(c)
    PROVE  /\ Types'
           /\ handler' = handler /\ progressChan' = progressChan
           /\ \A d \in Calls : d # c => worker'[d] = worker[d]
           /\ Becomes(c, worker'[c])
           /\ Reports(c, worker'[c])
           /\ \A d \in Calls :
                 /\ client'[d].last = client[d].last
                 /\ client'[d].gone = client[d].gone
                 /\ client'[d].mixed = client[d].mixed
                 /\ client'[d].alone = client[d].alone
                 /\ d # c => client'[d].dropped = client[d].dropped
<1>1. PICK w \in Workers : Becomes(c, w) /\ Reports(c, w)
  BY DEF WorkEffect
<1>2. w = worker'[c] /\ worker' \in [Calls -> Workers] /\ \A d \in Calls : d # c => worker'[d] = worker[d]
  BY <1>1 DEF Becomes, Shape, Types
<1>3. handler' = handler /\ progressChan' = progressChan /\ Files
  BY DEF WorkEffect, Quiet, Files
<1>4. progressChan \in Calls
  BY DEF WorkEffect, Shape, Located
<1> DEFINE Kept == \A d \in Calls :
                 /\ client'[d].last = client[d].last
                 /\ client'[d].gone = client[d].gone
                 /\ client'[d].mixed = client[d].mixed
                 /\ client'[d].alone = client[d].alone
                 /\ d # c => client'[d].dropped = client[d].dropped
           Sound == /\ chan' \in [Calls -> Channels] /\ client' \in [Calls -> Clients]
                    /\ crashed' \in BOOLEAN
                    /\ \A d \in Calls : Len(chan[d].queue)' <= ProgressCap
<1>5. Kept /\ Sound
  <2>1. CASE NoReport
    BY <2>1 DEF NoReport, Shape, Types
  <2>2. CASE \E action \in Actions, errors \in Nat : sendProgress(c, action, errors)
    <3>1. PICK action \in Actions, errors \in Nat : sendProgress(c, action, errors)
      BY <2>2
    <3> QED
      BY <1>4, <3>1, SendEffect DEF Shape
  <2>3. CASE CloseChan(c)
    BY <2>3, CloseEffect DEF Shape, Types
  <2> QED
    BY <1>1, <2>1, <2>2, <2>3 DEF Reports
<1>6. Types'
  BY <1>2, <1>3, <1>5 DEF Types, Shape, Files
<1> QED
  BY <1>1, <1>2, <1>3, <1>5, <1>6

\* The types and places survive a step of a goroutine.
LEMMA WorkKeepsShape == ASSUME Shape, NEW c \in Calls, WorkEffect(c) PROVE Shape'
<1>1. Types'
  BY WorkKeeps
<1>2. ASSUME NEW d \in Calls PROVE Located(d)'
  <2>1. handler' = handler /\ progressChan' = progressChan /\ Located(d) /\ Located(c)
    BY WorkKeeps DEF Shape
  <2>2. CASE d # c
    <3>1. worker'[d] = worker[d]
      BY <2>2, WorkKeeps
    <3> QED
      BY <2>1, <3>1 DEF Located, Running, Sync
  <2>3. CASE d = c
    <3>1. Becomes(c, worker'[c]) /\ worker[c].pc \notin {"none", "ended"} /\ progressChan \in Calls
      BY <2>1, WorkKeeps DEF WorkEffect, Located
    <3> QED
      BY <2>1, <2>3, <3>1 DEF Located, Running, Becomes, Sync
  <2> QED
    BY <2>2, <2>3
<1> QED
  BY <1>1, <1>2 DEF Shape

-----------------------------------------------------------------------------
(* The handler, and the calls *)

\* What a handler that returns leaves.
LEMMA ReturnsEffect ==
    ASSUME Types, NEW c \in Calls, Returns(c)
    PROVE  /\ handler' \in [Calls -> Handlers]
           /\ \A d \in Calls : d # c => handler'[d] = handler[d]
           /\ handler'[c].pc = "returned" /\ handler'[c].ctxDone
           /\ handler'[c].service = handler[c].service
           /\ handler'[c].request = handler[c].request
           /\ ~handler'[c].upload.isOpen
           /\ handler'[c].leaked = Leaked(c)
<1> DEFINE h == [handler[c] EXCEPT !.pc = "returned", !.ctxDone = TRUE, !.reads = NoCall,
                  !.upload = NoUpload, !.received = 0, !.leaked = Leaked(c)]
<1>1. handler[c] \in Handlers
  BY DEF Types
<1>2. Leaked(c) \in Nat
  BY <1>1 DEF Leaked, Handlers
<1>3. NoUpload \in Uploads /\ ~NoUpload.isOpen
  BY DEF NoUpload, Uploads, Named
<1>4. h \in Handlers
  BY <1>1, <1>2, <1>3 DEF Handlers, HandlerPcs
<1>5. /\ h.pc = "returned" /\ h.ctxDone /\ h.service = handler[c].service
      /\ h.request = handler[c].request /\ h.upload = NoUpload /\ h.leaked = Leaked(c)
  BY <1>1 DEF Handlers
<1>6. handler' = [handler EXCEPT ![c] = h]
  BY DEF Returns, Types
<1> HIDE DEF h
<1> QED
  BY <1>3, <1>4, <1>5, <1>6 DEF Types

\* What the beginning of a call does, and to whom it says that calls overlap.
LEMMA BeginEffect ==
    ASSUME Shape, NEW c \in Calls, NEW service \in ServiceNames, NEW request \in AnyRequest,
           NEW pc \in HandlerPcs, Begin(c, service, request, pc)
    PROVE  /\ handler[c].pc = "idle" /\ worker[c].pc = "none"
           /\ handler' \in [Calls -> Handlers]
           /\ \A d \in Calls : d # c => handler'[d] = handler[d]
           /\ handler'[c].pc = pc /\ handler'[c].service = service
           /\ handler'[c].request = request
           /\ handler'[c].upload = handler[c].upload /\ handler'[c].ctxDone = handler[c].ctxDone
           /\ handler'[c].leaked = handler[c].leaked /\ handler'[c].received = handler[c].received
           /\ client' \in [Calls -> Clients]
           /\ \A d \in Calls :
                 /\ client'[d].last = client[d].last
                 /\ client'[d].gone = client[d].gone
                 /\ client'[d].mixed = client[d].mixed
                 /\ client'[d].dropped = client[d].dropped
                 /\ client'[d].alone => client[d].alone
                 /\ d # c /\ Unfinished(d) => ~client'[d].alone /\ ~client'[c].alone
<1>1. handler[c].pc = "idle" /\ worker[c].pc = "none"
  BY DEF Begin, Shape, Located
<1> DEFINE h == [handler[c] EXCEPT !.pc = pc, !.service = service, !.request = request]
           Struck(d) == Overlapped(c) # {} /\ d \in Overlapped(c) \cup {c}
<1>2. handler[c] \in Handlers
  BY DEF Shape, Types
<1>3. h \in Handlers /\ h.pc = pc /\ h.service = service /\ h.request = request
      /\ h.upload = handler[c].upload /\ h.ctxDone = handler[c].ctxDone
      /\ h.leaked = handler[c].leaked /\ h.received = handler[c].received
  BY <1>2 DEF Handlers
<1>4. handler' = [handler EXCEPT ![c] = h]
  BY DEF Begin, Shape, Types
<1> HIDE DEF h
<1>5. /\ handler' \in [Calls -> Handlers] /\ handler'[c] = h
      /\ \A d \in Calls : d # c => handler'[d] = handler[d]
  BY <1>3, <1>4 DEF Shape, Types
<1>6. client' = [d \in Calls |-> IF Struck(d) THEN [client[d] EXCEPT !.alone = FALSE] ELSE client[d]]
  BY DEF Begin
<1>7. ASSUME NEW d \in Calls
      PROVE  /\ client'[d] \in Clients
             /\ client'[d].last = client[d].last
             /\ client'[d].gone = client[d].gone
             /\ client'[d].mixed = client[d].mixed
             /\ client'[d].dropped = client[d].dropped
             /\ client'[d].alone => client[d].alone
             /\ Struck(d) => ~client'[d].alone
  <2>1. client[d] \in Clients
    BY DEF Shape, Types
  <2>2. client'[d] = IF Struck(d) THEN [client[d] EXCEPT !.alone = FALSE] ELSE client[d]
    BY <1>6
  <2> HIDE DEF Struck
  <2> QED
    BY <2>1, <2>2 DEF Clients
<1>8. \A d \in Calls : d # c /\ Unfinished(d) => Struck(d) /\ Struck(c)
  BY DEF Overlapped
<1>9. client' \in [Calls -> Clients]
  <2> HIDE DEF Struck
  <2> QED
    BY <1>6, <1>7
<1> HIDE DEF Struck
<1> QED
  BY <1>1, <1>3, <1>5, <1>7, <1>8, <1>9

\* What every step of the handler of c leaves as it was.
HandlerKeeps(c) ==
    /\ handler[c].pc \notin {"idle", "returned"} /\ handler'[c].pc # "idle" /\ ~crashed
    /\ worker' = worker /\ progressChan' = progressChan /\ crashed' = crashed
    /\ \A d \in Calls : d # c => handler'[d] = handler[d] /\ client'[d] = client[d]
    /\ handler'[c].service = handler[c].service
    /\ handler'[c].request = handler[c].request
    /\ client'[c].alone = client[c].alone /\ client'[c].dropped = client[c].dropped
    /\ \A d \in Calls : chan'[d].closed = chan[d].closed

\* The handler gets the channel the field holds.
LEMMA ReturnChanEffect ==
    ASSUME Shape, NEW c \in Calls, ReturnChan(c)
    PROVE  /\ handler' \in [Calls -> Handlers]
           /\ HandlerKeeps(c)
           /\ handler[c].pc = "calling" /\ handler'[c].pc = "forwarding"
           /\ handler'[c].reads = progressChan
           /\ handler'[c].ctxDone = handler[c].ctxDone /\ handler'[c].upload = handler[c].upload
           /\ handler'[c].leaked = handler[c].leaked /\ handler'[c].received = handler[c].received
<1> DEFINE h == [handler[c] EXCEPT !.pc = "forwarding", !.reads = progressChan]
<1>1. handler[c] \in Handlers /\ progressChan \in Calls \cup {NoCall}
  BY DEF Shape, Types
<1>2. h \in Handlers /\ h.pc = "forwarding" /\ h.reads = progressChan
      /\ h.service = handler[c].service /\ h.request = handler[c].request
      /\ h.upload = handler[c].upload /\ h.ctxDone = handler[c].ctxDone
      /\ h.leaked = handler[c].leaked /\ h.received = handler[c].received
  BY <1>1 DEF Handlers, HandlerPcs
<1>3. handler' = [handler EXCEPT ![c] = h]
  BY DEF ReturnChan, Shape, Types
<1> HIDE DEF h
<1>4. handler' \in [Calls -> Handlers] /\ handler'[c] = h
      /\ \A d \in Calls : d # c => handler'[d] = handler[d]
  BY <1>2, <1>3 DEF Shape, Types
<1> QED
  BY <1>2, <1>4 DEF ReturnChan, HandlerKeeps

\* The head and the tail of a sequence that is not empty.
LEMMA TailFacts ==
    ASSUME NEW S, NEW q \in Seq(S), q # <<>>
    PROVE  /\ Head(q) \in S /\ Tail(q) \in Seq(S) /\ Len(Tail(q)) = Len(q) - 1
           /\ Head(q) = q[1] /\ Len(q) \in Nat \ {0}
           /\ \A i \in 1..Len(Tail(q)) : Tail(q)[i] = q[i + 1]
BY HeadTailProperties

\* A round of the range over the channel read: it ends, takes a message to the client, or
\* takes a message and ends.
Ends(c) == /\ chan[handler[c].reads].queue = <<>> /\ chan[handler[c].reads].closed
           /\ Returns(c) /\ UNCHANGED <<chan, client>>
Delivers(c) == /\ ~handler[c].ctxDone /\ handler' = handler
               /\ chan[handler[c].reads].queue # <<>>
               /\ client'[c].last = Head(chan[handler[c].reads].queue)
               /\ client'[c].mixed <=>
                    client[c].mixed \/ Head(chan[handler[c].reads].queue).of # c
               /\ client'[c].gone = client[c].gone
Discards(c) == /\ handler[c].ctxDone /\ Returns(c) /\ client' = client
Takes(k) == /\ chan[k].queue # <<>>
            /\ chan'[k].queue = Tail(chan[k].queue)
            /\ \A d \in Calls : d # k => chan'[d].queue = chan[d].queue

\* One round of the handler's range over its channel.
LEMMA ForwardEffect ==
    ASSUME Shape, NEW c \in Calls, Forward(c)
    PROVE  /\ HandlerKeeps(c)
           /\ handler' \in [Calls -> Handlers]
           /\ chan' \in [Calls -> Channels] /\ client' \in [Calls -> Clients]
           /\ \A d \in Calls : Len(chan[d].queue)' <= ProgressCap
           /\ handler[c].pc = "forwarding" /\ handler[c].reads \in Calls
           /\ UNCHANGED fs
           /\ Ends(c) \/ (Takes(handler[c].reads) /\ (Delivers(c) \/ Discards(c)))
<1> DEFINE k == handler[c].reads
           m == Head(chan[k].queue)
           t == Tail(chan[k].queue)
           b == client[c].mixed \/ m.of # c
<1>1. k \in Calls /\ handler[c].pc = "forwarding" /\ ~crashed
  BY DEF Forward, Shape, Located
<1>2. chan[k].queue \in Seq(Messages) /\ client[c] \in Clients /\ Len(chan[k].queue) <= ProgressCap
  BY <1>1 DEF Shape, Types, Channels
<1>3. CASE chan[k].queue = <<>>
  <2>1. chan[k].closed /\ Returns(c) /\ UNCHANGED <<chan, client>>
    BY <1>3 DEF Forward
  <2> QED
    BY <1>1, <1>3, <2>1, ReturnsEffect DEF Forward, Ends, HandlerKeeps, Shape, Types
<1>4. CASE chan[k].queue # <<>>
  <2>1. m \in Messages /\ t \in Seq(Messages) /\ Len(t) <= ProgressCap
    BY <1>2, <1>4, TailFacts, ServiceAssumption
  <2>2. chan' = [chan EXCEPT ![k].queue = t]
    BY <1>4 DEF Forward
  <2>3. \/ /\ ~handler[c].ctxDone /\ UNCHANGED handler
           /\ client' = [client EXCEPT ![c] = [@ EXCEPT !.last = m, !.mixed = b]]
        \/ handler[c].ctxDone /\ Returns(c) /\ UNCHANGED client
    BY <1>4 DEF Forward
  <2>4. b \in BOOLEAN /\ (b <=> client[c].mixed \/ m.of # c)
    BY <1>2 DEF Clients
  <2> HIDE DEF t, b
  <2>5. /\ chan' \in [Calls -> Channels] /\ chan'[k].queue = t
        /\ \A d \in Calls : chan'[d].closed = chan[d].closed
        /\ \A d \in Calls : d # k => chan'[d].queue = chan[d].queue
        /\ \A d \in Calls : Len(chan[d].queue)' <= ProgressCap
    BY <1>1, <2>1, <2>2 DEF Shape, Types, Channels
  <2>6. Takes(k)
    BY <1>4, <2>5 DEF Takes, t
  <2>7. CASE /\ ~handler[c].ctxDone /\ UNCHANGED handler
             /\ client' = [client EXCEPT ![c] = [@ EXCEPT !.last = m, !.mixed = b]]
    <3> DEFINE x == [client[c] EXCEPT !.last = m, !.mixed = b]
    <3>1. x \in Clients /\ x.last = m /\ x.mixed = b /\ x.alone = client[c].alone
          /\ x.dropped = client[c].dropped /\ x.gone = client[c].gone
      BY <1>2, <2>1, <2>4 DEF Clients
    <3>2. client' = [client EXCEPT ![c] = x]
      BY <2>7 DEF Shape, Types
    <3> HIDE DEF x
    <3>3. client' \in [Calls -> Clients] /\ client'[c] = x
          /\ \A d \in Calls : d # c => client'[d] = client[d]
      BY <3>1, <3>2 DEF Shape, Types
    <3>4. Delivers(c)
      BY <1>4, <2>4, <2>7, <3>1, <3>3 DEF Delivers
    <3> QED
      BY <1>1, <2>5, <2>6, <2>7, <3>1, <3>3, <3>4 DEF Forward, HandlerKeeps, Shape, Types
  <2>8. CASE handler[c].ctxDone /\ Returns(c) /\ UNCHANGED client
    <3>1. Discards(c)
      BY <2>8 DEF Discards
    <3> QED
      BY <1>1, <2>5, <2>6, <2>8, <3>1, ReturnsEffect DEF Forward, HandlerKeeps, Shape, Types
  <2> QED
    BY <2>3, <2>7, <2>8
<1> QED
  BY <1>3, <1>4

\* A client that gives up.
LEMMA CancelEffect ==
    ASSUME Shape, NEW c \in Calls, Cancel(c)
    PROVE  /\ HandlerKeeps(c)
           /\ handler' \in [Calls -> Handlers] /\ client' \in [Calls -> Clients]
           /\ handler[c].pc = "forwarding" /\ handler'[c].pc = "forwarding"
           /\ handler'[c].reads = handler[c].reads /\ handler'[c].upload = handler[c].upload
           /\ handler'[c].leaked = handler[c].leaked /\ handler'[c].received = handler[c].received
           /\ client'[c].gone
           /\ client'[c].last = client[c].last /\ client'[c].mixed = client[c].mixed
<1> DEFINE h == [handler[c] EXCEPT !.ctxDone = TRUE]
           x == [client[c] EXCEPT !.gone = TRUE]
<1>1. handler[c] \in Handlers /\ client[c] \in Clients
  BY DEF Shape, Types
<1>2. /\ h \in Handlers /\ h.pc = handler[c].pc /\ h.reads = handler[c].reads
      /\ h.upload = handler[c].upload /\ h.service = handler[c].service
      /\ h.request = handler[c].request
      /\ h.leaked = handler[c].leaked /\ h.received = handler[c].received
  BY <1>1 DEF Handlers
<1>3. /\ x \in Clients /\ x.gone /\ x.last = client[c].last /\ x.mixed = client[c].mixed
      /\ x.alone = client[c].alone /\ x.dropped = client[c].dropped
  BY <1>1 DEF Clients
<1>4. handler' = [handler EXCEPT ![c] = h] /\ client' = [client EXCEPT ![c] = x]
  BY DEF Cancel, Shape, Types
<1> HIDE DEF h, x
<1>5. /\ handler' \in [Calls -> Handlers] /\ client' \in [Calls -> Clients]
      /\ handler'[c] = h /\ client'[c] = x
      /\ \A d \in Calls : d # c => handler'[d] = handler[d] /\ client'[d] = client[d]
  BY <1>2, <1>3, <1>4 DEF Shape, Types
<1> QED
  BY <1>2, <1>3, <1>5 DEF Cancel, HandlerKeeps

\* The upload of c: it returns, or goes on, with a file of the destination open.
Returned(c) == handler'[c].pc = "returned" /\ handler'[c].ctxDone
Receives(c) ==
    /\ handler'[c].pc = "receiving" /\ handler'[c].ctxDone = handler[c].ctxDone
    /\ handler'[c].upload.name \in Names
    /\ handler[c].received < MaxMessages
    /\ handler'[c].received = handler[c].received + 1

\* A message of an upload, or its end.
LEMMA UploadEffect ==
    ASSUME Shape, NEW c \in Calls, Upload(c)
    PROVE  /\ HandlerKeeps(c)
           /\ handler' \in [Calls -> Handlers] /\ client' \in [Calls -> Clients]
           /\ Files /\ chan' = chan
           /\ handler[c].pc = "receiving" /\ handler[c].service = "upload"
           /\ client'[c].mixed = client[c].mixed /\ client'[c].gone = client[c].gone
           /\ \/ Returned(c) /\ handler'[c].leaked = Leaked(c) /\ ~handler'[c].upload.isOpen
              \/ /\ Receives(c)
                 /\ \/ handler'[c].leaked = Leaked(c)
                    \/ handler[c].upload.isOpen /\ handler'[c].leaked = handler[c].leaked
<1>1. Receive(c) => /\ handler[c].pc = "receiving" /\ handler[c].service = "upload" /\ ~crashed
                    /\ UNCHANGED <<progressChan, chan, worker, crashed>>
  BY DEF Receive, Shape, Located
<1>2. handler[c] \in Handlers /\ client[c] \in Clients /\ Located(c) /\ client \in [Calls -> Clients]
  BY DEF Shape, Types
<1>3. ASSUME Receive(c), Returns(c), Files, UNCHANGED client
      PROVE  /\ HandlerKeeps(c)
             /\ handler' \in [Calls -> Handlers] /\ client' \in [Calls -> Clients]
             /\ Returned(c) /\ handler'[c].leaked = Leaked(c) /\ ~handler'[c].upload.isOpen
  BY <1>1, <1>2, <1>3, ReturnsEffect DEF HandlerKeeps, Shape, Returned
<1>4. ASSUME EndStream(c) PROVE Receive(c) /\ Returns(c) /\ Files /\ UNCHANGED client
  BY <1>4, Untouched DEF Shape, EndStream
<1>5. ASSUME NEW n \in Names, InitiateFileUpload(c, n), Fail, Returns(c), UNCHANGED fs
      PROVE  Receive(c) /\ Files /\ UNCHANGED client
  BY <1>5, FailEffect DEF Shape, Types, Files, InitiateFileUpload
<1>6. ASSUME NEW n \in Names, InitiateFileUpload(c, n),
             fs' = [fs EXCEPT ![<<"dst", n>>] = Opened(@)], UNCHANGED faults,
             handler' = [handler EXCEPT ![c] =
                 [handler[c] EXCEPT !.upload = [name |-> n, isOpen |-> TRUE],
                                    !.leaked = Leaked(c), !.received = @ + 1]]
      PROVE  /\ HandlerKeeps(c)
             /\ handler' \in [Calls -> Handlers] /\ client' \in [Calls -> Clients]
             /\ Files /\ chan' = chan /\ UNCHANGED client /\ Receive(c)
             /\ Receives(c) /\ handler'[c].leaked = Leaked(c)
  <2> DEFINE u == [name |-> n, isOpen |-> TRUE]
             h == [handler[c] EXCEPT !.upload = u, !.leaked = Leaked(c), !.received = @ + 1]
  <2>1. u \in Uploads /\ u.name \in Names
    BY DEF Uploads, Named
  <2>2. Leaked(c) \in Nat /\ handler[c].received + 1 \in Nat
    BY <1>2 DEF Leaked, Handlers
  <2>3. <<"dst", n>> \in Dirs \X Names
    BY DEF Dirs
  <2>4. Files
    BY <1>6, <2>3, SimpleNodes DEF Shape, Types, Files
  <2> HIDE DEF u
  <2>5. /\ h \in Handlers /\ h.pc = handler[c].pc /\ h.upload = u /\ h.service = handler[c].service
        /\ h.request = handler[c].request /\ h.ctxDone = handler[c].ctxDone
        /\ h.leaked = Leaked(c) /\ h.received = handler[c].received + 1
    BY <1>2, <2>1, <2>2 DEF Handlers
  <2>6. handler' = [handler EXCEPT ![c] = h]
    BY <1>6 DEF u
  <2> HIDE DEF h
  <2>7. /\ handler' \in [Calls -> Handlers] /\ handler'[c] = h
        /\ \A d \in Calls : d # c => handler'[d] = handler[d]
    BY <2>5, <2>6 DEF Shape, Types
  <2>8. Receive(c) /\ handler[c].received < MaxMessages /\ UNCHANGED client
    BY <1>6 DEF InitiateFileUpload
  <2> QED
    BY <1>1, <1>2, <2>1, <2>4, <2>5, <2>7, <2>8 DEF HandlerKeeps, Receives
<1>7. ASSUME NEW i \in Offsets, NEW delta \in BOOLEAN, NEW isLast \in BOOLEAN,
             ProcessFileChunk(c, i, delta, isLast)
      PROVE  /\ HandlerKeeps(c)
             /\ handler' \in [Calls -> Handlers] /\ client' \in [Calls -> Clients]
             /\ Files /\ chan' = chan /\ Receive(c)
             /\ client'[c].mixed = client[c].mixed /\ client'[c].gone = client[c].gone
             /\ Receives(c) /\ handler[c].upload.isOpen /\ handler'[c].leaked = handler[c].leaked
  <2> DEFINE n == handler[c].upload.name
             u == [name |-> n, isOpen |-> ~isLast]
             h == [handler[c] EXCEPT !.upload = u, !.received = @ + 1]
             last == [of |-> c, action |-> IF isLast THEN "Done" ELSE "Copying", errors |-> 0]
             x == [client[c] EXCEPT !.last = last]
             node == IF delta THEN processDeltaChunk(n, i) ELSE Write(fs[<<"dst", n>>], i, "u")
  <2>1. Receive(c) /\ handler[c].received < MaxMessages /\ handler[c].upload.isOpen /\ UNCHANGED faults
    BY <1>7 DEF ProcessFileChunk
  <2>2. n \in Names
    BY <1>2, <2>1 DEF Located
  <2>3. /\ <<"dst", n>> \in Dirs \X Names /\ <<"src", n>> \in Dirs \X Names
        /\ fs[<<"dst", n>>] \in Nodes /\ fs[<<"src", n>>] \in Nodes /\ i \in Nat \ {0}
    BY <2>2, ServiceAssumption DEF Dirs, Shape, Types
  <2>4. node \in Nodes
    <3>1. CASE delta
      <4>1. fs[<<"src", n>>].content \in Seq(Blocks) /\ i <= Len(fs[<<"src", n>>].content)
        BY <1>7, <2>3, <3>1 DEF ProcessFileChunk, Referenced, Nodes
      <4>2. fs[<<"src", n>>].content[i] \in Blocks
        BY <2>3, <4>1, ElementOfSeq
      <4> QED
        BY <2>3, <3>1, <4>2, WriteKeepsNode DEF processDeltaChunk
    <3>2. CASE ~delta
      <4>1. "u" \in Blocks
        BY DEF Blocks
      <4> QED
        BY <2>3, <3>2, <4>1, WriteKeepsNode
    <3> QED
      BY <3>1, <3>2
  <2>5. fs' = [fs EXCEPT ![<<"dst", n>>] = node]
    BY <1>7, <2>3 DEF ProcessFileChunk, Shape, Types
  <2>6. /\ handler' = [handler EXCEPT ![c] = h]
        /\ client' = [client EXCEPT ![c] = x]
    BY <1>2, <1>7 DEF ProcessFileChunk, Shape, Types
  <2>7. u \in Uploads /\ u.name \in Names
    BY <2>2 DEF Uploads, Named
  <2>8. last \in Messages
    BY DEF Messages, Actions
  <2> HIDE DEF u, last, node
  <2>9. Files
    BY <2>1, <2>3, <2>4, <2>5 DEF Shape, Types, Files
  <2>10. /\ h \in Handlers /\ h.pc = handler[c].pc /\ h.upload = u /\ h.service = handler[c].service
         /\ h.request = handler[c].request /\ h.ctxDone = handler[c].ctxDone
         /\ h.leaked = handler[c].leaked /\ h.received = handler[c].received + 1
    <3>1. handler[c].received + 1 \in Nat
      BY <1>2 DEF Handlers
    <3> QED
      BY <1>2, <2>7, <3>1 DEF Handlers
  <2>11. /\ x \in Clients /\ x.mixed = client[c].mixed /\ x.gone = client[c].gone
         /\ x.alone = client[c].alone /\ x.dropped = client[c].dropped
    BY <1>2, <2>8 DEF Clients
  <2> HIDE DEF h, x
  <2>12. /\ handler' \in [Calls -> Handlers] /\ handler'[c] = h
         /\ client' \in [Calls -> Clients] /\ client'[c] = x
         /\ \A d \in Calls : d # c => handler'[d] = handler[d] /\ client'[d] = client[d]
    BY <2>6, <2>10, <2>11 DEF Shape, Types
  <2> QED
    BY <1>1, <2>1, <2>7, <2>9, <2>10, <2>11, <2>12 DEF HandlerKeeps, Receives
<1> QED
  BY <1>1, <1>3, <1>4, <1>5, <1>6, <1>7 DEF Upload, InitiateFileUpload

\* Every step of a handler.
LEMMA HandlerKeepsShape ==
    ASSUME Shape, NEW c \in Calls, Handle(c) \/ Cancel(c) \/ Upload(c)
    PROVE  Shape' /\ HandlerKeeps(c)
<1>1. CASE ReturnChan(c)
  <2>1. Types'
    BY <1>1, ReturnChanEffect DEF ReturnChan, Shape, Types
  <2>2. Located(c) /\ Located(c)'
    BY <1>1, ReturnChanEffect DEF Shape, Located, HandlerKeeps, Running, Sync
  <2>3. ASSUME NEW d \in Calls, d # c PROVE Located(d)'
    BY <1>1, <2>3, ReturnChanEffect DEF Shape, Located, HandlerKeeps, Running, Sync
  <2> QED
    BY <1>1, <2>1, <2>2, <2>3, ReturnChanEffect DEF Shape
<1>2. CASE Forward(c)
  <2>1. Types'
    BY <1>2, ForwardEffect DEF Forward, Shape, Types
  <2>2. Located(c)'
    <3>1. handler'[c] = handler[c] \/ (handler'[c].pc = "returned" /\ ~handler'[c].upload.isOpen)
      BY <1>2, ForwardEffect, ReturnsEffect DEF Ends, Delivers, Discards, Shape
    <3> QED
      BY <1>2, <3>1, ForwardEffect DEF Shape, Located, HandlerKeeps, Running, Sync
  <2>3. ASSUME NEW d \in Calls, d # c PROVE Located(d)'
    BY <1>2, <2>3, ForwardEffect DEF Shape, Located, HandlerKeeps, Running, Sync
  <2> QED
    BY <1>2, <2>1, <2>2, <2>3, ForwardEffect DEF Shape
<1>3. CASE Cancel(c)
  <2>1. Types'
    BY <1>3, CancelEffect DEF Cancel, Shape, Types
  <2>2. Located(c)'
    BY <1>3, CancelEffect DEF Shape, Located, HandlerKeeps, Running, Sync
  <2>3. ASSUME NEW d \in Calls, d # c PROVE Located(d)'
    BY <1>3, <2>3, CancelEffect DEF Shape, Located, HandlerKeeps, Running, Sync
  <2> QED
    BY <1>3, <2>1, <2>2, <2>3, CancelEffect DEF Shape
<1>4. CASE Upload(c)
  <2>1. Types'
    BY <1>4, UploadEffect DEF HandlerKeeps, Files, Shape, Types
  <2>2. Located(c)'
    BY <1>4, UploadEffect DEF Shape, Located, HandlerKeeps, Running, Sync, Receives, Returned
  <2>3. ASSUME NEW d \in Calls, d # c PROVE Located(d)'
    BY <1>4, <2>3, UploadEffect DEF Shape, Located, HandlerKeeps, Running, Sync
  <2> QED
    BY <1>4, <2>1, <2>2, <2>3, UploadEffect DEF Shape
<1> QED
  BY <1>1, <1>2, <1>3, <1>4 DEF Handle

\* Every call that begins.
CallKeeps(c) ==
    /\ handler[c].pc = "idle" /\ worker[c].pc = "none"
    /\ handler'[c].ctxDone = handler[c].ctxDone /\ handler'[c].upload = handler[c].upload
    /\ handler'[c].leaked = handler[c].leaked /\ handler'[c].received = handler[c].received
    /\ \A d \in Calls : d # c => handler'[d] = handler[d] /\ worker'[d] = worker[d]
    /\ \A d \in Calls :
          /\ client'[d].last = client[d].last
          /\ client'[d].gone = client[d].gone
          /\ client'[d].mixed = client[d].mixed
          /\ client'[d].dropped = client[d].dropped
          /\ client'[d].alone => client[d].alone
          /\ d # c /\ Unfinished(d) => ~client'[d].alone /\ ~client'[c].alone
    /\ UNCHANGED <<chan, crashed>>

Begins(c) == /\ progressChan' = c /\ worker'[c].pc = "spawned" /\ UNCHANGED fs
             /\ handler'[c].pc = "calling" /\ handler'[c].service \in SyncNames
Others(c) == /\ progressChan' = progressChan /\ worker' = worker
             /\ handler'[c].service \in ServiceNames \ SyncNames
             /\ handler'[c].pc \in {"returned", "receiving"}
             /\ handler'[c].pc = "receiving" => handler'[c].service = "upload"

\* Every call that begins is of the kind CallKeeps describes.
LEMMA CallEffect ==
    ASSUME Shape, NEW c \in Calls, Call(c)
    PROVE  CallKeeps(c) /\ (Begins(c) \/ Others(c)) /\ Shape'
<1>0. <<>> \in AnyRequest
  BY DEF AnyRequest
<1>1. ASSUME CallKeeps(c), Begins(c) \/ Others(c), Files, progressChan' \in Calls \cup {NoCall},
             handler' \in [Calls -> Handlers], client' \in [Calls -> Clients],
             worker' \in [Calls -> Workers],
             0 \notin worker'[c].todo
      PROVE  Shape'
  <2>1. Types'
    BY <1>1 DEF CallKeeps, Files, Shape, Types
  <2>2. Located(c) /\ Located(c)'
    BY <1>1 DEF Shape, Located, CallKeeps, Begins, Others, Running, Sync, SyncNames, ServiceNames
  <2>3. ASSUME NEW d \in Calls, d # c PROVE Located(d)'
    BY <1>1, <2>3 DEF Shape, Located, CallKeeps, Begins, Others, Running, Sync
  <2> QED
    BY <2>1, <2>2, <2>3 DEF Shape
<1>2. ASSUME NEW service \in SyncNames, NEW request \in Requests[c][service],
             BeginSync(c, service, request)
      PROVE  CallKeeps(c) /\ Begins(c) /\ Shape'
  <2>1. service \in ServiceNames /\ request \in AnyRequest /\ "calling" \in HandlerPcs
    BY DEF ServiceNames, SyncNames, AnyRequest, SyncRequests, HandlerPcs
  <2>2. Begin(c, service, request, "calling") /\ UNCHANGED <<fs, chan, crashed, faults>>
        /\ progressChan' = c /\ worker' = [worker EXCEPT ![c].pc = "spawned"]
    BY <1>2 DEF BeginSync
  <2>3. /\ worker' \in [Calls -> Workers] /\ worker'[c].pc = "spawned"
        /\ worker'[c].todo = worker[c].todo
        /\ \A d \in Calls : d # c => worker'[d] = worker[d]
    <3> DEFINE w == [worker[c] EXCEPT !.pc = "spawned"]
    <3>1. worker[c] \in Workers
      BY DEF Shape, Types
    <3>2. w \in Workers /\ w.pc = "spawned" /\ w.todo = worker[c].todo
      BY <3>1 DEF Workers, WorkerPcs
    <3>3. worker' = [worker EXCEPT ![c] = w]
      BY <2>2 DEF Shape, Types
    <3> HIDE DEF w
    <3> QED
      BY <3>2, <3>3 DEF Shape, Types
  <2>4. Located(c) /\ 0 \notin worker[c].todo
    BY <2>1, <2>2, BeginEffect DEF Shape, Located
  <2>5. CallKeeps(c)
    BY <2>1, <2>2, <2>3, BeginEffect DEF CallKeeps
  <2>6. Begins(c)
    BY <2>1, <2>2, <2>3, BeginEffect DEF Begins
  <2>7. Files
    BY <2>2, Untouched DEF Shape
  <2>8. handler' \in [Calls -> Handlers] /\ client' \in [Calls -> Clients]
    BY <2>1, <2>2, BeginEffect
  <2> QED
    BY <1>1, <2>2, <2>3, <2>4, <2>5, <2>6, <2>7, <2>8
<1>3. ASSUME NEW service \in ServiceNames \ SyncNames, NEW pc \in {"returned", "receiving"},
             pc = "receiving" => service = "upload",
             Begin(c, service, <<>>, pc), Files, UNCHANGED <<progressChan, chan, worker, crashed>>
      PROVE  CallKeeps(c) /\ Others(c) /\ Shape'
  <2>1. pc \in HandlerPcs
    BY DEF HandlerPcs
  <2>2. CallKeeps(c)
    BY <1>0, <1>3, <2>1, BeginEffect DEF CallKeeps
  <2>3. Others(c)
    BY <1>0, <1>3, <2>1, BeginEffect DEF Others
  <2>4. Located(c) /\ 0 \notin worker[c].todo
    BY <1>0, <1>3, <2>1, BeginEffect DEF Shape, Located
  <2>5. handler' \in [Calls -> Handlers] /\ client' \in [Calls -> Clients]
    BY <1>0, <1>3, <2>1, BeginEffect
  <2> QED
    BY <1>1, <1>3, <2>2, <2>3, <2>4, <2>5 DEF Shape, Types
<1>4. CASE ListFiles(c)
  <2>1. Begin(c, "list", <<>>, "returned") /\ Files /\ UNCHANGED <<progressChan, chan, worker, crashed>>
    BY <1>4, Untouched DEF ListFiles, Shape
  <2> QED
    BY <1>3, <2>1 DEF ServiceNames, SyncNames
<1>5. CASE \E n \in Names \cup {0}, recursive \in BOOLEAN : DeleteFile(c, n, recursive)
  <2>1. PICK n \in Names \cup {0}, recursive \in BOOLEAN : DeleteFile(c, n, recursive)
    BY <1>5
  <2>2. fs' \in [Dirs \X Names -> Nodes]
    <3>1. CASE fs' = [fs EXCEPT ![<<"dst", n>>] = Absent]
      BY <3>1, SimpleNodes DEF Shape, Types
    <3>2. CASE fs' = [p \in DOMAIN fs |-> IF p[1] = "dst" THEN Absent ELSE fs[p]]
      BY <3>2, SimpleNodes DEF Shape, Types
    <3>3. CASE fs' = fs
      BY <3>3 DEF Shape, Types
    <3> QED
      BY <2>1, <3>1, <3>2, <3>3 DEF DeleteFile
  <2>3. faults' \in 0..MaxFaults
    BY <2>1, FailEffect DEF DeleteFile, Shape, Types
  <2>4. /\ Begin(c, "remove", <<>>, "returned") /\ Files
        /\ UNCHANGED <<progressChan, chan, worker, crashed>>
    BY <2>1, <2>2, <2>3 DEF DeleteFile, Files
  <2> QED
    BY <1>3, <2>4 DEF ServiceNames, SyncNames
<1>6. CASE SyncFilesStream(c)
  <2>1. Begin(c, "upload", <<>>, "receiving") /\ Files /\ UNCHANGED <<progressChan, chan, worker, crashed>>
    BY <1>6, Untouched DEF SyncFilesStream, Shape
  <2> QED
    BY <1>3, <2>1 DEF ServiceNames, SyncNames
<1> QED
  BY <1>2, <1>4, <1>5, <1>6 DEF Call, SyncNames

-----------------------------------------------------------------------------
(* Types *)

\* Whose step it is.
Works(c) == Work(c) /\ WorkEffect(c)
Handles(c) == (Handle(c) \/ Cancel(c) \/ Upload(c)) /\ HandlerKeeps(c)
Calling(c) == Call(c) /\ CallKeeps(c) /\ (Begins(c) \/ Others(c))

\* Every step is of one call, and of one of its threads.
LEMMA StepOfOne ==
    Shape /\ Next => Shape' /\ \E c \in Calls : Works(c) \/ Handles(c) \/ Calling(c)
<1> SUFFICES ASSUME Shape, Next PROVE Shape' /\ \E c \in Calls : Works(c) \/ Handles(c) \/ Calling(c)
  OBVIOUS
<1>1. PICK c \in Calls : Call(c) \/ Handle(c) \/ Work(c) \/ Upload(c) \/ Cancel(c)
  BY DEF Next
<1>2. CASE Work(c)
  BY <1>2, WorkIsKnown, WorkKeepsShape DEF Works
<1>3. CASE Handle(c) \/ Cancel(c) \/ Upload(c)
  BY <1>3, HandlerKeepsShape DEF Handles
<1>4. CASE Call(c)
  BY <1>4, CallEffect DEF Calling
<1> QED
  BY <1>1, <1>2, <1>3, <1>4

\* A step that changes nothing.
LEMMA StutterShape == Shape /\ UNCHANGED vars => Shape'
BY DEF vars, Shape, Types, Located, Running, Sync

\* An upload leaves no more files open than it received messages.
Counted ==
    \A c \in Calls :
        /\ Leaked(c) <= MaxMessages
        /\ handler[c].pc # "returned" => /\ Leaked(c) <= handler[c].received
                                         /\ handler[c].received <= MaxMessages

\* The files an upload leaves open are counted by its messages.
LEMMA CountedStays == Shape /\ Counted /\ Next => Counted'
<1> SUFFICES ASSUME Shape, Counted, Next, Shape', NEW c \in Calls, Works(c) \/ Handles(c) \/ Calling(c),
                    NEW d \in Calls
             PROVE  /\ Leaked(d)' <= MaxMessages
                    /\ handler'[d].pc # "returned" => /\ Leaked(d)' <= handler'[d].received
                                                      /\ handler'[d].received <= MaxMessages
  BY StepOfOne DEF Counted
<1>1. /\ handler[c] \in Handlers /\ handler'[c] \in Handlers /\ MaxMessages \in Nat
  BY ServiceAssumption DEF Shape, Types
<1>2. ASSUME handler'[d].upload = handler[d].upload, handler'[d].leaked = handler[d].leaked,
             handler'[d].received = handler[d].received, handler[d].pc # "returned" \/ handler'[d].pc = "returned"
      PROVE  /\ Leaked(d)' <= MaxMessages
             /\ handler'[d].pc # "returned" => /\ Leaked(d)' <= handler'[d].received
                                               /\ handler'[d].received <= MaxMessages
  BY <1>2 DEF Counted, Leaked
<1>3. ASSUME ~handler'[d].upload.isOpen, handler'[d].leaked = Leaked(d), handler'[d].pc = "returned"
      PROVE  /\ Leaked(d)' <= MaxMessages
             /\ handler'[d].pc # "returned" => /\ Leaked(d)' <= handler'[d].received
                                               /\ handler'[d].received <= MaxMessages
  <2>1. Leaked(d)' = Leaked(d) /\ Leaked(d) <= MaxMessages
    <3>1. handler'[d] \in Handlers /\ handler'[d].leaked \in Nat
      BY DEF Shape, Types, Handlers
    <3>2. Leaked(d)' = handler'[d].leaked
      BY <1>3, <3>1 DEF Leaked
    <3> QED
      BY <1>3, <3>2 DEF Counted
  <2> QED
    BY <1>3, <2>1
<1>4. CASE handler'[d] = handler[d]
  BY <1>2, <1>4
<1>5. CASE d = c /\ Calling(c)
  BY <1>2, <1>5 DEF Calling, CallKeeps
<1>6. CASE d = c /\ ReturnChan(c)
  BY <1>2, <1>6, ReturnChanEffect
<1>7. CASE d = c /\ Forward(c)
  <2>1. handler'[c] = handler[c] \/ Returns(c)
    BY <1>7, ForwardEffect DEF Ends, Delivers, Discards
  <2> QED
    BY <1>3, <1>4, <1>7, <2>1, ReturnsEffect DEF Shape
<1>8. CASE d = c /\ Cancel(c)
  BY <1>2, <1>8, CancelEffect
<1>9. CASE d = c /\ Upload(c)
  <2>1. CASE Returned(c) /\ handler'[c].leaked = Leaked(c) /\ ~handler'[c].upload.isOpen
    BY <1>3, <1>9, <2>1 DEF Returned
  <2>2. CASE /\ Receives(c)
             /\ \/ handler'[c].leaked = Leaked(c)
                \/ handler[c].upload.isOpen /\ handler'[c].leaked = handler[c].leaked
    <3>1. handler[c].pc = "receiving" /\ handler[c].leaked \in Nat /\ handler[c].received \in Nat
      BY <1>1, <1>9, UploadEffect DEF Handlers
    <3>2. Leaked(c) <= handler[c].received /\ Leaked(c) \in Nat
      BY <3>1 DEF Counted, Leaked
    <3>3. handler'[c].leaked <= Leaked(c) /\ Leaked(c)' <= handler'[c].leaked + 1
          /\ handler'[c].leaked \in Nat /\ Leaked(c)' \in Nat
          /\ Leaked(c)' <= Leaked(c) + 1
      BY <1>1, <2>2, <3>1 DEF Leaked, Handlers
    <3>4. handler'[c].received = handler[c].received + 1 /\ handler[c].received < MaxMessages
      BY <2>2 DEF Receives
    <3> QED
      BY <1>1, <1>9, <3>1, <3>2, <3>3, <3>4
  <2> QED
    BY <1>9, <2>1, <2>2, UploadEffect
<1>10. CASE Works(c)
  BY <1>4, <1>10, WorkKeeps DEF Works
<1>11. CASE d # c /\ (Handles(c) \/ Calling(c))
  BY <1>4, <1>11 DEF Handles, Calling, HandlerKeeps, CallKeeps
<1> QED
  BY <1>5, <1>6, <1>7, <1>8, <1>9, <1>10, <1>11 DEF Handles, Handle

\* The types of the variables; an upload leaves at most MaxMessages files open.
THEOREM TypeCorrect == Spec => []TypeOK
<1>1. Init => Shape /\ Counted
  <2>1. Init => Counted
    BY ServiceAssumption DEF Init, Counted, Leaked, IdleHandler, NoUpload
  <2> QED
    BY <2>1, InitShape
<1>2. Shape /\ Counted /\ [Next]_vars => (Shape /\ Counted)'
  <2>1. Counted /\ UNCHANGED vars => Counted'
    BY DEF vars, Counted, Leaked
  <2> QED
    BY <2>1, StepOfOne, CountedStays, StutterShape
<1>3. Shape /\ Counted => TypeOK
  <2> SUFFICES ASSUME Shape, Counted PROVE TypeOK
    OBVIOUS
  <2>1. ASSUME NEW c \in Calls
        PROVE  /\ chan[c].queue \in Seq(Messages) /\ Len(chan[c].queue) <= ProgressCap
               /\ chan[c].closed \in BOOLEAN
               /\ worker[c].pc \in WorkerPcs
               /\ worker[c].todo \subseteq Names \cup {0}
               /\ handler[c].pc \in HandlerPcs
               /\ client[c].last \in Messages
    BY DEF Shape, Types, Channels, Workers, Handlers, Clients, Named
  <2>2. ASSUME NEW c \in Calls PROVE handler[c].leaked \in 0..MaxMessages
    <3>1. handler[c].leaked \in Nat /\ Leaked(c) <= MaxMessages /\ MaxMessages \in Nat
      BY ServiceAssumption DEF Shape, Types, Handlers, Counted
    <3> QED
      BY <3>1 DEF Leaked
  <2> QED
    BY <2>1, <2>2 DEF Shape, Types, TypeOK, WorkerPcs, HandlerPcs
<1> QED
  BY <1>1, <1>2, <1>3, PTL DEF Spec

-----------------------------------------------------------------------------
(* Calls that overlap *)

\* Two calls that are going on at once both know it.
Apart == \A c, d \in Calls : c # d /\ Unfinished(c) /\ Unfinished(d) => ~client[c].alone

\* Only a call that begins becomes unfinished; no call becomes alone again.
LEMMA StillGoing ==
    ASSUME Shape, NEW c \in Calls, Works(c) \/ Handles(c) \/ Calling(c), NEW d \in Calls
    PROVE  /\ client'[d].alone => client[d].alone
           /\ Unfinished(d)' => Unfinished(d) \/ (d = c /\ Calling(c))
<1>1. CASE Works(c)
  BY <1>1, WorkKeeps DEF Works, WorkEffect, Unfinished
<1>2. CASE Handles(c)
  BY <1>2 DEF Handles, HandlerKeeps, Unfinished
<1>3. CASE Calling(c)
  BY <1>3 DEF Calling, CallKeeps, Unfinished
<1> QED
  BY <1>1, <1>2, <1>3

\* Calls that overlap keep knowing it.
LEMMA ApartStays ==
    ASSUME Shape, Apart, NEW c \in Calls, Works(c) \/ Handles(c) \/ Calling(c)
    PROVE  Apart'
<1> SUFFICES ASSUME NEW d \in Calls, NEW e \in Calls, d # e, Unfinished(d)', Unfinished(e)'
             PROVE  ~client'[d].alone
  BY DEF Apart
<1>1. CASE Unfinished(d) /\ Unfinished(e)
  BY <1>1, StillGoing DEF Apart
<1>2. CASE Calling(c) /\ d = c
  BY <1>2, StillGoing DEF Calling, CallKeeps
<1>3. CASE Calling(c) /\ e = c
  BY <1>3, StillGoing DEF Calling, CallKeeps
<1> QED
  BY <1>1, <1>2, <1>3, StillGoing

\* When a call of SyncFiles or SyncDirectory is going on the field holds a channel.
LEMMA GoingMadeChan ==
    ASSUME Shape, NEW c \in Calls, Unfinished(c), Sync(c)
    PROVE  progressChan \in Calls /\ worker[c].pc # "none"
<1>1. handler[c].pc \in HandlerPcs /\ Located(c)
  BY DEF Shape, Types, Handlers
<1>2. handler[c].pc # "receiving"
  BY <1>1 DEF Located, Sync, SyncNames
<1> QED
  BY <1>1, <1>2 DEF Located, Unfinished, HandlerPcs

\* A call that ran alone uses the channel it made; with another one, both know it.
OwnOr(c, k) == k = c \/ (k \in Calls /\ ~client[c].alone /\ ~client[k].alone)

AllOf(q, c) == \A i \in 1..Len(q) : q[i].of = c

Own(c) ==
    /\ Unfinished(c) /\ Sync(c) => OwnOr(c, progressChan)
    /\ handler[c].pc = "forwarding" => OwnOr(c, handler[c].reads)
    /\ Running(c) => OwnOr(c, worker[c].closes)
    /\ client[c].alone => /\ chan[c].closed => worker[c].pc = "ended"
                          /\ AllOf(chan[c].queue, c)
                          /\ ~client[c].mixed

AllOwn == \A c \in Calls : Own(c)
CrashedByOverlap == crashed => \E c \in Calls : ~client[c].alone

\* A message of call c added to a channel of messages of c.
LEMMA AllOfAppend ==
    ASSUME NEW q \in Seq(Messages), NEW m \in Messages, NEW c \in Calls, AllOf(q, c), m.of = c
    PROVE  AllOf(Append(q, m), c)
<1>1. Len(Append(q, m)) = Len(q) + 1 /\ Len(q) \in Nat
      /\ \A i \in 1..Len(q) : Append(q, m)[i] = q[i]
      /\ Append(q, m)[Len(q) + 1] = m
  BY AppendProperties
<1> QED
  BY <1>1 DEF AllOf

\* A message taken from a channel of messages of c.
LEMMA AllOfTail ==
    ASSUME NEW q \in Seq(Messages), q # <<>>, NEW c \in Calls, AllOf(q, c)
    PROVE  AllOf(Tail(q), c) /\ Head(q).of = c
<1>1. /\ Len(Tail(q)) = Len(q) - 1 /\ Head(q) = q[1] /\ Len(q) \in Nat \ {0}
      /\ \A i \in 1..Len(Tail(q)) : Tail(q)[i] = q[i + 1]
  BY TailFacts
<1> QED
  BY <1>1 DEF AllOf

\* A goroutine that runs alone sends to its own channel and closes its own.
LEMMA WorkKeepsOwn ==
    ASSUME Shape, Apart, AllOwn, NEW c \in Calls, Works(c)
    PROVE  AllOwn' /\ (CrashedByOverlap => CrashedByOverlap')
<1> DEFINE p == progressChan
           k == worker[c].closes
           w == worker'[c]
<1>1. /\ worker[c].pc \notin {"none", "ended"} /\ ~crashed
      /\ worker[c].pc = "closing" => CloseChan(c)
      /\ Becomes(c, w) /\ Reports(c, w)
      /\ handler' = handler /\ progressChan' = progressChan
      /\ \A d \in Calls : d # c => worker'[d] = worker[d]
      /\ \A d \in Calls : client'[d].alone = client[d].alone /\ client'[d].mixed = client[d].mixed
  BY WorkKeeps DEF Works, WorkEffect
<1>2. p \in Calls /\ Sync(c) /\ Unfinished(c) /\ OwnOr(c, p)
  BY <1>1 DEF Shape, Located, AllOwn, Own, Unfinished
<1>3. worker[c].pc # "spawned" => k \in Calls /\ OwnOr(c, k)
  BY <1>1 DEF Shape, Located, Running, AllOwn, Own
<1>4. \A d \in Calls, e \in Calls : OwnOr(d, e) => OwnOr(d, e)'
  BY <1>1 DEF OwnOr
<1> HIDE DEF p, k, w
\* The channels.
<1>5. /\ \A d \in Calls : client[d].alone => /\ chan'[d].closed => worker'[d].pc = "ended"
                                             /\ AllOf(chan'[d].queue, d)
      /\ crashed' => ~client[c].alone
  <2>1. CASE NoReport /\ w.pc # "ended"
    BY <1>1, <2>1 DEF NoReport, AllOwn, Own, w
  <2>2. CASE \E action \in Actions, errors \in Nat : sendProgress(c, action, errors)
    <3>1. PICK action \in Actions, errors \in Nat : sendProgress(c, action, errors)
      BY <2>2
    <3> DEFINE m == [of |-> c, action |-> action, errors |-> errors]
    <3>2. /\ \A d \in Calls :
                 /\ chan'[d].closed = chan[d].closed
                 /\ d # p => chan'[d].queue = chan[d].queue
          /\ \/ chan[p].closed /\ crashed' /\ chan' = chan
             \/ crashed' = crashed /\ chan' = chan
             \/ crashed' = crashed /\ chan'[p].queue = Append(chan[p].queue, m)
      BY <1>2, <3>1, SendEffect DEF Shape, p
    <3>3. m \in Messages /\ m.of = c
      BY DEF Messages
    <3> HIDE DEF m
    <3>4. ASSUME NEW d \in Calls, client[d].alone
          PROVE  (chan'[d].closed => worker'[d].pc = "ended") /\ AllOf(chan'[d].queue, d)
      <4>1. chan[d].closed => worker'[d].pc = "ended"
        BY <1>1, <3>4 DEF AllOwn, Own
      <4>2. AllOf(chan[d].queue, d) /\ chan[d].queue \in Seq(Messages)
        BY <3>4 DEF AllOwn, Own, Shape, Types, Channels
      <4>3. d = p => d = c
        BY <1>2, <3>4 DEF OwnOr
      <4>4. d = p => AllOf(Append(chan[p].queue, m), d)
        BY <3>3, <4>2, <4>3, AllOfAppend
      <4> QED
        BY <3>2, <4>1, <4>2, <4>4
    <3>5. crashed' => ~client[c].alone
      <4>1. chan[p].closed => ~client[c].alone
        BY <1>1, <1>2 DEF OwnOr, AllOwn, Own
      <4> QED
        BY <1>1, <3>2, <4>1
    <3> QED
      BY <3>4, <3>5
  <2>3. CASE CloseChan(c) /\ w.pc = "ended"
    <3>1. /\ k \in Calls
          /\ \A d \in Calls : /\ chan'[d].queue = chan[d].queue
                              /\ d # k => chan'[d].closed = chan[d].closed
          /\ crashed' => chan[k].closed
      BY <2>3, CloseEffect DEF k
    <3>2. OwnOr(c, k)
      BY <1>3, <2>3 DEF CloseChan, Working
    <3>3. ASSUME NEW d \in Calls, client[d].alone
          PROVE  (chan'[d].closed => worker'[d].pc = "ended") /\ AllOf(chan'[d].queue, d)
      <4>1. d = k => d = c
        BY <3>2, <3>3 DEF OwnOr
      <4>2. chan[d].closed => worker[d].pc = "ended"
        BY <3>3 DEF AllOwn, Own
      <4>3. AllOf(chan'[d].queue, d)
        <5>1. AllOf(chan[d].queue, d)
          BY <3>3 DEF AllOwn, Own
        <5>2. chan'[d].queue = chan[d].queue
          BY <3>1
        <5> QED
          BY <5>1, <5>2
      <4>4. CASE d = c
        BY <2>3, <4>3, <4>4 DEF w
      <4>5. CASE d # c
        <5>1. chan'[d].closed = chan[d].closed
          BY <3>1, <4>1, <4>5
        <5>2. worker'[d] = worker[d]
          BY <1>1, <4>5
        <5> QED
          BY <4>2, <4>3, <5>1, <5>2
      <4> QED
        BY <4>4, <4>5
    <3>4. crashed' => ~client[c].alone
      BY <1>1, <3>1, <3>2 DEF OwnOr, AllOwn, Own
    <3> QED
      BY <3>3, <3>4
  <2> QED
    BY <1>1, <2>1, <2>2, <2>3 DEF Reports
\* The three ways to a channel.
<1>6. ASSUME NEW d \in Calls PROVE Own(d)'
  <2>1. Own(d) /\ Located(d)
    BY DEF AllOwn, Shape
  <2>2. Unfinished(d)' /\ Sync(d)' => OwnOr(d, progressChan)'
    <3>1. Unfinished(d)' => Unfinished(d)
      BY <1>1 DEF Unfinished
    <3> QED
      BY <1>1, <1>2, <1>4, <2>1, <3>1 DEF Own, Sync, p
  <2>3. handler'[d].pc = "forwarding" => OwnOr(d, handler[d].reads)'
    BY <1>1, <1>4, <2>1 DEF Own, Located
  <2>4. Running(d)' => OwnOr(d, worker[d].closes)'
    <3>1. CASE d # c
      BY <1>1, <1>4, <2>1, <3>1 DEF Own, Located, Running
    <3>2. CASE d = c
      <4>1. Running(c)' => OwnOr(c, w.closes)
        BY <1>1, <1>2, <1>3 DEF Becomes, Running, p, k, w
      <4>2. Running(c)' => w.closes \in Calls
        BY <1>1, <1>2, <1>3 DEF Becomes, Running, p, k, w
      <4> QED
        BY <1>4, <3>2, <4>1, <4>2 DEF w
    <3> QED
      BY <3>1, <3>2
  <2>5. client'[d].alone => ~client'[d].mixed
    BY <1>1, <2>1 DEF Own
  <2> QED
    BY <1>1, <1>5, <2>2, <2>3, <2>4, <2>5 DEF Own
<1>7. crashed' => ~client'[c].alone
  BY <1>1, <1>5
<1> QED
  BY <1>6, <1>7 DEF AllOwn, CrashedByOverlap

\* A handler that runs alone reads the channel of its call.
LEMMA HandlerKeepsOwn ==
    ASSUME Shape, AllOwn, NEW c \in Calls, Handles(c)
    PROVE  AllOwn' /\ (CrashedByOverlap => CrashedByOverlap')
<1> DEFINE k == handler[c].reads
<1>1. HandlerKeeps(c)
  BY DEF Handles
<1>2. \A d \in Calls : client'[d].alone = client[d].alone
  BY <1>1 DEF HandlerKeeps
<1>3. \A d \in Calls, e \in Calls : OwnOr(d, e) => OwnOr(d, e)'
  BY <1>2 DEF OwnOr
<1>4. CrashedByOverlap => CrashedByOverlap'
  BY <1>1, <1>2 DEF HandlerKeeps, CrashedByOverlap
<1>5. \A d \in Calls : Unfinished(d)' => Unfinished(d)
  BY <1>1 DEF HandlerKeeps, Unfinished
<1>6. \A d \in Calls : Sync(d)' <=> Sync(d)
  BY <1>1 DEF HandlerKeeps, Sync
<1>7. \A d \in Calls : Unfinished(d) /\ Sync(d) => progressChan \in Calls
  BY GoingMadeChan
<1> HIDE DEF k
\* What reaches the client, and what stays in the channels.
<1>8. /\ \A d \in Calls : client[d].alone /\ AllOf(chan[d].queue, d) => AllOf(chan'[d].queue, d)
      /\ \A d \in Calls : client[d].alone => ~client'[d].mixed
  <2>1. CASE chan' = chan /\ client'[c].mixed = client[c].mixed
    BY <1>1, <2>1 DEF HandlerKeeps, AllOwn, Own
  <2>2. CASE ReturnChan(c)
    BY <2>1, <2>2 DEF ReturnChan
  <2>3. CASE Cancel(c)
    BY <2>1, <2>3, CancelEffect DEF Cancel
  <2>4. CASE Upload(c)
    BY <2>1, <2>4, UploadEffect
  <2>5. CASE Forward(c)
    <3>1. /\ k \in Calls /\ handler[c].pc = "forwarding"
          /\ Ends(c) \/ (Takes(k) /\ (Delivers(c) \/ Discards(c)))
      BY <2>5, ForwardEffect DEF k
    <3>2. CASE Ends(c)
      BY <2>1, <3>2 DEF Ends
    <3>3. CASE Takes(k)
      <4>1. /\ chan[k].queue # <<>> /\ chan'[k].queue = Tail(chan[k].queue)
            /\ \A d \in Calls : d # k => chan'[d].queue = chan[d].queue
            /\ chan[k].queue \in Seq(Messages)
        BY <3>1, <3>3 DEF Takes, Shape, Types, Channels
      <4>2. \A d \in Calls : client[d].alone /\ AllOf(chan[d].queue, d) => AllOf(chan'[d].queue, d)
        <5> SUFFICES ASSUME NEW d \in Calls, AllOf(chan[d].queue, d) PROVE AllOf(chan'[d].queue, d)
          OBVIOUS
        <5>1. d = k => AllOf(Tail(chan[k].queue), d)
          BY <4>1, AllOfTail
        <5> QED
          BY <4>1, <5>1
      <4>3. client[c].alone => k = c /\ ~client[c].mixed /\ AllOf(chan[c].queue, c)
        BY <3>1 DEF AllOwn, Own, OwnOr, k
      <4>4. client[c].alone => Head(chan[k].queue).of = c
        BY <4>1, <4>3, AllOfTail
      <4>5. client[c].alone => ~client'[c].mixed
        BY <3>1, <3>3, <4>1, <4>3, <4>4 DEF Ends, Delivers, Discards, k
      <4>6. ASSUME NEW d \in Calls, client[d].alone PROVE ~client'[d].mixed
        BY <1>1, <4>5, <4>6 DEF HandlerKeeps, AllOwn, Own
      <4> QED
        BY <4>2, <4>6
    <3> QED
      BY <3>1, <3>2, <3>3
  <2> QED
    BY <2>2, <2>3, <2>4, <2>5 DEF Handles, Handle
\* The channel it reads.
<1>9. ASSUME NEW d \in Calls, handler'[d].pc = "forwarding" PROVE OwnOr(d, handler[d].reads)'
  <2>1. CASE handler'[d].reads = handler[d].reads /\ handler[d].pc = "forwarding"
    BY <1>3, <2>1 DEF AllOwn, Own, Shape, Located
  <2>2. CASE d # c
    BY <1>1, <1>9, <2>1, <2>2 DEF HandlerKeeps
  <2>3. CASE d = c /\ ReturnChan(c)
    <3>1. handler[c].pc = "calling" /\ handler'[c].reads = progressChan
      BY <2>3, ReturnChanEffect
    <3>2. Unfinished(c) /\ Sync(c) /\ progressChan \in Calls
      BY <3>1 DEF Unfinished, Shape, Located
    <3>3. OwnOr(c, progressChan)'
      BY <1>1, <1>3, <3>2 DEF AllOwn, Own, HandlerKeeps
    <3>4. OwnOr(c, progressChan)' => OwnOr(c, handler[c].reads)'
      BY <1>1, <3>1 DEF OwnOr, HandlerKeeps
    <3> QED
      BY <2>3, <3>3, <3>4
  <2>4. CASE d = c /\ Forward(c)
    <3>1. handler' = handler
      BY <1>9, <2>4, ForwardEffect, ReturnsEffect DEF Ends, Delivers, Discards, Shape
    <3> QED
      BY <1>9, <2>1, <3>1
  <2>5. CASE d = c /\ Cancel(c)
    BY <2>1, <2>5, CancelEffect
  <2>6. CASE d = c /\ Upload(c)
    BY <1>9, <2>6, UploadEffect DEF Returned, Receives
  <2> QED
    BY <2>2, <2>3, <2>4, <2>5, <2>6 DEF Handles, Handle
<1>10. ASSUME NEW d \in Calls PROVE Own(d)'
  <2>1. Own(d) /\ worker' = worker /\ progressChan' = progressChan
    BY <1>1 DEF AllOwn, HandlerKeeps
  <2>2. Unfinished(d)' /\ Sync(d)' => OwnOr(d, progressChan)'
    BY <1>3, <1>5, <1>6, <1>7, <2>1 DEF Own
  <2>3. Running(d)' => OwnOr(d, worker[d].closes)'
    BY <1>3, <2>1 DEF Own, Running, Shape, Located
  <2>4. client'[d].alone => /\ chan'[d].closed => worker'[d].pc = "ended"
                            /\ AllOf(chan'[d].queue, d)
                            /\ ~client'[d].mixed
    <3>1. chan'[d].closed = chan[d].closed
      BY <1>1 DEF HandlerKeeps
    <3> QED
      BY <1>2, <1>8, <2>1, <3>1 DEF Own
  <2> QED
    BY <1>9, <2>2, <2>3, <2>4 DEF Own
<1> QED
  BY <1>4, <1>10 DEF AllOwn

\* A call that begins takes the field over; those that go on know of it.
LEMMA CallKeepsOwn ==
    ASSUME Shape, AllOwn, NEW c \in Calls, Calling(c)
    PROVE  AllOwn' /\ (CrashedByOverlap => CrashedByOverlap')
<1>1. CallKeeps(c) /\ (Begins(c) \/ Others(c))
  BY DEF Calling
<1>2. \A d \in Calls : client'[d].alone => client[d].alone
  BY <1>1 DEF CallKeeps
<1>3. \A d \in Calls, e \in Calls : OwnOr(d, e) => OwnOr(d, e)'
  BY <1>2 DEF OwnOr
<1>4. CrashedByOverlap => CrashedByOverlap'
  BY <1>1, <1>2 DEF CallKeeps, CrashedByOverlap
<1>5. ASSUME NEW d \in Calls, d # c PROVE Own(d)'
  <2>1. Own(d) /\ handler'[d] = handler[d] /\ worker'[d] = worker[d] /\ chan' = chan
    BY <1>1, <1>5 DEF AllOwn, CallKeeps
  <2>2. Unfinished(d)' /\ Sync(d)' => OwnOr(d, progressChan)'
    <3>1. (Unfinished(d)' <=> Unfinished(d)) /\ (Sync(d)' <=> Sync(d))
      BY <2>1 DEF Unfinished, Sync
    <3>2. Unfinished(d) /\ Sync(d) => progressChan \in Calls
      BY GoingMadeChan
    <3>3. CASE Begins(c)
      BY <1>1, <1>5, <3>1, <3>3 DEF Begins, CallKeeps, OwnOr
    <3>4. CASE Others(c)
      BY <1>3, <2>1, <3>1, <3>2, <3>4 DEF Others, Own
    <3> QED
      BY <1>1, <3>3, <3>4
  <2>3. handler'[d].pc = "forwarding" => OwnOr(d, handler[d].reads)'
    BY <1>3, <2>1 DEF Own, Shape, Located
  <2>4. Running(d)' => OwnOr(d, worker[d].closes)'
    BY <1>3, <2>1 DEF Own, Running, Shape, Located
  <2>5. client'[d].alone => /\ chan'[d].closed => worker'[d].pc = "ended"
                            /\ AllOf(chan'[d].queue, d)
                            /\ ~client'[d].mixed
    BY <1>1, <1>2, <2>1 DEF Own, CallKeeps
  <2> QED
    BY <2>2, <2>3, <2>4, <2>5 DEF Own
<1>6. Own(c)'
  <2>1. Own(c) /\ handler[c].pc = "idle" /\ worker[c].pc = "none" /\ chan' = chan
    BY <1>1 DEF AllOwn, CallKeeps
  <2>2. Unfinished(c)' /\ Sync(c)' => OwnOr(c, progressChan)'
    BY <1>1 DEF Begins, Others, OwnOr, Sync
  <2>3. handler'[c].pc # "forwarding" /\ ~Running(c)'
    BY <1>1, <2>1 DEF Begins, Others, Running
  <2>4. client'[c].alone => /\ chan'[c].closed => worker'[c].pc = "ended"
                            /\ AllOf(chan'[c].queue, c)
                            /\ ~client'[c].mixed
    BY <1>1, <1>2, <2>1 DEF Own, CallKeeps
  <2> QED
    BY <2>2, <2>3, <2>4 DEF Own
<1> QED
  BY <1>4, <1>5, <1>6 DEF AllOwn

OverlapInv == Shape /\ Apart /\ AllOwn /\ CrashedByOverlap

\* The invariant behind all that is said of calls that run alone.
LEMMA OverlapInvInvariant == Spec => []OverlapInv
<1>1. Init => OverlapInv
  <2> SUFFICES ASSUME Init PROVE OverlapInv
    OBVIOUS
  <2>1. Shape
    BY InitShape
  <2>2. ASSUME NEW c \in Calls PROVE ~Unfinished(c)
    BY DEF Init, Unfinished, IdleWorker, IdleHandler
  <2>3. ASSUME NEW c \in Calls PROVE Own(c)
    <3>1. ~Running(c) /\ handler[c].pc = "idle" /\ ~chan[c].closed /\ ~client[c].mixed
          /\ chan[c].queue = <<>>
      BY DEF Init, Running, IdleWorker, IdleHandler, NewClient
    <3>2. AllOf(<<>>, c)
      BY DEF AllOf
    <3> QED
      BY <2>2, <3>1, <3>2 DEF Own
  <2> QED
    BY <2>1, <2>2, <2>3 DEF OverlapInv, Apart, AllOwn, CrashedByOverlap, Init
<1>2. OverlapInv /\ [Next]_vars => OverlapInv'
  <2>1. ASSUME OverlapInv, Next PROVE OverlapInv'
    <3>1. PICK c \in Calls : Works(c) \/ Handles(c) \/ Calling(c)
      BY <2>1, StepOfOne DEF OverlapInv
    <3>2. Shape' /\ Apart'
      BY <2>1, <3>1, StepOfOne, ApartStays DEF OverlapInv
    <3> QED
      BY <2>1, <3>1, <3>2, WorkKeepsOwn, HandlerKeepsOwn, CallKeepsOwn DEF OverlapInv
  <2>2. ASSUME OverlapInv, UNCHANGED vars PROVE OverlapInv'
    <3>1. Shape'
      BY <2>2, StutterShape DEF OverlapInv
    <3>2. Apart' /\ CrashedByOverlap'
      BY <2>2 DEF OverlapInv, Apart, CrashedByOverlap, Unfinished, vars
    <3>3. AllOwn'
      BY <2>2 DEF OverlapInv, AllOwn, Own, OwnOr, Running, Sync, Unfinished, vars
    <3> QED
      BY <3>1, <3>2, <3>3 DEF OverlapInv
  <2> QED
    BY <2>1, <2>2
<1> QED
  BY <1>1, <1>2, PTL DEF Spec

\* The shared progress channel harms only calls that overlap.
THEOREM OverlapAloneDoesHarm == Spec => []HarmOnlyByOverlap
<1>1. OverlapInv => HarmOnlyByOverlap
  BY DEF OverlapInv, AllOwn, Own, CrashedByOverlap, HarmOnlyByOverlap
<1> QED
  BY <1>1, OverlapInvInvariant, PTL

-----------------------------------------------------------------------------
(* Verdicts *)

IsVerdict(m) == m.action \in {"Done", "Error"}

\* The verdict of call c has been told, or is the last message in its channel.
Heard(q, last, c) == IF q = <<>> THEN last.of = c /\ IsVerdict(last) ELSE IsVerdict(q[Len(q)])

Told(c) ==
    /\ handler[c].ctxDone /\ handler[c].pc # "returned" => client[c].gone
    /\ Sync(c) /\ client[c].alone /\ ~client[c].gone =>
          /\ handler[c].pc = "returned" => worker[c].pc = "ended" /\ chan[c].queue = <<>>
          /\ worker[c].pc \in {"closing", "ended"} /\ ~client[c].dropped
                => Heard(chan[c].queue, client[c].last, c)

AllTold == \A c \in Calls : Told(c)

\* A verdict sent is the last message of the channel.
LEMMA HeardOfAppend ==
    ASSUME NEW q \in Seq(Messages), NEW m \in Messages, NEW last, NEW c \in Calls, IsVerdict(m)
    PROVE  Heard(Append(q, m), last, c)
<1>1. /\ Append(q, m) \in Seq(Messages) /\ Len(Append(q, m)) = Len(q) + 1 /\ Len(q) \in Nat
      /\ Append(q, m)[Len(q) + 1] = m
  BY AppendProperties
<1>2. Append(q, m) # <<>>
  BY <1>1, EmptySeq
<1> QED
  BY <1>1, <1>2 DEF Heard

\* A verdict taken has been told; one left is still the last message.
LEMMA HeardOfTail ==
    ASSUME NEW q \in Seq(Messages), q # <<>>, NEW last, NEW c \in Calls, AllOf(q, c),
           Heard(q, last, c)
    PROVE  Heard(Tail(q), Head(q), c)
<1>1. /\ Len(Tail(q)) = Len(q) - 1 /\ Head(q) = q[1] /\ Len(q) \in Nat \ {0}
      /\ \A i \in 1..Len(Tail(q)) : Tail(q)[i] = q[i + 1]
      /\ Tail(q) \in Seq(Messages)
  BY TailFacts
<1>2. Head(q).of = c /\ IsVerdict(q[Len(q)])
  BY AllOfTail DEF Heard
<1>3. CASE Tail(q) = <<>>
  <2>1. Len(q) = 1
    <3>1. Tail(q) \in Seq(Messages)
      BY <1>1
    <3>2. Len(Tail(q)) = 0
      BY <1>3, <3>1, EmptySeq
    <3> QED
      BY <1>1, <3>2
  <2>2. IsVerdict(Head(q))
    BY <1>1, <1>2, <2>1
  <2> QED
    BY <1>2, <1>3, <2>2 DEF Heard
<1>4. CASE Tail(q) # <<>>
  <2>1. Len(Tail(q)) \in Nat \ {0}
    BY <1>1, <1>4, EmptySeq
  <2>2. Tail(q)[Len(Tail(q))] = q[Len(q)]
    BY <1>1, <2>1
  <2> QED
    BY <1>2, <1>4, <2>2 DEF Heard
<1> QED
  BY <1>3, <1>4

\* What other calls do to a call that runs alone: nothing.
LEMMA OthersWork ==
    ASSUME OverlapInv, NEW c \in Calls, Works(c), NEW d \in Calls, d # c, client[d].alone
    PROVE  /\ worker'[d] = worker[d] /\ handler' = handler /\ chan'[d].queue = chan[d].queue
           /\ client'[d].last = client[d].last /\ client'[d].gone = client[d].gone
           /\ client'[d].dropped = client[d].dropped /\ client'[d].alone
<1>1. /\ Shape /\ AllOwn /\ WorkEffect(c)
  BY DEF OverlapInv, Works
<1>2. /\ progressChan \in Calls /\ progressChan # d
  <2>1. Sync(c) /\ Unfinished(c) /\ progressChan \in Calls
    BY <1>1 DEF WorkEffect, Shape, Located, Unfinished
  <2> QED
    BY <1>1, <2>1 DEF AllOwn, Own, OwnOr
<1>3. chan'[d].queue = chan[d].queue
  <2>1. CASE NoReport
    BY <2>1 DEF NoReport
  <2>2. ASSUME NEW action \in Actions, NEW errors \in Nat, sendProgress(c, action, errors)
        PROVE  chan'[d].queue = chan[d].queue
    BY <1>1, <1>2, <2>2, SendEffect DEF Shape
  <2>3. CASE CloseChan(c)
    BY <1>1, <2>3, CloseEffect
  <2> QED
    BY <1>1, <2>1, <2>2, <2>3 DEF WorkEffect, Reports
<1> QED
  BY <1>1, <1>3, WorkKeeps

\* A goroutine gives up with a verdict, unless its context is done.
LEMMA WorkKeepsTold ==
    ASSUME OverlapInv, AllTold, NEW c \in Calls, Works(c), NEW d \in Calls
    PROVE  Told(d)'
<1> DEFINE w == worker'[c]
<1>1. /\ Shape /\ AllOwn /\ ~crashed
      /\ worker[c].pc \notin {"none", "ended"}
      /\ worker[c].pc = "closing" => CloseChan(c)
      /\ Reports(c, w)
      /\ handler' = handler
      /\ \A e \in Calls : /\ client'[e].alone = client[e].alone /\ client'[e].gone = client[e].gone
                          /\ client'[e].last = client[e].last
  BY WorkKeeps DEF OverlapInv, Works, WorkEffect
<1>2. Told(d) /\ (Sync(d)' <=> Sync(d))
  BY <1>1 DEF AllTold, Sync
<1>3. handler'[d].ctxDone /\ handler'[d].pc # "returned" => client'[d].gone
  BY <1>1, <1>2 DEF Told
<1>4. ASSUME Sync(d)', client'[d].alone, ~client'[d].gone
      PROVE  /\ handler'[d].pc = "returned" => worker'[d].pc = "ended" /\ chan'[d].queue = <<>>
             /\ worker'[d].pc \in {"closing", "ended"} /\ ~client'[d].dropped
                   => Heard(chan'[d].queue, client'[d].last, d)
  <2>1. CASE d # c
    <3>1. /\ worker'[d] = worker[d] /\ handler' = handler /\ chan'[d].queue = chan[d].queue
          /\ client'[d].last = client[d].last /\ client'[d].dropped = client[d].dropped
      BY <1>1, <1>4, <2>1, OthersWork
    <3> QED
      BY <1>1, <1>2, <1>4, <3>1 DEF Told
  <2>2. CASE d = c
    <3>1. Sync(c) /\ client[c].alone /\ ~client[c].gone /\ handler[c].pc # "returned" /\ ~handler[c].ctxDone
      BY <1>1, <1>2, <1>4, <2>2 DEF Told
    <3>2. /\ progressChan = c /\ ~chan[c].closed /\ chan[c].queue \in Seq(Messages)
      <4>1. Unfinished(c)
        BY <1>1 DEF Unfinished
      <4> QED
        BY <1>1, <3>1, <4>1 DEF AllOwn, Own, OwnOr, Shape, Types, Channels
    <3>3. CASE NoReport /\ (w.pc = "closing" => handler[c].ctxDone) /\ w.pc # "ended"
      BY <1>1, <2>2, <3>1, <3>3
    <3>4. ASSUME NEW action \in Actions, NEW errors \in Nat, sendProgress(c, action, errors),
                 w.pc = "closing" => action \in {"Done", "Error"}, w.pc # "ended", ~client'[c].dropped,
                 w.pc = "closing"
          PROVE  Heard(chan'[c].queue, client'[c].last, c)
      <4> DEFINE m == [of |-> c, action |-> action, errors |-> errors]
      <4>1. m \in Messages /\ IsVerdict(m)
        BY <3>4 DEF Messages, IsVerdict
      <4>2. chan'[c].queue = Append(chan[c].queue, m)
        BY <1>1, <3>2, <3>4, SendEffect DEF Shape
      <4> HIDE DEF m
      <4> QED
        BY <3>2, <4>1, <4>2, HeardOfAppend
    <3>5. CASE CloseChan(c) /\ w.pc = "ended"
      <4>1. chan'[c].queue = chan[c].queue /\ client' = client /\ worker[c].pc = "closing"
        BY <1>1, <3>5, CloseEffect DEF CloseChan, Working
      <4> QED
        BY <1>1, <1>2, <2>2, <3>1, <4>1 DEF Told
    <3> QED
      BY <1>1, <2>2, <3>1, <3>3, <3>4, <3>5 DEF Reports
  <2> QED
    BY <2>1, <2>2
<1> QED
  BY <1>3, <1>4 DEF Told

\* A handler returns when its channel is closed and empty, or its client gone.
LEMMA HandlerKeepsTold ==
    ASSUME OverlapInv, AllTold, NEW c \in Calls, Handles(c), NEW d \in Calls
    PROVE  Told(d)'
<1> DEFINE k == handler[c].reads
<1>1. Shape /\ AllOwn /\ HandlerKeeps(c) /\ Told(d) /\ Own(c) /\ Told(c)
  BY DEF OverlapInv, Handles, AllTold, AllOwn
<1>2. /\ worker' = worker /\ client'[d].alone = client[d].alone
      /\ client'[d].dropped = client[d].dropped /\ (Sync(d)' <=> Sync(d))
  BY <1>1 DEF HandlerKeeps, Sync
<1> HIDE DEF k
\* The steps that touch neither the channel nor the state of a synchronisation.
<1>3. CASE /\ handler'[d].ctxDone = handler[d].ctxDone
           /\ (handler'[d].pc = "returned" <=> handler[d].pc = "returned")
           /\ chan'[d].queue = chan[d].queue /\ client'[d].last = client[d].last
           /\ client'[d].gone = client[d].gone
  BY <1>1, <1>2, <1>3 DEF Told
<1>4. CASE client'[d].gone
  BY <1>4 DEF Told
<1>5. ASSUME client[d].alone => chan'[d].queue = chan[d].queue, d # c PROVE Told(d)'
  BY <1>1, <1>2, <1>5 DEF Told, HandlerKeeps
<1>6. CASE ReturnChan(c)
  <2>1. CASE d = c
    BY <1>3, <1>6, <2>1, ReturnChanEffect DEF ReturnChan, Shape, OverlapInv
  <2>2. CASE d # c
    BY <1>5, <1>6, <2>2 DEF ReturnChan
  <2> QED
    BY <2>1, <2>2
<1>7. CASE Cancel(c)
  <2>1. CASE d = c
    BY <1>1, <1>4, <1>7, <2>1, CancelEffect
  <2>2. CASE d # c
    BY <1>5, <1>7, <2>2 DEF Cancel
  <2> QED
    BY <2>1, <2>2
<1>8. CASE Upload(c)
  <2>1. CASE d = c
    <3>1. ~Sync(c) /\ handler[c].pc = "receiving"
      BY <1>1, <1>8, UploadEffect DEF Sync, SyncNames
    <3>2. handler'[c].ctxDone /\ handler'[c].pc # "returned" => client'[c].gone
      BY <1>1, <1>8, <3>1, UploadEffect DEF Told, Returned, Receives
    <3> QED
      BY <1>2, <2>1, <3>1, <3>2 DEF Told
  <2>2. CASE d # c
    BY <1>1, <1>5, <1>8, <2>2, UploadEffect
  <2> QED
    BY <2>1, <2>2
<1>9. CASE Forward(c)
  <2>1. /\ k \in Calls /\ handler[c].pc = "forwarding" /\ OwnOr(c, k)
        /\ Ends(c) \/ (Takes(k) /\ (Delivers(c) \/ Discards(c)))
    BY <1>1, <1>9, ForwardEffect DEF k, Own
  <2>2. CASE d # c
    <3>1. client[d].alone => k # d
      BY <2>1, <2>2 DEF OwnOr
    <3>2. client[d].alone => chan'[d].queue = chan[d].queue
      BY <2>1, <3>1 DEF Ends, Takes
    <3> QED
      BY <1>5, <2>2, <3>2
  <2>3. CASE d = c /\ Ends(c)
    <3>1. handler'[c].pc = "returned" /\ UNCHANGED <<chan, client>>
      BY <1>1, <2>3, ReturnsEffect DEF Ends, Shape
    <3>2. ASSUME Sync(c)', client'[c].alone, ~client'[c].gone
          PROVE  /\ worker'[c].pc = "ended" /\ chan'[c].queue = <<>>
                 /\ ~client'[c].dropped => Heard(chan'[c].queue, client'[c].last, c)
      <4>1. k = c /\ Sync(c) /\ client[c].alone /\ ~client[c].gone
        BY <1>2, <2>1, <2>3, <3>1, <3>2 DEF OwnOr
      <4>2. chan[c].closed /\ chan[c].queue = <<>>
        BY <2>3, <4>1 DEF Ends, k
      <4>3. worker[c].pc = "ended"
        BY <1>1, <4>1, <4>2 DEF Own
      <4> QED
        BY <1>1, <1>2, <3>1, <4>1, <4>2, <4>3 DEF Told
    <3> QED
      BY <2>3, <3>1, <3>2 DEF Told
  <2>4. CASE d = c /\ Takes(k) /\ Delivers(c)
    <3>1. /\ handler' = handler /\ client'[c].gone = client[c].gone
          /\ chan[k].queue # <<>> /\ chan'[k].queue = Tail(chan[k].queue)
          /\ client'[c].last = Head(chan[k].queue)
      BY <2>4 DEF Takes, Delivers, k
    <3>2. ASSUME Sync(c)', client'[c].alone, ~client'[c].gone,
                 worker'[c].pc \in {"closing", "ended"}, ~client'[c].dropped
          PROVE  Heard(chan'[c].queue, client'[c].last, c)
      <4>1. k = c /\ Sync(c) /\ client[c].alone /\ ~client[c].gone
        BY <1>2, <2>1, <2>4, <3>1, <3>2 DEF OwnOr
      <4>2. /\ Heard(chan[c].queue, client[c].last, c) /\ AllOf(chan[c].queue, c)
            /\ chan[c].queue \in Seq(Messages)
        BY <1>1, <1>2, <2>4, <3>2, <4>1 DEF Told, Own, Shape, Types, Channels
      <4> QED
        BY <3>1, <4>1, <4>2, HeardOfTail
    <3> QED
      BY <1>1, <1>2, <2>1, <2>4, <3>1, <3>2 DEF Told
  <2>5. CASE d = c /\ Discards(c)
    <3>1. client[c].gone /\ client' = client
      BY <1>1, <2>1, <2>5 DEF Discards, Told
    <3> QED
      BY <1>4, <2>5, <3>1
  <2> QED
    BY <2>1, <2>2, <2>3, <2>4, <2>5
<1> QED
  BY <1>6, <1>7, <1>8, <1>9 DEF Handles, Handle

\* A call that begins has nothing to tell yet.
LEMMA CallKeepsTold ==
    ASSUME OverlapInv, AllTold, NEW c \in Calls, Calling(c), NEW d \in Calls
    PROVE  Told(d)'
<1>1. Shape /\ CallKeeps(c) /\ (Begins(c) \/ Others(c)) /\ Told(d) /\ Told(c)
  BY DEF OverlapInv, Calling, AllTold
<1>2. CASE d # c
  BY <1>1, <1>2 DEF CallKeeps, Told, Sync
<1>3. CASE d = c
  <2>1. handler'[c].ctxDone => client'[c].gone
    BY <1>1 DEF CallKeeps, Told
  <2>2. CASE Begins(c)
    BY <1>3, <2>1, <2>2 DEF Begins, Told
  <2>3. CASE Others(c)
    <3>1. ~Sync(c)'
      BY <2>3 DEF Others, Sync
    <3> QED
      BY <1>3, <2>1, <3>1 DEF Told
  <2> QED
    BY <1>1, <2>2, <2>3
<1> QED
  BY <1>2, <1>3

\* A client that stays to the end of a call that ran alone is told how it ended, unless a
\* full channel lost a message of the call.
THEOREM NobodyIsLeftGuessing == Spec => []NobodyLeftGuessing
<1>1. Init => AllTold
  BY DEF Init, AllTold, Told, IdleHandler, IdleWorker, Sync, SyncNames
<1>2. OverlapInv /\ AllTold /\ [Next]_vars => AllTold'
  <2>1. ASSUME OverlapInv, AllTold, Next PROVE AllTold'
    <3>1. PICK c \in Calls : Works(c) \/ Handles(c) \/ Calling(c)
      BY <2>1, StepOfOne DEF OverlapInv
    <3> QED
      BY <2>1, <3>1, WorkKeepsTold, HandlerKeepsTold, CallKeepsTold DEF AllTold
  <2>2. ASSUME AllTold, UNCHANGED vars PROVE AllTold'
    BY <2>2 DEF AllTold, Told, Sync, vars
  <2> QED
    BY <2>1, <2>2
<1>3. OverlapInv /\ AllTold => NobodyLeftGuessing
  <2> SUFFICES ASSUME OverlapInv, AllTold, NEW c \in Calls,
                      handler[c].service \in {"files", "directory"}, handler[c].pc = "returned",
                      client[c].alone, ~client[c].gone, ~client[c].dropped
               PROVE  client[c].last.of = c /\ client[c].last.action \in {"Done", "Error"}
    BY DEF NobodyLeftGuessing
  <2> QED
    BY DEF AllTold, Told, Sync, SyncNames, Heard, IsVerdict
<1> QED
  BY <1>1, <1>2, <1>3, OverlapInvInvariant, PTL DEF Spec

-----------------------------------------------------------------------------
(* What Done means *)

\* SyncFiles at its loop, alone and without an error, comparing checksums.
Comparing(c) ==
    /\ handler[c].service = "files" /\ worker[c].pc = "files" /\ handler[c].request.checksum
    /\ client[c].alone /\ worker[c].errors = 0

\* What it listed and has done with is the same on both sides.
Matched(c) ==
    /\ worker[c].listed = IF handler[c].request.single THEN {0} ELSE Present("src")
    /\ \A n \in worker[c].listed \ worker[c].todo : n # 0 /\ Synced(n)

AllMatched == \A c \in Calls : Comparing(c) => Matched(c)

\* A link that was made again, and a file that needs no copy.
LEMMA LinkIsSynced ==
    ASSUME Types, NEW n \in Names, fs[<<"src", n>>].type = "link",
           fs' = [fs EXCEPT ![<<"dst", n>>] = Link]
    PROVE  Synced(n)'
<1>1. <<"dst", n>> \in Dirs \X Names /\ <<"src", n>> \in Dirs \X Names
      /\ <<"dst", n>> # <<"src", n>>
  BY DEF Dirs
<1>2. fs'[<<"dst", n>>] = Link /\ fs'[<<"src", n>>] = fs[<<"src", n>>]
  BY <1>1 DEF Types
<1> QED
  BY <1>2 DEF Synced, Checksum, Link

LEMMA NoChangeIsSynced ==
    ASSUME Types, NEW n \in Names, fs[<<"src", n>>].type = "file", fs[<<"dst", n>>].type # "absent",
           ~needsSync(fs[<<"src", n>>], fs[<<"dst", n>>], TRUE)
    PROVE  Synced(n)
<1>1. fs[<<"dst", n>>] \in Nodes /\ fs[<<"src", n>>] \in Nodes
  BY DEF Types, Dirs
<1>2. Checksum(fs[<<"src", n>>]) = Checksum(fs[<<"dst", n>>])
  BY DEF needsSync
<1>3. fs[<<"dst", n>>].type = "file"
  <2> SUFFICES ASSUME fs[<<"dst", n>>].type # "file" PROVE FALSE
    OBVIOUS
  <2>1. fs[<<"src", n>>].content = <<"none">>
    BY <1>2 DEF Checksum
  <2>2. <<"none">> \in Seq(Blocks)
    BY <1>1, <2>1 DEF Nodes
  <2>3. "none" \in Blocks
    BY <2>2, ElementOfSeq
  <2> QED
    BY <2>3 DEF Blocks
<1> QED
  BY <1>2, <1>3 DEF Synced

LEMMA UntouchedStaysSynced ==
    ASSUME NEW n, fs'[<<"dst", n>>] = fs[<<"dst", n>>], fs'[<<"src", n>>] = fs[<<"src", n>>], Synced(n)
    PROVE  Synced(n)'
BY DEF Synced

\* A file done with: it leaves the list, and is the same on both sides.
LEMMA DropKeepsMatched ==
    ASSUME Types, NEW c \in Calls, Matched(c), NEW n \in Names,
           worker' = [worker EXCEPT ![c].todo = @ \ {n}], handler' = handler,
           \A m \in Names : fs'[<<"src", m>>] = fs[<<"src", m>>],
           \A m \in Names \ {n} : fs'[<<"dst", m>>] = fs[<<"dst", m>>],
           n \in worker[c].listed => Synced(n)'
    PROVE  Matched(c)'
<1>1. worker[c] \in Workers /\ worker[c].listed \subseteq Named
  BY DEF Types, Workers
<1>2. worker'[c].listed = worker[c].listed /\ worker'[c].todo = worker[c].todo \ {n}
  BY <1>1 DEF Types, Workers
<1>3. Present("src")' = Present("src")
  BY DEF Present
<1>4. n # 0
  BY ServiceAssumption
<1>5. ASSUME NEW m \in worker'[c].listed \ worker'[c].todo PROVE m # 0 /\ Synced(m)'
  <2>1. CASE m = n
    BY <1>2, <1>4, <1>5, <2>1
  <2>2. CASE m # n
    <3>1. m \in worker[c].listed \ worker[c].todo
      BY <1>2, <2>2
    <3>2. m # 0 /\ Synced(m)
      BY <3>1 DEF Matched
    <3>3. m \in Names \ {n}
      BY <1>1, <2>2, <3>1, <3>2 DEF Named
    <3> QED
      BY <3>2, <3>3, UntouchedStaysSynced
  <2> QED
    BY <2>1, <2>2
<1> QED
  BY <1>2, <1>3, <1>5 DEF Matched

\* A round of the loop that counts no error leaves the file as at the source.
LEMMA ProcessFileKeepsMatched ==
    ASSUME Shape, NEW c \in Calls, Comparing(c), Matched(c), NEW n \in Named, ~crashed,
           processFile(c, n), handler' = handler, Comparing(c)'
    PROVE  Matched(c)'
<1>1. worker[c] \in Workers /\ worker[c].errors = 0 /\ worker[c].pc = "files" /\ worker'[c].errors = 0
      /\ worker'[c].pc = "files" /\ Types
  BY DEF Shape, Types, Comparing
<1>2. ~(\E w \in Workers : Becomes(c, w) /\ w.errors = worker[c].errors + 1)
  BY <1>1 DEF Becomes, Shape, Types
<1>3. ~CountError(c, n)
  BY <1>1, <1>2, CountErrorEffect DEF Running
<1>4. CASE n # 0 /\ fs[<<"src", n>>].type = "link" /\ createSymlink(c, <<"dst", n>>)
  <2>1. n \in Names /\ <<"dst", n>>[2] = n
    BY <1>4 DEF Named
  <2>2. fs' = [fs EXCEPT ![<<"dst", n>>] = Link] /\ worker' = [worker EXCEPT ![c].todo = @ \ {n}]
    BY <1>3, <1>4, <2>1 DEF createSymlink
  <2>3. /\ \A m \in Names : fs'[<<"src", m>>] = fs[<<"src", m>>]
        /\ \A m \in Names \ {n} : fs'[<<"dst", m>>] = fs[<<"dst", m>>]
    BY <2>2 DEF Shape, Types, Dirs
  <2>4. Synced(n)'
    BY <1>1, <1>4, <2>1, <2>2, LinkIsSynced
  <2> QED
    BY <1>1, <2>1, <2>2, <2>3, <2>4, DropKeepsMatched
<1>5. CASE /\ n # 0 /\ fs[<<"src", n>>].type # "link"
           /\ fs[<<"dst", n>>].type # "absent"
           /\ ~needsSync(fs[<<"src", n>>], fs[<<"dst", n>>], handler[c].request.checksum)
           /\ worker' = [worker EXCEPT ![c].todo = @ \ {n}] /\ UNCHANGED fs
  <2>1. n \in Names /\ <<"src", n>> \in Dirs \X Names
    BY <1>5 DEF Named, Dirs
  <2>2. ASSUME n \in worker[c].listed PROVE Synced(n)'
    <3>1. n \in Present("src")
      BY <1>5, <2>2 DEF Matched
    <3>2. fs[<<"src", n>>].type = "file"
      BY <1>5, <2>1, <3>1 DEF Present, Shape, Types, Nodes
    <3>3. Checksum(fs[<<"src", n>>]) = Checksum(fs[<<"dst", n>>])
      BY <1>5 DEF needsSync, Comparing
    <3>4. Synced(n)
      BY <1>1, <1>5, <2>1, <3>2, <3>3, NoChangeIsSynced DEF needsSync
    <3> QED
      BY <1>5, <3>4, UntouchedStaysSynced
  <2> QED
    BY <1>1, <1>5, <2>1, <2>2, DropKeepsMatched
<1>6. CASE n # 0 /\ StartCopy(c, n, <<"src", n>>, <<"dst", n>>, handler[c].request.compress)
  <2>1. n \in Names /\ <<"src", n>> \in Dirs \X Names /\ <<"dst", n>> \in Dirs \X Names
    BY <1>6 DEF Named, Dirs
  <2>2. PICK w \in Workers : /\ Becomes(c, w)
                             /\ w.pc = "files" => w.errors = worker[c].errors + 1
    BY <1>1, <1>6, <2>1, StartCopyEffect
  <2>3. w = worker'[c]
    BY <2>2 DEF Becomes, Shape, Types
  <2> QED
    BY <1>1, <1>2, <2>2, <2>3
<1> QED
  BY <1>3, <1>4, <1>5, <1>6 DEF processFile

\* A step of another call leaves a call that is alone with its files.
LEMMA OthersKeepMatched ==
    ASSUME OverlapInv, AllMatched, NEW c \in Calls, NEW d \in Calls, c # d,
           Works(d) \/ Handles(d) \/ Calling(d), Comparing(c)'
    PROVE  Matched(c)'
<1>1. Shape /\ Apart
  BY DEF OverlapInv
<1>2. worker'[c] = worker[c] /\ handler'[c] = handler[c] /\ client[c].alone
  <2>1. CASE Works(d)
    BY <1>1, <2>1, WorkKeeps DEF Works, Comparing
  <2>2. CASE Handles(d)
    BY <2>2 DEF Handles, HandlerKeeps, Comparing
  <2>3. CASE Calling(d)
    BY <2>3 DEF Calling, CallKeeps, Comparing
  <2> QED
    BY <2>1, <2>2, <2>3
<1>3. Unfinished(c)
  BY <1>2 DEF Comparing, Unfinished
<1>4. ~Unfinished(d)
  BY <1>1, <1>2, <1>3 DEF Apart
<1>5. ~Works(d) /\ ~Handles(d)
  BY <1>4 DEF Works, WorkEffect, Handles, HandlerKeeps, Unfinished
<1>6. ~Calling(d)
  BY <1>3 DEF Calling, CallKeeps, Comparing
<1> QED
  BY <1>5, <1>6

\* The goroutine's own steps, up to the verdict.
LEMMA WorkKeepsMatched ==
    ASSUME OverlapInv, AllMatched, NEW c \in Calls, Works(c), Comparing(c)'
    PROVE  Matched(c)'
<1>1. /\ Shape /\ Types /\ handler' = handler /\ client'[c].alone = client[c].alone
      /\ worker[c] \in Workers /\ worker'[c] \in Workers
  BY WorkKeeps DEF OverlapInv, Works, Shape, Types
<1>2. /\ handler[c].service = "files" /\ handler[c].request.checksum /\ client[c].alone
      /\ worker'[c].pc = "files" /\ worker'[c].errors = 0
  BY <1>1 DEF Comparing
<1>3. ASSUME NEW pc, pc # "files", worker' = [worker EXCEPT ![c].pc = pc]
      PROVE  FALSE
  BY <1>1, <1>2, <1>3 DEF Types
<1>4. ASSUME NEW n, CountError(c, n), Running(c) PROVE FALSE
  <2>1. PICK w \in Workers : Becomes(c, w) /\ w.errors = worker[c].errors + 1
    BY <1>1, <1>4, CountErrorEffect
  <2>2. w = worker'[c] /\ worker[c].errors \in Nat
    BY <1>1, <2>1 DEF Becomes, Workers, Types
  <2> QED
    BY <1>2, <2>1, <2>2
<1>5. CASE scanDirectory(c)
  <2> DEFINE found == IF handler[c].request.single THEN {0} ELSE Present("src")
  <2>1. ~ScanFails(c)
    BY <1>3 DEF ScanFails
  <2>2. /\ worker' = [worker EXCEPT ![c] =
               [@ EXCEPT !.pc = "files", !.listed = found, !.todo = found]]
        /\ UNCHANGED fs
    BY <1>5, <2>1 DEF scanDirectory
  <2>3. found' = found
    BY <1>1, <2>2 DEF Present
  <2> HIDE DEF found
  <2>4. worker'[c].listed = found /\ worker'[c].todo = found
    BY <1>1, <2>2 DEF Types, Workers
  <2>5. worker'[c].listed = found' /\ worker'[c].listed \ worker'[c].todo = {}
    BY <2>3, <2>4
  <2> QED
    BY <2>5 DEF Matched, found
<1>6. CASE ProcessFiles(c)
  <2>1. worker[c].pc = "files" /\ ~crashed /\ Min(worker[c].todo) \in Named
    BY <1>1, <1>6, TodoNames DEF ProcessFiles, Working
  <2>2. processFile(c, Min(worker[c].todo))
    BY <1>3, <1>6 DEF ProcessFiles
  <2>3. worker[c].errors = 0
    <3>1. PICK w \in Workers : Becomes(c, w)
      BY <1>1, <2>1, <2>2, ProcessFileEffect
    <3> DEFINE n == Min(worker[c].todo)
    <3>2. \/ \E m : CountError(c, m)
          \/ worker' = [worker EXCEPT ![c].todo = @ \ {n}]
          \/ worker' = [worker EXCEPT ![c] =
                      [@ EXCEPT !.pc = "copying", !.file = n, !.copied = 0]]
      BY <2>2, <1>1 DEF processFile, createSymlink, StartCopy
    <3> HIDE DEF n
    <3>3. CASE worker' = [worker EXCEPT ![c].todo = @ \ {n}]
      BY <1>1, <1>2, <3>3 DEF Types, Workers
    <3>4. CASE worker' = [worker EXCEPT ![c] =
                      [@ EXCEPT !.pc = "copying", !.file = n, !.copied = 0]]
      BY <1>1, <1>2, <3>4 DEF Types, Workers
    <3> QED
      BY <1>4, <2>1, <3>2, <3>3, <3>4 DEF Running
  <2>4. Comparing(c) /\ Matched(c)
    BY <1>2, <2>1, <2>3 DEF Comparing, AllMatched
  <2> QED
    BY <1>1, <2>1, <2>2, <2>4, ProcessFileKeepsMatched
<1>7. CASE deleteExtraFiles(c)
  <2> DEFINE e == Min(Extra(c))
  <2>1. worker' = worker /\ fs' = [fs EXCEPT ![<<"dst", e>>] = Absent] /\ Extra(c) # {}
    BY <1>3, <1>7 DEF deleteExtraFiles
  <2>2. Comparing(c) /\ Matched(c)
    BY <1>1, <1>2, <2>1 DEF Comparing, AllMatched
  <2>3. Extra(c) = Present("dst") \ worker[c].listed /\ Present("dst") \in SUBSET Names
    BY <2>1 DEF Extra, Present
  <2>4. Names \subseteq Nat
    BY ServiceAssumption
  <2>5. e \in Extra(c)
    BY <2>1, <2>3, <2>4, MinIsIn
  <2> HIDE DEF e
  <2>6. e \notin worker[c].listed
    BY <2>3, <2>5
  <2>7. /\ \A m \in Names : fs'[<<"src", m>>] = fs[<<"src", m>>]
        /\ \A m \in Names \ {e} : fs'[<<"dst", m>>] = fs[<<"dst", m>>]
    BY <1>1, <2>1 DEF Types, Dirs
  <2>8. Present("src")' = Present("src")
    BY <2>7 DEF Present
  <2>9. ASSUME NEW m \in worker[c].listed \ worker[c].todo PROVE m # 0 /\ Synced(m)'
    <3>1. m # 0 /\ Synced(m)
      BY <2>2, <2>9 DEF Matched
    <3>2. m \in Names \ {e}
      BY <1>1, <2>6, <2>9, <3>1 DEF Workers, Named
    <3> QED
      BY <2>7, <3>1, <3>2, UntouchedStaysSynced
  <2> QED
    BY <1>1, <2>1, <2>2, <2>8, <2>9 DEF Matched
<1>8. CASE Copy(c)
  <2>1. worker[c].pc = "copying" /\ (worker' = [worker EXCEPT ![c].copied = @ + 1] \/ \E n : CountError(c, n))
    BY <1>8 DEF Copy, CopyBlock, Working
  <2>2. worker' # [worker EXCEPT ![c].copied = @ + 1]
    BY <1>1, <1>2, <2>1 DEF Types, Workers
  <2> QED
    BY <1>4, <2>1, <2>2 DEF Running
<1>9. ~Capture(c)
  <2>1. Capture(c) => worker'[c].pc = "validating"
    BY <1>1, <1>2 DEF Capture, Types, Workers
  <2> QED
    BY <1>2, <2>1
<1>10. ~validateRequest(c) /\ ~Verdict(c)
  BY <1>3 DEF validateRequest, Verdict
<1>11. ~CloseChan(c)
  <2>1. CloseChan(c) => worker'[c].pc = "ended"
    BY <1>1 DEF CloseChan, Types, IdleWorker
  <2> QED
    BY <1>2, <2>1
<1>12. ~scanDirectoryWithMetadata(c) /\ ~ApplyChanges(c)
  BY <1>2 DEF scanDirectoryWithMetadata, ApplyChanges
<1> QED
  BY <1>5, <1>6, <1>7, <1>8, <1>9, <1>10, <1>11, <1>12 DEF Works, Work

\* The handler of the call does not touch the files.
LEMMA OwnHandlerKeepsMatched ==
    ASSUME OverlapInv, AllMatched, NEW c \in Calls, Handles(c) \/ Calling(c), Comparing(c)'
    PROVE  Matched(c)'
<1>1. CASE Calling(c)
  BY <1>1 DEF Calling, CallKeeps, Begins, Others, Comparing
<1>2. CASE Handles(c)
  <2>1. HandlerKeeps(c) /\ Shape
    BY <1>2 DEF Handles, OverlapInv
  <2>2. Comparing(c) /\ Matched(c)
    BY <2>1 DEF HandlerKeeps, Comparing, AllMatched
  <2>3. ~Upload(c)
    BY <2>1, <2>2, UploadEffect DEF Comparing
  <2>4. fs' = fs
    BY <1>2, <2>3 DEF Handles, Handle, ReturnChan, Forward, Cancel
  <2>5. Present("src")' = Present("src")
    BY <2>4 DEF Present
  <2>6. \A n : Synced(n) => Synced(n)'
    BY <2>4 DEF Synced
  <2> QED
    BY <2>1, <2>2, <2>5, <2>6 DEF Matched, HandlerKeeps
<1> QED
  BY <1>1, <1>2

\* Done with no errors, after a comparison of checksums, means that the two directories agree.
THEOREM DoneIsSynced == Spec => []DoneMeansSynced
<1>1. Init => AllMatched
  BY DEF Init, AllMatched, Comparing, IdleWorker
<1>2. OverlapInv /\ AllMatched /\ [Next]_vars => AllMatched'
  <2>1. ASSUME OverlapInv, AllMatched, Next PROVE AllMatched'
    <3>1. PICK d \in Calls : Works(d) \/ Handles(d) \/ Calling(d)
      BY <2>1, StepOfOne DEF OverlapInv
    <3>2. ASSUME NEW c \in Calls, Comparing(c)' PROVE Matched(c)'
      <4>1. CASE c # d
        BY <2>1, <3>1, <3>2, <4>1, OthersKeepMatched
      <4>2. CASE c = d
        BY <2>1, <3>1, <3>2, <4>2, WorkKeepsMatched, OwnHandlerKeepsMatched
      <4> QED
        BY <4>1, <4>2
    <3> QED
      BY <3>2 DEF AllMatched
  <2>2. ASSUME AllMatched, UNCHANGED vars PROVE AllMatched'
    BY <2>2 DEF AllMatched, Comparing, Matched, Present, Synced, vars
  <2> QED
    BY <2>1, <2>2
<1>3. OverlapInv /\ AllMatched => DoneMeansSynced
  <2> SUFFICES ASSUME OverlapInv, AllMatched, NEW c \in Calls,
                      handler[c].service = "files", AllSeen(c),
                      client[c].alone, worker[c].errors = 0, handler[c].request.checksum
               PROVE  /\ \A n \in Present("src") : Synced(n)
                      /\ handler[c].request.delete => Present("dst") = Present("src")
    BY DEF DoneMeansSynced
  <2>1. worker[c].todo = {} /\ Extra(c) = {} /\ Comparing(c)
    BY DEF AllSeen, Working, Comparing
  <2>2. Matched(c)
    BY <2>1 DEF AllMatched
  <2>3. ~handler[c].request.single
    BY <2>1, <2>2 DEF Matched
  <2>4. worker[c].listed = Present("src") /\ \A n \in Present("src") : Synced(n)
    BY <2>1, <2>2, <2>3 DEF Matched
  <2>5. handler[c].request.delete => Present("dst") \subseteq Present("src")
    BY <2>1, <2>4 DEF Extra
  <2>6. Present("src") \subseteq Present("dst")
    BY <2>4 DEF Present, Synced
  <2> QED
    BY <2>4, <2>5, <2>6
<1> QED
  BY <1>1, <1>2, <1>3, OverlapInvInvariant, PTL DEF Spec
=============================================================================
