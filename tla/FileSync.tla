------------------------------ MODULE FileSync ------------------------------
(***************************************************************************)
(* The file synchronisation of the remote worker: SyncService and the gRPC *)
(* handler in front of it.                                                 *)
(*                                                                         *)
(* One SyncService serves every call, and it keeps ONE progress channel in *)
(* a field that each call overwrites.  A call of SyncFiles or              *)
(* SyncDirectory is two threads: a goroutine that works and reports, and   *)
(* the handler that forwards the reports to the client.  Both read the     *)
(* field when they need the channel, so calls that overlap meet there.     *)
(*                                                                         *)
(* Three directories are modelled: "src" and "dst", the two paths of every *)
(* request, and "cwd", the directory the worker runs in.  A file is a      *)
(* sequence of blocks, one block being what one Read of the buffer gives.  *)
(* A path stands for the file it names: a descriptor of a file that was    *)
(* removed meanwhile writes to nothing.                                    *)
(***************************************************************************)
EXTENDS Naturals, Sequences, FiniteSets, SequencesExt, FiniteSetsExt

CONSTANTS MaxCalls,     \* bound: the calls, numbered as they arrive
          Names,        \* file names, numbers: filepath.Walk visits them in order
          Trees,        \* the directories a run may start from
          Requests,     \* what each call may ask of SyncFiles and SyncDirectory
          Services,     \* the operations each call may be of
          ProgressCap,  \* capacity of a progress channel (100 in the code)
          Impatient,    \* the calls whose client may give up
          Offsets,      \* the blocks an upload writes
          MaxFaults,    \* bound: failures of the file system
          MaxMessages   \* bound: messages of one upload stream

ASSUME ServiceAssumption ==
    /\ MaxCalls \in Nat
    /\ Names \subseteq Nat \ {0}
    /\ Offsets \subseteq Nat \ {0}
    /\ ProgressCap \in Nat \ {0}
    /\ MaxFaults \in Nat /\ MaxMessages \in Nat
    /\ \A c \in 1..MaxCalls :
          Services[c] \subseteq {"files", "directory", "upload", "list", "remove"}

VARIABLES fs,            \* what each path holds
          progressChan,  \* SyncService.progressChan: the call that made it
          chan,          \* the channel each call made: its queue, and closed
          worker,        \* the goroutine of each call
          handler,       \* the handler of each call
          client,        \* what the client of each call was told
          crashed,       \* a goroutine panicked: the worker process is gone
          faults         \* failures of the file system so far

vars == <<fs, progressChan, chan, worker, handler, client, crashed, faults>>

Calls == 1..MaxCalls
NoCall == 0
Dirs == {"src", "dst", "cwd"}
Absent == [type |-> "absent", content |-> <<>>, mtime |-> "then"]
Empty == [type |-> "file", content |-> <<>>, mtime |-> "now"]
Link == [type |-> "link", content |-> <<"target">>, mtime |-> "now"]
Blocks == {"s", "d", "u", "hole", "target"}
NoMessage == [of |-> NoCall, action |-> "Unknown", errors |-> 0]
NoUpload == [name |-> 0, isOpen |-> FALSE]
Actions == {"Unknown", "Scanning", "Copying", "Deleting", "Skipping", "Done", "Error"}

(* What a path may hold.                                                   *)
Nodes == [type : {"absent", "file", "link"}, content : Seq(Blocks), mtime : {"then", "now"}]

ASSUME TreesAssumption == Trees \subseteq [Dirs \X Names -> Nodes]

IdleWorker == [pc |-> "none", closes |-> NoCall, listed |-> {}, todo |-> {},
               file |-> 0, copied |-> 0, errors |-> 0]
IdleHandler == [pc |-> "idle", service |-> "none", request |-> <<>>, reads |-> NoCall,
                ctxDone |-> FALSE, upload |-> NoUpload, leaked |-> 0, received |-> 0]
(* The client of a call: the last message it got, whether one of another   *)
(* call reached it, and what the model remembers of the call: that it      *)
(* never overlapped another, and that one of its messages was thrown away. *)
NewClient == [last |-> NoMessage, gone |-> FALSE, mixed |-> FALSE, alone |-> TRUE,
              dropped |-> FALSE]

Init ==
    /\ fs \in Trees
    /\ progressChan = NoCall
    /\ chan = [c \in Calls |-> [queue |-> <<>>, closed |-> FALSE]]
    /\ worker = [c \in Calls |-> IdleWorker]
    /\ handler = [c \in Calls |-> IdleHandler]
    /\ client = [c \in Calls |-> NewClient]
    /\ crashed = FALSE
    /\ faults = 0

Present(dir) == {n \in Names : fs[<<dir, n>>].type # "absent"}
CanFail == faults < MaxFaults
Fail == CanFail /\ faults' = faults + 1
Working(c, pc) == ~crashed /\ worker[c].pc = pc

-----------------------------------------------------------------------------
(* The progress channel.                                                   *)

(* sendProgress: the channel is whatever the field holds now.  A full one  *)
(* loses the message, a closed one panics, in a select with default too.   *)
sendProgress(c, action, errors) ==
    LET to == progressChan
    IN  IF chan[to].closed
        THEN crashed' = TRUE /\ UNCHANGED <<chan, client>>
        ELSE /\ UNCHANGED crashed
             /\ IF Len(chan[to].queue) = ProgressCap
                THEN /\ client' = [client EXCEPT ![c].dropped = TRUE]
                     /\ UNCHANGED chan
                ELSE /\ chan' = [chan EXCEPT ![to].queue =
                             Append(@, [of |-> c, action |-> action, errors |-> errors])]
                     /\ UNCHANGED client

sendError(c) == sendProgress(c, "Error", 0)
NoReport == UNCHANGED <<chan, client, crashed>>

(* The deferred close, whose argument was read when the goroutine began.   *)
CloseChan(c) ==
    /\ Working(c, "closing")
    /\ worker' = [worker EXCEPT ![c] = [IdleWorker EXCEPT !.pc = "ended"]]
    /\ LET k == worker[c].closes
       IN  IF chan[k].closed
           THEN crashed' = TRUE /\ UNCHANGED chan
           ELSE chan' = [chan EXCEPT ![k].closed = TRUE] /\ UNCHANGED crashed
    /\ UNCHANGED <<fs, progressChan, handler, client, faults>>

-----------------------------------------------------------------------------
(* Calls: they begin at the handler, and end when the handler returns,     *)
(* which cancels the context of the call.                                  *)

Unfinished(c) ==
    \/ handler[c].pc \notin {"idle", "returned"}
    \/ worker[c].pc \notin {"none", "ended"}
Overlapped(c) == {d \in Calls \ {c} : Unfinished(d)}

Begin(c, service, request, pc) ==
    /\ ~crashed
    /\ service \in Services[c]
    /\ handler[c].pc = "idle"
    /\ \A d \in 1..(c - 1) : handler[d].pc # "idle"
    /\ handler' = [handler EXCEPT ![c] =
           [@ EXCEPT !.pc = pc, !.service = service, !.request = request]]
    /\ client' = [d \in Calls |->
           IF Overlapped(c) # {} /\ d \in Overlapped(c) \cup {c}
           THEN [client[d] EXCEPT !.alone = FALSE] ELSE client[d]]

(* Mutant: the channel is made once, for the first call.                   *)
BeginSyncMakesOnce(c, service, request) ==
    /\ Begin(c, service, request, "calling")
    /\ progressChan' = IF progressChan = NoCall THEN c ELSE progressChan
    /\ worker' = [worker EXCEPT ![c].pc = "spawned"]
    /\ UNCHANGED <<fs, chan, crashed, faults>>

(* SyncFiles and SyncDirectory: make the channel, start the goroutine.     *)
BeginSync(c, service, request) ==
    /\ Begin(c, service, request, "calling")
    /\ progressChan' = c
    /\ worker' = [worker EXCEPT ![c].pc = "spawned"]
    /\ UNCHANGED <<fs, chan, crashed, faults>>

(* ... and return the channel the field holds by then.                     *)
ReturnChan(c) ==
    /\ ~crashed
    /\ handler[c].pc = "calling"
    /\ handler' = [handler EXCEPT ![c] =
           [@ EXCEPT !.pc = "forwarding", !.reads = progressChan]]
    /\ UNCHANGED <<fs, progressChan, chan, worker, client, crashed, faults>>

(* Its locals are gone then, and the file of an upload that had not ended  *)
(* stays open for good.                                                    *)
Leaked(c) == handler[c].leaked + IF handler[c].upload.isOpen THEN 1 ELSE 0
Returns(c) ==
    handler' = [handler EXCEPT ![c] =
        [@ EXCEPT !.pc = "returned", !.ctxDone = TRUE, !.reads = NoCall,
                  !.upload = NoUpload, !.received = 0, !.leaked = Leaked(c)]]

(* One round of the handler's range over the channel.                      *)
Forward(c) ==
    /\ ~crashed
    /\ handler[c].pc = "forwarding"
    /\ LET k == handler[c].reads
       IN  \/ /\ chan[k].queue = <<>>
              /\ chan[k].closed
              /\ Returns(c)
              /\ UNCHANGED <<chan, client>>
           \/ /\ chan[k].queue # <<>>
              /\ chan' = [chan EXCEPT ![k].queue = Tail(@)]
              /\ \/ /\ ~handler[c].ctxDone
                    /\ LET message == Head(chan[k].queue)
                       IN  client' = [client EXCEPT ![c] =
                             [@ EXCEPT !.last = message,
                                       !.mixed = client[c].mixed \/ message.of # c]]
                    /\ UNCHANGED handler
                 \/ /\ handler[c].ctxDone
                    /\ Returns(c)
                    /\ UNCHANGED client
    /\ UNCHANGED <<fs, progressChan, worker, crashed, faults>>

(* The client gives up, or its connection breaks.                          *)
Cancel(c) ==
    /\ ~crashed
    /\ c \in Impatient
    /\ handler[c].pc = "forwarding"
    /\ ~handler[c].ctxDone
    /\ handler' = [handler EXCEPT ![c].ctxDone = TRUE]
    /\ client' = [client EXCEPT ![c].gone = TRUE]
    /\ UNCHANGED <<fs, progressChan, chan, worker, crashed, faults>>

(* The goroutine begins: defer close(s.progressChan) reads the field here. *)
Capture(c) ==
    /\ Working(c, "spawned")
    /\ worker' = [worker EXCEPT ![c] =
           [@ EXCEPT !.closes = progressChan,
                     !.pc = IF handler[c].service = "files" THEN "validating" ELSE "scanning"]]
    /\ UNCHANGED <<fs, progressChan, chan, handler, client, crashed, faults>>

-----------------------------------------------------------------------------
(* Files.                                                                  *)

Checksum(node) == IF node.type = "file" THEN node.content ELSE <<"none">>

needsSync(src, dst, checksum) ==
    IF checksum THEN Checksum(src) # Checksum(dst)
    ELSE Len(src.content) # Len(dst.content) \/ src.mtime # dst.mtime

(* Block number i becomes b: nothing is truncated, and a gap is filled.    *)
Write(node, i, b) ==
    IF node.type # "file" THEN node
    ELSE [node EXCEPT !.mtime = "now",
            !.content = [j \in 1..Max({i, Len(node.content)}) |->
                IF j = i THEN b
                ELSE IF j <= Len(node.content) THEN node.content[j] ELSE "hole"]]

Opened(node) == IF node.type = "absent" THEN Empty ELSE node

(* Counting an error of one file: the loop over the files goes on.         *)
CountError(c, n) ==
    worker' = [worker EXCEPT ![c] =
        [worker[c] EXCEPT !.todo = @ \ {n}, !.errors = @ + 1, !.pc = "files"]]

(* createSymlink removes what is there and then links: the second half may *)
(* fail alone, and leaves nothing there.                                   *)
createSymlink(c, path) ==
    /\ NoReport
    /\ \/ /\ fs' = [fs EXCEPT ![path] = Link]
          /\ worker' = [worker EXCEPT ![c].todo = @ \ {path[2]}]
          /\ UNCHANGED faults
       \/ /\ Fail
          /\ fs' = [fs EXCEPT ![path] = Absent]
          /\ CountError(c, path[2])

(* copyFileWithProgress, up to its loop.                                   *)
StartCopy(c, n, from, to, compress) ==
    /\ NoReport
    /\ \/ /\ fs[from].type = "absent"              \* error opening source file
          /\ CountError(c, n)
          /\ UNCHANGED <<fs, faults>>
       \/ /\ Fail
          /\ CountError(c, n)
          /\ UNCHANGED fs
       \/ /\ fs[from].type # "absent"
          /\ fs' = [fs EXCEPT ![to] = Opened(@)]
          /\ IF compress THEN CountError(c, n)     \* gzip.NewReader on a plain file
             ELSE worker' = [worker EXCEPT ![c] =
                      [@ EXCEPT !.pc = "copying", !.file = n, !.copied = 0]]
          /\ UNCHANGED faults

From(c) == <<IF handler[c].service = "files" THEN "src" ELSE "cwd", worker[c].file>>
To(c) == <<IF handler[c].service = "files" THEN "dst" ELSE "cwd", worker[c].file>>

(* Mutant: the copy ends at the end of the file, and truncates nothing.    *)
CopyBlockEnds(c) ==
    LET source == fs[From(c)].content
        i == worker[c].copied + 1
    IN  /\ NoReport
        /\ UNCHANGED faults
        /\ IF i <= Len(source)
           THEN /\ fs' = [fs EXCEPT ![To(c)] = Write(@, i, source[i])]
                /\ worker' = [worker EXCEPT ![c].copied = @ + 1]
           ELSE /\ worker' = [worker EXCEPT ![c] =
                      [worker[c] EXCEPT !.todo = @ \ {worker[c].file}, !.pc = "files"]]
                /\ UNCHANGED fs

(* One round of the copy loop.  At the end of the file its break leaves    *)
(* the select and not the loop, so the loop spins until the context ends:  *)
(* no step here, and no way out but the context or an error.               *)
CopyBlock(c) ==
    /\ worker[c].copied < Len(fs[From(c)].content)
    /\ \/ /\ LET i == worker[c].copied + 1
             IN  fs' = [fs EXCEPT ![To(c)] = Write(@, i, fs[From(c)].content[i])]
          /\ worker' = [worker EXCEPT ![c].copied = @ + 1]
          /\ sendProgress(c, "Copying", 0)
          /\ UNCHANGED faults
       \/ /\ Fail
          /\ CountError(c, worker[c].file)
          /\ NoReport
          /\ UNCHANGED fs

(* Mutant: the loop does not look at the context.                          *)
CopyUncancelled(c) ==
    /\ Working(c, "copying")
    /\ CopyBlock(c)
    /\ UNCHANGED <<progressChan, handler>>

Copy(c) ==
    /\ Working(c, "copying")
    /\ \/ /\ handler[c].ctxDone
          /\ CountError(c, worker[c].file)
          /\ NoReport
          /\ UNCHANGED <<fs, faults>>
       \/ /\ ~handler[c].ctxDone
          /\ CopyBlock(c)
    /\ UNCHANGED <<progressChan, handler>>

-----------------------------------------------------------------------------
(* The goroutine of SyncFiles.                                             *)

(* Mutant: a refused request ends the goroutine without a word.            *)
validateRequestSilent(c) ==
    /\ Working(c, "validating")
    /\ IF handler[c].request.valid
       THEN /\ sendProgress(c, "Scanning", 0)
            /\ worker' = [worker EXCEPT ![c].pc = "scanning"]
       ELSE /\ NoReport
            /\ worker' = [worker EXCEPT ![c].pc = "closing"]
    /\ UNCHANGED <<fs, progressChan, handler, faults>>

validateRequest(c) ==
    /\ Working(c, "validating")
    /\ IF handler[c].request.valid
       THEN /\ sendProgress(c, "Scanning", 0)
            /\ worker' = [worker EXCEPT ![c].pc = "scanning"]
       ELSE /\ sendError(c)
            /\ worker' = [worker EXCEPT ![c].pc = "closing"]
    /\ UNCHANGED <<fs, progressChan, handler, faults>>

(* A source that is a single file is listed as itself, under no name that  *)
(* the destination directory knows (0 here).                               *)
ScanFails(c) ==
    /\ Fail
    /\ sendError(c)
    /\ worker' = [worker EXCEPT ![c].pc = "closing"]

scanDirectory(c) ==
    /\ Working(c, "scanning")
    /\ handler[c].service = "files"
    /\ \/ ScanFails(c)
       \/ /\ LET found == IF handler[c].request.single THEN {0} ELSE Present("src")
             IN  worker' = [worker EXCEPT ![c] =
                     [@ EXCEPT !.pc = "files", !.listed = found, !.todo = found]]
          /\ NoReport
          /\ UNCHANGED faults
    /\ UNCHANGED <<fs, progressChan, handler>>

(* processFile.  A single file whose destination is a directory cannot be  *)
(* opened for writing.                                                     *)
processFile(c, n) ==
    \/ /\ n = 0
       /\ CountError(c, n)
       /\ NoReport
       /\ UNCHANGED <<fs, faults>>
    \/ /\ n # 0
       /\ fs[<<"src", n>>].type = "link"
       /\ createSymlink(c, <<"dst", n>>)
    \/ /\ n # 0
       /\ fs[<<"src", n>>].type # "link"
       /\ LET src == fs[<<"src", n>>]
              dst == fs[<<"dst", n>>]
          IN  IF dst.type # "absent" /\ ~needsSync(src, dst, handler[c].request.checksum)
              THEN /\ sendProgress(c, "Skipping", 0)
                   /\ worker' = [worker EXCEPT ![c].todo = @ \ {n}]
                   /\ UNCHANGED <<fs, faults>>
              ELSE StartCopy(c, n, <<"src", n>>, <<"dst", n>>, handler[c].request.compress)

ProcessFiles(c) ==
    /\ Working(c, "files")
    /\ handler[c].service = "files"
    /\ worker[c].todo # {}
    /\ IF handler[c].ctxDone
       THEN /\ sendError(c)
            /\ worker' = [worker EXCEPT ![c].pc = "closing"]
            /\ UNCHANGED <<fs, faults>>
       ELSE processFile(c, Min(worker[c].todo))
    /\ UNCHANGED <<progressChan, handler>>

(* deleteExtraFiles: every file of the destination that was not listed.    *)
(* An error of the walk ends the call.                                     *)
Extra(c) ==
    IF handler[c].service = "files" /\ handler[c].request.delete
    THEN Present("dst") \ worker[c].listed
    ELSE {}

deleteExtraFiles(c) ==
    /\ Working(c, "files")
    /\ worker[c].todo = {}
    /\ Extra(c) # {}
    /\ \/ /\ sendProgress(c, "Deleting", 0)
          /\ fs' = [fs EXCEPT ![<<"dst", Min(Extra(c))>>] = Absent]
          /\ UNCHANGED <<worker, faults>>
       \/ /\ Fail
          /\ sendError(c)
          /\ worker' = [worker EXCEPT ![c].pc = "closing"]
          /\ UNCHANGED fs
    /\ UNCHANGED <<progressChan, handler>>

(* The final statistics, when every file was seen and none is to delete.   *)
AllSeen(c) == Working(c, "files") /\ worker[c].todo = {} /\ Extra(c) = {}

Verdict(c) ==
    /\ AllSeen(c)
    /\ sendProgress(c, "Done", worker[c].errors)
    /\ worker' = [worker EXCEPT ![c].pc = "closing"]
    /\ UNCHANGED <<fs, progressChan, handler, faults>>

-----------------------------------------------------------------------------
(* The goroutine of SyncDirectory.                                         *)

(* The names whose metadata differ; with Delete, those only the            *)
(* destination has.  Directories, which this walk lists too, are left out. *)
calculateChanges(request) ==
    {n \in Present("src") :
        \/ fs[<<"dst", n>>].type = "absent"
        \/ needsSync(fs[<<"src", n>>], fs[<<"dst", n>>], request.checksum)}
      \cup (IF request.delete THEN Present("dst") \ Present("src") ELSE {})

scanDirectoryWithMetadata(c) ==
    /\ Working(c, "scanning")
    /\ handler[c].service = "directory"
    /\ \/ ScanFails(c)
       \/ /\ worker' = [worker EXCEPT ![c] =
                 [@ EXCEPT !.pc = "files", !.listed = Present("dst"),
                           !.todo = calculateChanges(handler[c].request)]]
          /\ NoReport
          /\ UNCHANGED faults
    /\ UNCHANGED <<fs, progressChan, handler>>

(* applyChange takes the path relative to the two directories and uses it  *)
(* as it is, so it acts on the working directory of the worker: it copies  *)
(* a file onto itself, and removes or links a file there.  A delta copy    *)
(* of a file the destination has is a stub.                                *)
applyChange(c, n) ==
    \/ /\ fs[<<"src", n>>].type = "link"
       /\ createSymlink(c, <<"cwd", n>>)
    \/ /\ fs[<<"src", n>>].type = "file"
       /\ IF handler[c].request.useDelta /\ n \in worker[c].listed
          THEN /\ worker' = [worker EXCEPT ![c].todo = @ \ {n}]
               /\ NoReport
               /\ UNCHANGED <<fs, faults>>
          ELSE StartCopy(c, n, <<"cwd", n>>, <<"cwd", n>>, handler[c].request.compress)
    \/ /\ fs[<<"src", n>>].type = "absent"
       /\ IF fs[<<"cwd", n>>].type = "absent"
          THEN CountError(c, n) /\ UNCHANGED fs
          ELSE /\ fs' = [fs EXCEPT ![<<"cwd", n>>] = Absent]
               /\ worker' = [worker EXCEPT ![c].todo = @ \ {n}]
       /\ NoReport
       /\ UNCHANGED faults

ApplyChanges(c) ==
    /\ Working(c, "files")
    /\ handler[c].service = "directory"
    /\ worker[c].todo # {}
    /\ IF handler[c].ctxDone
       THEN /\ worker' = [worker EXCEPT ![c].pc = "closing"]
            /\ NoReport
            /\ UNCHANGED <<fs, faults>>
       ELSE \E n \in worker[c].todo : applyChange(c, n)
    /\ UNCHANGED <<progressChan, handler>>

-----------------------------------------------------------------------------
(* The other operations.                                                   *)

ListFiles(c) ==
    /\ Begin(c, "list", <<>>, "returned")
    /\ UNCHANGED <<fs, progressChan, chan, worker, crashed, faults>>

(* DeleteFile of one file, or (n = 0) of the directory, whose removal is   *)
(* one step here.  The refusals are answers and change nothing.            *)
DeleteFile(c, n, recursive) ==
    /\ Begin(c, "remove", <<>>, "returned")
    /\ \/ n # 0 /\ fs' = [fs EXCEPT ![<<"dst", n>>] = Absent] /\ UNCHANGED faults
       \/ n = 0 /\ recursive /\ UNCHANGED faults
          /\ fs' = [p \in DOMAIN fs |-> IF p[1] = "dst" THEN Absent ELSE fs[p]]
       \/ n = 0 /\ ~recursive /\ UNCHANGED <<fs, faults>>
       \/ n # 0 /\ Fail /\ UNCHANGED fs
    /\ UNCHANGED <<progressChan, chan, worker, crashed>>

SyncFilesStream(c) ==
    /\ Begin(c, "upload", <<>>, "receiving")
    /\ UNCHANGED <<fs, progressChan, chan, worker, crashed, faults>>

Receive(c) ==
    /\ ~crashed
    /\ handler[c].pc = "receiving"
    /\ UNCHANGED <<progressChan, chan, worker, crashed>>

(* A new upload on the stream: the file of the one before stays open.      *)
InitiateFileUpload(c, n) ==
    /\ Receive(c)
    /\ handler[c].received < MaxMessages
    /\ \/ /\ fs' = [fs EXCEPT ![<<"dst", n>>] = Opened(@)]
          /\ handler' = [handler EXCEPT ![c] =
                 [handler[c] EXCEPT !.upload = [name |-> n, isOpen |-> TRUE],
                                    !.leaked = Leaked(c), !.received = @ + 1]]
          /\ UNCHANGED faults
       \/ Fail /\ Returns(c) /\ UNCHANGED fs
    /\ UNCHANGED client

(* Ends of the stream: EOF, an error of Recv, of Send or of a chunk.       *)
EndStream(c) ==
    /\ Receive(c)
    /\ Returns(c)
    /\ UNCHANGED <<fs, client, faults>>

(* A reference is to a block of the file the worker itself has at the      *)
(* source path; one past its end is an error, and ends the stream.         *)
Referenced(n, i) == i <= Len(fs[<<"src", n>>].content)
processDeltaChunk(n, i) == Write(fs[<<"dst", n>>], i, fs[<<"src", n>>].content[i])

(* A chunk at block i: content, or such a reference.                       *)
ProcessFileChunk(c, i, delta, isLast) ==
    /\ Receive(c)
    /\ handler[c].received < MaxMessages
    /\ handler[c].upload.isOpen
    /\ LET n == handler[c].upload.name
       IN  /\ delta => Referenced(n, i)
           /\ fs' = [fs EXCEPT ![<<"dst", n>>] =
                  IF delta THEN processDeltaChunk(n, i) ELSE Write(@, i, "u")]
    /\ handler' = [handler EXCEPT ![c] =
           [handler[c] EXCEPT !.upload = [name |-> @.name, isOpen |-> ~isLast],
                              !.received = @ + 1]]
    /\ client' = [client EXCEPT ![c].last =
           [of |-> c, action |-> IF isLast THEN "Done" ELSE "Copying", errors |-> 0]]
    /\ UNCHANGED faults

-----------------------------------------------------------------------------
Work(c) == \/ Capture(c) \/ validateRequest(c) \/ scanDirectory(c) \/ ProcessFiles(c)
           \/ scanDirectoryWithMetadata(c) \/ ApplyChanges(c) \/ Copy(c)
           \/ deleteExtraFiles(c) \/ Verdict(c) \/ CloseChan(c)

Handle(c) == ReturnChan(c) \/ Forward(c)

Call(c) ==
    \/ \E service \in {"files", "directory"} :
          \E request \in Requests[c][service] : BeginSync(c, service, request)
    \/ ListFiles(c)
    \/ \E n \in Names \cup {0}, recursive \in BOOLEAN : DeleteFile(c, n, recursive)
    \/ SyncFilesStream(c)

Upload(c) ==
    \/ \E n \in Names : InitiateFileUpload(c, n)
    \/ \E i \in Offsets, delta, isLast \in BOOLEAN : ProcessFileChunk(c, i, delta, isLast)
    \/ EndStream(c)

Next == \E c \in Calls : Call(c) \/ Handle(c) \/ Work(c) \/ Upload(c) \/ Cancel(c)

Spec == Init /\ [][Next]_vars

(* The goroutines run.  Nobody has to cancel, and no client to read.       *)
FairSpec == Spec /\ \A c \in Calls : WF_vars(Work(c))

-----------------------------------------------------------------------------
(* Properties.                                                             *)

Messages == [of : Calls \cup {NoCall}, action : Actions, errors : Nat]

TypeOK ==
    /\ fs \in [Dirs \X Names -> Nodes]
    /\ progressChan \in Calls \cup {NoCall}
    /\ \A c \in Calls :
          /\ chan[c].queue \in Seq(Messages) /\ Len(chan[c].queue) <= ProgressCap
          /\ chan[c].closed \in BOOLEAN
          /\ worker[c].pc \in {"none", "spawned", "validating", "scanning", "files",
                               "copying", "closing", "ended"}
          /\ worker[c].todo \subseteq Names \cup {0}
          /\ handler[c].pc \in {"idle", "calling", "forwarding", "receiving", "returned"}
          /\ handler[c].leaked \in 0..MaxMessages
          /\ client[c].last \in Messages
    /\ crashed \in BOOLEAN
    /\ faults \in 0..MaxFaults

(* The shared progress channel does harm only to calls that overlap: a     *)
(* call that never did gets no message of another one, however many calls  *)
(* went before it, and no send on a closed channel or second close kills   *)
(* the worker while every call ran alone (sync_service.go:38, :41, :101).  *)
HarmOnlyByOverlap ==
    /\ \A c \in Calls : client[c].mixed => ~client[c].alone
    /\ crashed => \E c \in Calls : ~client[c].alone

(* A client of SyncFiles or SyncDirectory that stays to the end, and whose *)
(* call ran alone, is told Done or Error before the stream closes; the one *)
(* exception is a full channel, where sendProgress throws the verdict away *)
(* like any other message (sync_service.go:324).                           *)
NobodyLeftGuessing ==
    \A c \in Calls :
        /\ handler[c].service \in {"files", "directory"}
        /\ handler[c].pc = "returned"
        /\ client[c].alone /\ ~client[c].gone /\ ~client[c].dropped
        => client[c].last.of = c /\ client[c].last.action \in {"Done", "Error"}

(* When SyncFiles is about to report Done with no errors, having compared  *)
(* checksums, the destination holds what the source holds, name by name,   *)
(* and with Delete nothing else.  (Only because no copy ever finishes: the *)
(* destination is not truncated, so a finished copy could leave an old     *)
(* tail, and without checksums an interrupted one could pass for new.)     *)
Synced(n) ==
    /\ fs[<<"dst", n>>].type = fs[<<"src", n>>].type
    /\ Checksum(fs[<<"dst", n>>]) = Checksum(fs[<<"src", n>>])

DoneMeansSynced ==
    \A c \in Calls :
        /\ handler[c].service = "files" /\ AllSeen(c)
        /\ client[c].alone /\ worker[c].errors = 0 /\ handler[c].request.checksum
        => /\ \A n \in Present("src") : Synced(n)
           /\ handler[c].request.delete => Present("dst") = Present("src")

(* A call that ran alone and whose context is done comes to its end: the   *)
(* spinning copy loop, the loop over the files and the close all see it    *)
(* (sync_service.go:72, :130, :780).                                       *)
CancelledEnds ==
    \A c \in Calls :
        worker[c].pc # "none" /\ handler[c].ctxDone
            ~> worker[c].pc = "ended" \/ crashed \/ ~client[c].alone

=============================================================================
