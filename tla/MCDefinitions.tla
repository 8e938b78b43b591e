--------------------------- MODULE MCDefinitions ---------------------------
(* Three calls, of which the last may walk the pages of a collection, and  *)
(* three ids, two of them taken in each collection from the start.  The    *)
(* operations are shared out over the calls, to keep the run small: those  *)
(* that read a row and write it later meet each other, the deletions and   *)
(* the creations.                                                          *)
EXTENDS Definitions

MCOps ==
    <<{"createTask", "updateTask", "deleteTask", "updateWorker", "updateStatus", "deleteWorker"},
      {"createTask", "updateTask", "deleteTask", "updateStatus", "deleteWorker",
       "createWorker", "createBatch", "deleteBatch"},
      {"createTask", "deleteTask", "deleteBatch", "findByName", "list"}>>

MCStart ==
    LET row(name, state) == [name |-> name, state |-> state, created |-> 0]
    IN  [tasks |-> <<row(2, "none"), row(1, "none"), NoDocument>>,
         workers |-> <<row(1, "PENDING"), row(1, "PENDING"), NoDocument>>]
=============================================================================
