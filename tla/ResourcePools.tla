--------------------------- MODULE ResourcePools ---------------------------
(***************************************************************************)
(* ResourcePoolServiceImpl: the rows of pool definitions, the map of       *)
(* active pools, and concurrent HTTP calls of its operations.  The mutex   *)
(* covers one access to the map, and the repository makes one call atomic; *)
(* everything between two of them can be interleaved.  A row is read and   *)
(* written as a whole.  The map is keyed by the name a pool was given, but *)
(* searched with the id of the definition; ids and names are both strings  *)
(* the client chooses.  A write that fails may have had its effect.        *)
(***************************************************************************)
EXTENDS FiniteSets

CONSTANTS Keys,          \* the strings used as ids of definitions, names and pool ids
          Calls,         \* the HTTP calls
          NoCall,
          Definitions,   \* the definitions the clients send, all valid
          NoRow,
          FactoryTypes   \* the types the factory makes pools of

ASSUME KeysAssumption == IsFiniteSet(Keys) /\ NoCall \notin Calls

\* Metadata.Name, which the factory gives the pool as its id, and Spec.PoolID are two fields.
ValidTypes == {"Kubernetes", "Docker", "VM"}
States == {"PENDING", "ACTIVE", "INACTIVE", "ERROR", "DELETED"}
Rows == [state : States, name : Keys, poolID : Keys, type : ValidTypes]

ASSUME DefinitionsAssumption == Definitions \subseteq Rows /\ NoRow \notin Rows

VARIABLES
  row,     \* of each id: the definition, or NoRow
  active,  \* of each name: the call whose pool is in activePools, or NoCall
  call,    \* of each call: where it is and what it has read
  since    \* history, of each call: the names registered since it looked into activePools

vars == <<row, active, call, since>>

Idle == [op |-> "none", pc |-> "idle", id |-> "none", def |-> NoRow, todo |-> {},
         answer |-> "none"]

Init ==
    /\ row = [k \in Keys |-> NoRow]
    /\ active = [k \in Keys |-> NoCall]
    /\ call = [c \in Calls |-> Idle]
    /\ since = [c \in Calls |-> {}]

Free(c) == call[c].op = "none"
At(c, op, pc) == call[c].op = op /\ call[c].pc = pc
Goes(c, pc) == call' = [call EXCEPT ![c].pc = pc]
Answers(c, answer) ==
    call' = [call EXCEPT ![c] = [@ EXCEPT !.pc = "done", !.answer = answer]]
Ends(c, answer) == call' = [call EXCEPT ![c] = [Idle EXCEPT !.op = "done", !.answer = answer]]
Begins(c, op, id, def, pc) ==
    call' = [call EXCEPT ![c] = [Idle EXCEPT !.op = op, !.id = id, !.def = def, !.pc = pc]]

-----------------------------------------------------------------------------
(* The repository and the map *)

\* Mutant: an update of a row that is not there creates it.
Upserts(id, def) == row' = [row EXCEPT ![id] = def]

\* ReplaceOne: no row is made for an id that has none.
Updates(id, def) == row[id] # NoRow /\ row' = [row EXCEPT ![id] = def]

\* The calls that have looked into activePools and may register a pool.
Making(d) == call[d].op \in {"instance", "all"} /\ call[d].pc \in {"find", "make", "register"}
Registers(c, key) ==
    /\ active' = [active EXCEPT ![key] = c]
    /\ since' = [d \in Calls |-> IF d = c THEN {}
                                 ELSE since[d] \cup {k \in {key} : Making(d)}]

\* Mutant: the key is the id of the definition.
RegistersById(c) == Registers(c, call[c].id)

\* It replaces the pool that was there.
RegisterActivePool(c) == Registers(c, call[c].def.name)

\* UnregisterActivePool, by name: whoever registered it.
UnregisterActivePool(c) == active' = [active EXCEPT ![call[c].def.name] = NoCall]

\* Mutant: the map is not looked into.
NeverActive(id) == FALSE

GetActivePool(id) == active[id] # NoCall

-----------------------------------------------------------------------------
(* CreateResourcePool, UpdateResourcePool, DeleteResourcePool *)

\* InsertOne: a duplicate id, or a failure, is an error; "unsure" one after which the row is there.
CreateResourcePool(c, id, def) ==
    /\ Free(c)
    /\ \/ /\ row[id] = NoRow
          /\ row' = [row EXCEPT ![id] = def]
          /\ Ends(c, "created") \/ Ends(c, "unsure")
       \/ Ends(c, "error") /\ UNCHANGED row
    /\ UNCHANGED <<active, since>>

\* FindByID, then the whole of the new definition: whatever state it names, pool or no pool.
UpdateFinds(c, id, def) ==
    /\ Free(c)
    /\ row[id] # NoRow
    /\ Begins(c, "update", id, def, "store")
    /\ UNCHANGED <<row, active, since>>

UpdateStores(c) ==
    /\ At(c, "update", "store")
    /\ \/ Updates(call[c].id, call[c].def) /\ (Ends(c, "ok") \/ Ends(c, "error"))
       \/ Ends(c, "error") /\ UNCHANGED row
    /\ UNCHANGED <<active, since>>

\* Only the state column is looked at, and the pool that may be active stays so.
DeleteFinds(c, id) ==
    /\ Free(c)
    /\ row[id] # NoRow /\ row[id].state # "ACTIVE"
    /\ Begins(c, "delete", id, row[id], "remove")
    /\ UNCHANGED <<row, active, since>>

DeleteRemoves(c) ==
    /\ At(c, "delete", "remove")
    /\ \/ /\ row[call[c].id] # NoRow
          /\ row' = [row EXCEPT ![call[c].id] = NoRow]
          /\ Ends(c, "ok") \/ Ends(c, "error")
       \/ Ends(c, "error") /\ UNCHANGED row
    /\ UNCHANGED <<active, since>>

-----------------------------------------------------------------------------
(* CreateResourcePoolInstance *)

InstanceLooks(c, id) ==
    /\ Free(c)
    /\ call' = [call EXCEPT ![c] = [Idle EXCEPT !.op = "instance", !.id = id,
                                      !.pc = IF GetActivePool(id) THEN "done" ELSE "find",
                                      !.answer = IF GetActivePool(id) THEN "found" ELSE "none"]]
    /\ since' = [since EXCEPT ![c] = {}]
    /\ UNCHANGED <<row, active>>

\* No row, a state that is not ACTIVE, or a failed query: an error.
InstanceFinds(c) ==
    /\ At(c, "instance", "find")
    /\ LET def == row[call[c].id]
       IN  \/ /\ def # NoRow /\ def.state = "ACTIVE"
              /\ call' = [call EXCEPT ![c] = [@ EXCEPT !.def = def, !.pc = "make"]]
           \/ Answers(c, "error")
    /\ UNCHANGED <<row, active, since>>

\* The factory: an unknown type, or a client that cannot be made.
FactoryFails(c) ==
    /\ call[c].pc = "make"
    /\ Goes(c, "storeError")
    /\ UNCHANGED <<row, active, since>>

InstanceMade(c) ==
    /\ At(c, "instance", "make")
    /\ call[c].def.type \in FactoryTypes
    /\ Goes(c, "register")
    /\ UNCHANGED <<row, active, since>>

Mismatch(def) == def.name # def.poolID

\* Registered first; a mismatch of the ids is an error that leaves it there.
InstanceRegisters(c) ==
    /\ At(c, "instance", "register")
    /\ RegisterActivePool(c)
    /\ IF Mismatch(call[c].def) THEN Answers(c, "mismatch") ELSE Goes(c, "store")
    /\ UNCHANGED row

InstanceStores(c) ==
    /\ At(c, "instance", "store")
    /\ \/ /\ Updates(call[c].id, [call[c].def EXCEPT !.state = "ACTIVE"])
          /\ Answers(c, "pool") \/ Goes(c, "unregister")
       \/ Goes(c, "unregister") /\ UNCHANGED row
    /\ UNCHANGED <<active, since>>

\* Mutant: the pool stays registered when its row could not be written.
InstanceGivesUp(c) ==
    /\ At(c, "instance", "unregister")
    /\ Answers(c, "unstored")
    /\ UNCHANGED <<row, active, since>>

InstanceUnregisters(c) ==
    /\ At(c, "instance", "unregister")
    /\ UnregisterActivePool(c)
    /\ Answers(c, "unstored")
    /\ UNCHANGED <<row, since>>

-----------------------------------------------------------------------------
(* CreateAllResourcePools *)

\* One query, which may fail; the definitions found are handled one by one, here in any order.
AllFinds(c) ==
    /\ Free(c)
    /\ LET found == {k \in Keys : row[k] # NoRow /\ row[k].state = "ACTIVE"}
       IN  \/ call' = [call EXCEPT ![c] = [Idle EXCEPT !.op = "all", !.pc = "next",
                                              !.todo = {<<k, row[k]>> : k \in found}]]
           \/ Ends(c, "error")
    /\ UNCHANGED <<row, active, since>>

\* A definition whose id is the name of an active pool is passed over.
AllLooks(c) ==
    /\ At(c, "all", "next")
    /\ \E item \in call[c].todo :
         /\ call' = [call EXCEPT ![c] =
                        [@ EXCEPT !.todo = call[c].todo \ {item}, !.id = item[1], !.def = item[2],
                                  !.pc = IF GetActivePool(item[1]) THEN "next" ELSE "make"]]
         /\ since' = [since EXCEPT ![c] = {}]
    /\ UNCHANGED <<row, active>>

\* The ids are compared before the pool is registered.
AllMade(c) ==
    /\ At(c, "all", "make")
    /\ call[c].def.type \in FactoryTypes
    /\ Goes(c, IF Mismatch(call[c].def) THEN "next" ELSE "register")
    /\ UNCHANGED <<row, active, since>>

AllRegisters(c) ==
    /\ At(c, "all", "register")
    /\ RegisterActivePool(c)
    /\ Goes(c, "next")
    /\ UNCHANGED row

AllEnds(c) ==
    /\ At(c, "all", "next")
    /\ call[c].todo = {}
    /\ Ends(c, "ok")
    /\ UNCHANGED <<row, active, since>>

-----------------------------------------------------------------------------
\* Both creators store ERROR over the definition as they read it; the update may fail.
StoresError(c) ==
    /\ call[c].pc = "storeError"
    /\ \/ Updates(call[c].id, [call[c].def EXCEPT !.state = "ERROR"])
       \/ UNCHANGED row
    /\ IF call[c].op = "all" THEN Goes(c, "next") ELSE Answers(c, "error")
    /\ UNCHANGED <<active, since>>

Next ==
    \E c \in Calls :
       \/ \E id \in Keys, def \in Definitions :
             CreateResourcePool(c, id, def) \/ UpdateFinds(c, id, def)
       \/ \E id \in Keys : DeleteFinds(c, id) \/ InstanceLooks(c, id)
       \/ UpdateStores(c) \/ DeleteRemoves(c)
       \/ InstanceFinds(c) \/ InstanceMade(c) \/ InstanceRegisters(c) \/ InstanceStores(c)
       \/ InstanceUnregisters(c)
       \/ AllFinds(c) \/ AllLooks(c) \/ AllMade(c) \/ AllRegisters(c) \/ AllEnds(c)
       \/ FactoryFails(c) \/ StoresError(c)

Spec == Init /\ [][Next]_vars

-----------------------------------------------------------------------------
(* Properties *)

Records == [op : {"none", "update", "delete", "instance", "all", "done"},
            pc : {"idle", "find", "make", "storeError", "register", "store", "unregister",
                  "remove", "next", "done"},
            id : Keys \cup {"none"},
            def : Rows \cup {NoRow},
            todo : SUBSET (Keys \X Rows),
            answer : {"none", "ok", "created", "pool", "found", "error", "mismatch",
                      "unstored", "unsure"}]

\* What a call needs it has read before.
Prepared(x) ==
    /\ x.pc \in {"find", "make", "storeError", "register", "store", "unregister", "remove"}
         => x.id \in Keys
    /\ x.pc \in {"make", "storeError", "register", "store", "unregister"} => x.def \in Rows

TypeOK ==
    /\ row \in [Keys -> Rows \cup {NoRow}]
    /\ active \in [Keys -> Calls \cup {NoCall}]
    /\ call \in [Calls -> Records] /\ \A c \in Calls : Prepared(call[c])
    /\ since \in [Calls -> SUBSET Keys]

\* A call of CreateResourcePoolInstance that answered with an error has left no pool of its own
\* active, except when the error is that the ids differ, which is found after registering.
ErrorLeavesNoPool ==
    \A k \in Keys : active[k] # NoCall =>
       ~(call[active[k]].op = "instance" /\ call[active[k]].answer \in {"error", "unstored"})

\* The pool a call answered with is still to be found under its name, or one that replaced it,
\* unless another call for that name failed to write its row and took the entry out.
AnsweredPoolIsActive ==
    \A c \in Calls : call[c].answer = "pool" =>
       \/ active[call[c].def.name] # NoCall
       \/ \E d \in Calls : call[d].answer = "unstored" /\ call[d].def.name = call[c].def.name

\* A pool whose definition has the pool's name as its id is replaced only by a call that looked
\* before it was registered: the check and the registration are not atomic, and the check
\* cannot see a pool whose definition has another id.
ReplacedOnlyByOverlap ==
    [][\A k \in Keys : active[k] # NoCall /\ active'[k] \notin {NoCall, active[k]}
          => call[active'[k]].id # k \/ k \in since[active'[k]]]_vars

\* A definition that was deleted comes back only if a client creates it, perhaps to be answered
\* an error: the calls that write a definition they had read before do not bring it back.
DeletedStaysDeleted ==
    [][\A k \in Keys : row[k] = NoRow /\ row'[k] # NoRow
          => \E c \in Calls : Free(c) /\ call'[c].answer \in {"created", "unsure"}]_vars
=============================================================================
