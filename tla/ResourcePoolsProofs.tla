------------------------ MODULE ResourcePoolsProofs ------------------------
(***************************************************************************)
(* What TLAPS proves of the resource pool service, for any number of calls *)
(* and any strings the clients choose: what a call that fails leaves in    *)
(* the map of active pools, how long a pool that was answered stays there, *)
(* and who may replace it.                                                 *)
(***************************************************************************)
EXTENDS ResourcePools, TLAPS

\* What one call may do next; Next is one of these for some call.
Step(c) ==
    \/ \E id \in Keys, def \in Definitions :
          CreateResourcePool(c, id, def) \/ UpdateFinds(c, id, def)
    \/ \E id \in Keys : DeleteFinds(c, id) \/ InstanceLooks(c, id)
    \/ UpdateStores(c) \/ DeleteRemoves(c)
    \/ InstanceFinds(c) \/ InstanceMade(c) \/ InstanceRegisters(c) \/ InstanceStores(c)
    \/ InstanceUnregisters(c)
    \/ AllFinds(c) \/ AllLooks(c) \/ AllMade(c) \/ AllRegisters(c) \/ AllEnds(c)
    \/ FactoryFails(c) \/ StoresError(c)

\* Only a call that registered a pool is in the map; one of CreateResourcePoolInstance is there
\* under the name of its definition, and it has not failed before or after.
Owns(k, c) ==
    /\ call[c].op \in {"instance", "all", "done"}
    /\ call[c].op = "instance" =>
         /\ k = call[c].def.name
         /\ \/ call[c].pc \in {"store", "unregister"} /\ call[c].answer = "none"
            \/ call[c].pc = "done" /\ call[c].answer \in {"pool", "mismatch"}
OwnersAreFine == \A k \in Keys, c \in Calls : active[k] = c => Owns(k, c)

\* A call that answered with a pool, or could not write the row of one, is over; and
\* CreateResourcePoolInstance answers once.
Settled(c) ==
    /\ call[c].answer \in {"pool", "unstored"} => At(c, "instance", "done")
    /\ call[c].op = "instance" /\ call[c].pc # "done" => call[c].answer = "none"
AllSettled == \A c \in Calls : Settled(c)

\* A call that could not write its row took out what was registered under that name.
TakenOut(name) == \E d \in Calls : call[d].answer = "unstored" /\ call[d].def.name = name

\* The pool of a call that is about to write the row, or has answered, is there or replaced.
Kept(c) ==
    At(c, "instance", "store") \/ call[c].answer = "pool" =>
       /\ call[c].def.name \in Keys
       /\ active[call[c].def.name] # NoCall \/ TakenOut(call[c].def.name)
AllKept == \A c \in Calls : Kept(c)

\* A call that found nothing under its id has noted every registration there since.
Watches(c) == Making(c) => active[call[c].id] = NoCall \/ call[c].id \in since[c]
AllWatch == \A c \in Calls : Watches(c)

PoolsInv == OwnersAreFine /\ AllSettled /\ AllKept /\ AllWatch

-----------------------------------------------------------------------------
(* Types *)

\* What a step makes of its own call is a record, and no other call changes.
LEMMA StepType ==
    ASSUME TypeOK, NEW c \in Calls, Step(c)
    PROVE  /\ call' = [call EXCEPT ![c] = call'[c]] /\ call'[c] \in Records /\ Prepared(call'[c])
<1>1. call \in [Calls -> Records] /\ call[c] \in Records /\ Prepared(call[c])
  BY DEF TypeOK
<1>2. row \in [Keys -> Rows \cup {NoRow}] /\ Definitions \subseteq Rows
  BY DefinitionsAssumption DEF TypeOK
<1>3. Idle \in Records /\ Idle.op = "none" /\ Idle.pc = "idle"
  BY DEF Idle, Records
<1> DEFINE Good(x) == call' = [call EXCEPT ![c] = x] /\ x \in Records /\ Prepared(x)
<1>4. ASSUME NEW x, Good(x)
      PROVE  call' = [call EXCEPT ![c] = call'[c]] /\ call'[c] \in Records /\ Prepared(call'[c])
  <2>1. call'[c] = x
    BY <1>1, <1>4
  <2> QED
    BY <1>4, <2>1
<1>5. ASSUME NEW answer \in {"created", "unsure", "ok", "error"}, Ends(c, answer)
      PROVE  \E x : Good(x)
  <2> DEFINE x == [Idle EXCEPT !.op = "done", !.answer = answer]
  <2>1. x \in Records /\ Prepared(x)
    BY DEF Idle, Records, Prepared
  <2> QED
    BY <1>5, <2>1 DEF Ends
<1>6. ASSUME NEW answer \in {"pool", "error", "mismatch", "unstored"}, Answers(c, answer)
      PROVE  \E x : Good(x)
  <2> DEFINE x == [call[c] EXCEPT !.pc = "done", !.answer = answer]
  <2>1. x \in Records /\ Prepared(x)
    BY ZenonT(60), <1>1 DEF Records, Prepared
  <2> QED
    BY <1>6, <2>1 DEF Answers
<1>7. ASSUME NEW pc \in {"storeError", "register", "store", "unregister", "next"}, Goes(c, pc),
             call[c].pc \in {"make", "storeError", "register", "store"}
      PROVE  \E x : Good(x)
  <2> DEFINE x == [call[c] EXCEPT !.pc = pc]
  <2>1. x \in Records /\ Prepared(x)
    BY <1>1, <1>7 DEF Records, Prepared
  <2>2. call' = [call EXCEPT ![c] = x]
    BY <1>7 DEF Goes
  <2> QED
    BY <2>1, <2>2
<1>8. ASSUME NEW op \in {"update", "delete"}, NEW pc \in {"store", "remove"}, NEW id \in Keys,
             NEW def \in Rows, Begins(c, op, id, def, pc)
      PROVE  \E x : Good(x)
  <2> DEFINE x == [Idle EXCEPT !.op = op, !.id = id, !.def = def, !.pc = pc]
  <2>1. x \in Records /\ Prepared(x)
    BY DEF Idle, Records, Prepared
  <2> QED
    BY <1>8, <2>1 DEF Begins
<1>9. ASSUME NEW id \in Keys, NEW def \in Definitions,
             CreateResourcePool(c, id, def) \/ UpdateFinds(c, id, def)
      PROVE  \E x : Good(x)
  BY <1>2, <1>5, <1>8, <1>9 DEF CreateResourcePool, UpdateFinds
<1>10. ASSUME NEW id \in Keys, DeleteFinds(c, id)
       PROVE  \E x : Good(x)
  <2>1. row[id] \in Rows
    BY <1>2, <1>10 DEF DeleteFinds
  <2> QED
    BY <1>8, <1>10, <2>1 DEF DeleteFinds
<1>11. ASSUME NEW id \in Keys, InstanceLooks(c, id)
       PROVE  \E x : Good(x)
  <2> DEFINE x == [Idle EXCEPT !.op = "instance", !.id = id,
                               !.pc = IF GetActivePool(id) THEN "done" ELSE "find",
                               !.answer = IF GetActivePool(id) THEN "found" ELSE "none"]
  <2>1. x \in Records /\ Prepared(x)
    BY DEF Idle, Records, Prepared
  <2> QED
    BY <1>11, <2>1 DEF InstanceLooks
<1>12. ASSUME UpdateStores(c) \/ DeleteRemoves(c)
       PROVE  \E x : Good(x)
  BY <1>5, <1>12 DEF UpdateStores, DeleteRemoves
<1>13. ASSUME InstanceFinds(c)
       PROVE  \E x : Good(x)
  <2>1. CASE Answers(c, "error")
    BY <1>6, <2>1
  <2>2. CASE /\ row[call[c].id] # NoRow
             /\ call' = [call EXCEPT ![c] = [@ EXCEPT !.def = row[call[c].id], !.pc = "make"]]
    <3> DEFINE x == [call[c] EXCEPT !.def = row[call[c].id], !.pc = "make"]
    <3>1. call[c].id \in Keys
      BY <1>1, <1>13 DEF InstanceFinds, At, Prepared
    <3>2. row[call[c].id] \in Rows
      BY <1>2, <2>2, <3>1
    <3>3. x \in Records /\ Prepared(x)
      BY <1>1, <3>1, <3>2 DEF Records, Prepared
    <3> QED
      BY <2>2, <3>3
  <2> QED
    BY <1>13, <2>1, <2>2 DEF InstanceFinds
<1>14. ASSUME InstanceMade(c) \/ AllMade(c) \/ FactoryFails(c) \/ AllRegisters(c)
       PROVE  \E x : Good(x)
  BY <1>7, <1>14 DEF InstanceMade, AllMade, FactoryFails, AllRegisters, At
<1>15. ASSUME InstanceRegisters(c) \/ InstanceStores(c) \/ InstanceUnregisters(c)
       PROVE  \E x : Good(x)
  BY <1>6, <1>7, <1>15 DEF InstanceRegisters, InstanceStores, InstanceUnregisters, At
<1>16. ASSUME StoresError(c)
       PROVE  \E x : Good(x)
  BY <1>6, <1>7, <1>16 DEF StoresError
<1>17. ASSUME AllFinds(c)
       PROVE  \E x : Good(x)
  <2> DEFINE found == {k \in Keys : row[k] # NoRow /\ row[k].state = "ACTIVE"}
             todo == {<<k, row[k]>> : k \in found}
             x == [Idle EXCEPT !.op = "all", !.pc = "next", !.todo = todo]
  <2>1. todo \in SUBSET (Keys \X Rows)
    BY <1>2
  <2>2. x \in Records /\ Prepared(x)
    <3> HIDE DEF todo
    <3> QED
      BY <2>1 DEF Idle, Records, Prepared
  <2> QED
    BY <1>5, <1>17, <2>2 DEF AllFinds
<1>18. ASSUME AllLooks(c)
       PROVE  \E x : Good(x)
  <2>1. PICK item \in call[c].todo :
           call' = [call EXCEPT ![c] =
                      [@ EXCEPT !.todo = call[c].todo \ {item}, !.id = item[1], !.def = item[2],
                                !.pc = IF GetActivePool(item[1]) THEN "next" ELSE "make"]]
    BY <1>18 DEF AllLooks
  <2> DEFINE x == [call[c] EXCEPT !.todo = call[c].todo \ {item}, !.id = item[1],
                      !.def = item[2], !.pc = IF GetActivePool(item[1]) THEN "next" ELSE "make"]
  <2>2. item[1] \in Keys /\ item[2] \in Rows
    BY <1>1 DEF Records
  <2>3. x \in Records /\ Prepared(x)
    BY <1>1, <1>18, <2>2 DEF Records, Prepared, AllLooks, At
  <2> QED
    BY <2>1, <2>3
<1>19. ASSUME AllEnds(c)
       PROVE  \E x : Good(x)
  BY <1>5, <1>19 DEF AllEnds
<1>20. \E x : Good(x)
  <2> HIDE DEF Good
  <2> QED
    BY <1>9, <1>10, <1>11, <1>12, <1>13, <1>14, <1>15, <1>16, <1>17, <1>18, <1>19 DEF Step
<1> QED
  BY <1>4, <1>20

\* Which steps touch the map, and the names noted since.
LEMMA MapWriters ==
    ASSUME TypeOK, NEW c \in Calls, Step(c)
    PROVE  \/ /\ InstanceRegisters(c) \/ AllRegisters(c)
              /\ call[c].def.name \in Keys /\ Registers(c, call[c].def.name)
           \/ InstanceUnregisters(c) /\ UnregisterActivePool(c) /\ UNCHANGED since
           \/ (\E id \in Keys : InstanceLooks(c, id)) /\ active' = active
                 /\ since' = [since EXCEPT ![c] = {}]
           \/ AllLooks(c) /\ active' = active /\ since' = [since EXCEPT ![c] = {}]
           \/ UNCHANGED <<active, since>>
<1>1. ASSUME InstanceRegisters(c) \/ AllRegisters(c)
      PROVE  call[c].def.name \in Keys /\ Registers(c, call[c].def.name)
  <2>1. call[c].def \in Rows
    BY <1>1 DEF TypeOK, Prepared, InstanceRegisters, AllRegisters, At
  <2> QED
    BY <1>1, <2>1 DEF InstanceRegisters, AllRegisters, RegisterActivePool, Rows
<1>2. InstanceRegisters(c) \/ AllRegisters(c) \/ InstanceUnregisters(c)
        \/ (\E id \in Keys : InstanceLooks(c, id)) \/ AllLooks(c) \/ UNCHANGED <<active, since>>
  BY DEF Step, CreateResourcePool, UpdateFinds, DeleteFinds, UpdateStores, DeleteRemoves,
         InstanceFinds, InstanceMade, InstanceStores, AllFinds, AllMade, AllEnds, FactoryFails,
         StoresError
<1> QED
  BY <1>1, <1>2 DEF InstanceUnregisters, InstanceLooks, AllLooks

\* Which steps touch the rows: all but one need a row to be there already.
LEMMA RowWriters ==
    ASSUME TypeOK, NEW c \in Calls, Step(c)
    PROVE  /\ row' \in [Keys -> Rows \cup {NoRow}]
           /\ \A k \in Keys : row[k] = NoRow /\ row'[k] # NoRow =>
                 Free(c) /\ (Ends(c, "created") \/ Ends(c, "unsure"))
<1>1. row \in [Keys -> Rows \cup {NoRow}] /\ Definitions \subseteq Rows /\ NoRow \notin Rows
  BY DefinitionsAssumption DEF TypeOK
<1>2. call[c] \in Records /\ Prepared(call[c])
  BY DEF TypeOK
<1> DEFINE Good == /\ row' \in [Keys -> Rows \cup {NoRow}]
                   /\ \A k \in Keys : row[k] = NoRow /\ row'[k] # NoRow =>
                         Free(c) /\ (Ends(c, "created") \/ Ends(c, "unsure"))
<1>3. UNCHANGED row => Good
  BY <1>1
<1>4. ASSUME NEW id \in Keys, NEW def \in Rows, Updates(id, def)
      PROVE  Good
  BY <1>1, <1>4 DEF Updates
<1>5. ASSUME NEW id \in Keys, NEW def \in Definitions, CreateResourcePool(c, id, def)
      PROVE  Good
  BY <1>1, <1>5 DEF CreateResourcePool
<1>6. ASSUME UpdateStores(c)
      PROVE  Good
  <2>1. call[c].id \in Keys /\ call[c].def \in Rows
    BY <1>2, <1>6 DEF UpdateStores, At, Prepared
  <2> QED
    BY <1>3, <1>4, <1>6, <2>1 DEF UpdateStores
<1>7. ASSUME DeleteRemoves(c)
      PROVE  Good
  BY <1>1, <1>7 DEF DeleteRemoves
<1>8. ASSUME NEW state \in States, call[c].pc \in {"store", "storeError"},
             Updates(call[c].id, [call[c].def EXCEPT !.state = state])
      PROVE  Good
  <2>1. call[c].id \in Keys /\ call[c].def \in Rows
    BY <1>2, <1>8 DEF Prepared
  <2>2. [call[c].def EXCEPT !.state = state] \in Rows
    BY <2>1 DEF Rows
  <2> QED
    BY <1>4, <1>8, <2>1, <2>2
<1>9. InstanceStores(c) \/ StoresError(c) => Good
  <2> HIDE DEF Good
  <2> QED
    BY <1>3, <1>8 DEF InstanceStores, StoresError, At, States
<1>10. \/ UNCHANGED row \/ UpdateStores(c) \/ DeleteRemoves(c) \/ InstanceStores(c) \/ StoresError(c)
       \/ \E id \in Keys, def \in Definitions : CreateResourcePool(c, id, def)
  BY DEF Step, UpdateFinds, DeleteFinds, InstanceLooks, InstanceFinds, InstanceMade,
         InstanceRegisters, InstanceUnregisters, AllFinds, AllLooks, AllMade, AllRegisters,
         AllEnds, FactoryFails
<1> QED
  <2> HIDE DEF Good
  <2>1. Good
    BY <1>3, <1>5, <1>6, <1>7, <1>9, <1>10
  <2> QED
    BY <2>1 DEF Good

\* Every step is one of a call.
LEMMA NextIsAStep == Next => \E c \in Calls : Step(c)
BY DEF Next, Step

\* Only the call that steps changes.
LEMMA OthersStay ==
    ASSUME TypeOK, NEW c \in Calls, Step(c)
    PROVE  \A d \in Calls \ {c} : call'[d] = call[d]
<1>1. call \in [Calls -> Records] /\ call' = [call EXCEPT ![c] = call'[c]]
  BY StepType DEF TypeOK
<1> QED
  BY <1>1

\* A step preserves the types.
LEMMA TypesAreInductive == TypeOK /\ [Next]_vars => TypeOK'
<1>1. ASSUME TypeOK, NEW c \in Calls, Step(c)
      PROVE  TypeOK'
  <2>1. call' \in [Calls -> Records] /\ \A d \in Calls : Prepared(call'[d])
    <3>1. call \in [Calls -> Records] /\ \A d \in Calls : Prepared(call[d])
      BY <1>1 DEF TypeOK
    <3>2. /\ call' = [call EXCEPT ![c] = call'[c]]
          /\ call'[c] \in Records /\ Prepared(call'[c])
      BY <1>1, StepType
    <3>3. \A d \in Calls \ {c} : call'[d] = call[d]
      BY <1>1, OthersStay
    <3> QED
      BY <3>1, <3>2, <3>3
  <2>2. active' \in [Keys -> Calls \cup {NoCall}] /\ since' \in [Calls -> SUBSET Keys]
    BY <1>1, MapWriters DEF TypeOK, Registers, UnregisterActivePool
  <2> QED
    BY <1>1, <2>1, <2>2, RowWriters DEF TypeOK
<1>2. TypeOK /\ UNCHANGED vars => TypeOK'
  BY DEF vars, TypeOK, Prepared
<1> QED
  BY <1>1, <1>2, NextIsAStep

\* The variables keep their types.
THEOREM TypeCorrect == Spec => []TypeOK
<1>1. Init => TypeOK
  BY DEF Init, TypeOK, Idle, Records, Prepared
<1> QED
  BY <1>1, TypesAreInductive, PTL DEF Spec

\* A definition that was deleted stays so unless a client creates it again.
THEOREM DeletedDefinitionsStayDeleted == Spec => DeletedStaysDeleted
<1> DEFINE Kept2 == \A k \in Keys : row[k] = NoRow /\ row'[k] # NoRow
                       => \E c \in Calls : Free(c) /\ call'[c].answer \in {"created", "unsure"}
<1>1. ASSUME TypeOK, NEW c \in Calls, Step(c)
      PROVE  Kept2
  <2>1. \A answer : Ends(c, answer) => call'[c].answer = answer
    BY <1>1 DEF Ends, TypeOK, Idle
  <2> QED
    BY <1>1, <2>1, RowWriters
<1>2. UNCHANGED vars => Kept2
  BY DEF vars
<1>3. TypeOK /\ [Next]_vars => Kept2
  <2> HIDE DEF Kept2
  <2> QED
    BY <1>1, <1>2, NextIsAStep
<1> QED
  BY <1>3, TypeCorrect, PTL DEF Spec, DeletedStaysDeleted

-----------------------------------------------------------------------------
(* Who is in the map *)

\* A call goes on, or answers; what it has read stays.
On(x, y, pc) ==
    y.op = x.op /\ y.id = x.id /\ y.def = x.def /\ y.answer = x.answer /\ y.pc = pc
Over(x, y, answer) ==
    y.op = x.op /\ y.id = x.id /\ y.def = x.def /\ y.answer = answer /\ y.pc = "done"

\* What the two operators that move a call do to its record.
LEMMA GoesOrAnswers ==
    ASSUME TypeOK, NEW c \in Calls
    PROVE  /\ \A pc : Goes(c, pc) => On(call[c], call'[c], pc)
           /\ \A answer : Answers(c, answer) => Over(call[c], call'[c], answer)
<1>1. call \in [Calls -> Records] /\ call[c] \in Records
  BY DEF TypeOK
<1>2. ASSUME NEW pc, Goes(c, pc)
      PROVE  On(call[c], call'[c], pc)
  <2>1. call'[c] = [call[c] EXCEPT !.pc = pc]
    BY <1>1, <1>2 DEF Goes
  <2> QED
    BY <1>1, <2>1 DEF Records, On
<1>3. ASSUME NEW answer, Answers(c, answer)
      PROVE  Over(call[c], call'[c], answer)
  <2>1. call'[c] = [call[c] EXCEPT !.pc = "done", !.answer = answer]
    BY <1>1, <1>3 DEF Answers
  <2> QED
    BY <1>1, <2>1 DEF Records, Over
<1> QED
  BY <1>2, <1>3

\* The record y a step leaves call c with, action by action, from the record x it had, as far as
\* the invariants look at it.
Moved(c, x, y) ==
    \/ x.op = "none" /\ y.op \in {"update", "delete", "all", "done"}
         /\ y.pc \notin {"find", "make", "register"} /\ y.answer \notin {"pool", "unstored"}
    \/ x.op = "none" /\ y.op = "instance" /\ y.answer \notin {"pool", "unstored"}
         /\ (\E id \in Keys : InstanceLooks(c, id)) /\ y.pc \in {"find", "done"}
         /\ (y.pc = "find" => y.id \in Keys /\ active[y.id] = NoCall /\ y.answer = "none")
    \/ x.op \in {"update", "delete", "all"} /\ y.op = "done"
         /\ y.answer \notin {"pool", "unstored"}
    \/ InstanceFinds(c) /\ y.op = "instance" /\ y.id = x.id /\ y.pc \in {"make", "done"}
         /\ y.answer \in {x.answer, "error"} /\ (y.pc = "make" => y.answer = x.answer)
    \/ InstanceMade(c) /\ On(x, y, "register")
    \/ InstanceRegisters(c) /\ (On(x, y, "store") \/ Over(x, y, "mismatch"))
    \/ InstanceStores(c) /\ (On(x, y, "unregister") \/ Over(x, y, "pool"))
    \/ InstanceUnregisters(c) /\ Over(x, y, "unstored")
    \/ AllLooks(c) /\ y.op = "all" /\ y.pc \in {"next", "make"} /\ y.answer = x.answer
         /\ (y.pc = "make" => y.id \in Keys /\ active[y.id] = NoCall)
    \/ AllMade(c) /\ (On(x, y, "next") \/ On(x, y, "register"))
    \/ AllRegisters(c) /\ On(x, y, "next")
    \/ FactoryFails(c) /\ On(x, y, "storeError")
    \/ StoresError(c) /\ (On(x, y, "next") \/ Over(x, y, "error"))

\* A step leaves such a record.
LEMMA CallMoves ==
    ASSUME TypeOK, NEW c \in Calls, Step(c)
    PROVE  Moved(c, call[c], call'[c])
<1> DEFINE x == call[c]
           y == call'[c]
<1>1. call \in [Calls -> Records] /\ x \in Records
  BY DEF TypeOK
<1>2. \A v : call' = [call EXCEPT ![c] = v] => y = v
  BY <1>1
<1>3. ASSUME NEW answer \in {"created", "unsure", "ok", "error"}, Ends(c, answer)
      PROVE  y.op = "done" /\ y.pc = "idle" /\ y.answer \notin {"pool", "unstored"}
  BY <1>2, <1>3 DEF Ends, Idle
<1>4. \A answer : Answers(c, answer) => y = [x EXCEPT !.pc = "done", !.answer = answer]
  BY <1>2 DEF Answers
<1>6. ASSUME NEW op, NEW id, NEW def, NEW pc, Begins(c, op, id, def, pc)
      PROVE  y.op = op /\ y.pc = pc /\ y.answer = "none"
  BY <1>2, <1>6 DEF Begins, Idle
<1>7. ASSUME NEW id \in Keys, InstanceLooks(c, id)
      PROVE  /\ x.op = "none" /\ y.op = "instance" /\ y.pc \in {"find", "done"}
             /\ y.answer \notin {"pool", "unstored"}
             /\ y.pc = "find" => y.id \in Keys /\ active[y.id] = NoCall /\ y.answer = "none"
  <2>1. y = [Idle EXCEPT !.op = "instance", !.id = id,
                         !.pc = IF GetActivePool(id) THEN "done" ELSE "find",
                         !.answer = IF GetActivePool(id) THEN "found" ELSE "none"]
    BY <1>2, <1>7 DEF InstanceLooks
  <2>2. /\ y.op = "instance" /\ y.id = id
        /\ y.pc = IF active[id] # NoCall THEN "done" ELSE "find"
        /\ y.answer = IF active[id] # NoCall THEN "found" ELSE "none"
    BY <2>1 DEF Idle, GetActivePool
  <2>3. x.op = "none"
    BY <1>7 DEF InstanceLooks, Free
  <2> HIDE DEF x, y
  <2> QED
    BY <2>2, <2>3
<1>8. ASSUME InstanceFinds(c)
      PROVE  y.op = "instance" /\ y.id = x.id /\ y.pc \in {"make", "done"}
               /\ y.answer \in {x.answer, "error"} /\ (y.pc = "make" => y.answer = x.answer)
  <2>1. \/ y = [x EXCEPT !.def = row[x.id], !.pc = "make"]
        \/ y = [x EXCEPT !.pc = "done", !.answer = "error"]
    BY <1>2, <1>4, <1>8 DEF InstanceFinds
  <2> QED
    BY <1>1, <1>8, <2>1 DEF InstanceFinds, At, Records
<1>9. ASSUME AllLooks(c)
      PROVE  /\ y.op = "all" /\ y.pc \in {"next", "make"} /\ y.answer = x.answer
             /\ y.pc = "make" => y.id \in Keys /\ active[y.id] = NoCall
  <2>1. PICK item \in x.todo :
           y = [x EXCEPT !.todo = x.todo \ {item}, !.id = item[1], !.def = item[2],
                         !.pc = IF GetActivePool(item[1]) THEN "next" ELSE "make"]
    BY <1>2, <1>9 DEF AllLooks
  <2>2. item[1] \in Keys
    BY <1>1 DEF Records
  <2> QED
    BY <1>1, <1>9, <2>1, <2>2 DEF AllLooks, At, Records, GetActivePool
<1>10. ASSUME AllFinds(c)
       PROVE  x.op = "none" /\ y.op \in {"all", "done"} /\ y.pc \in {"next", "idle"}
                /\ y.answer \notin {"pool", "unstored"}
  <2>1. ASSUME NEW todo, call' = [call EXCEPT ![c] = [Idle EXCEPT !.op = "all", !.pc = "next",
                                                           !.todo = todo]]
        PROVE  y.op = "all" /\ y.pc = "next" /\ y.answer = "none"
    BY <1>2, <2>1 DEF Idle
  <2> QED
    BY <1>3, <1>10, <2>1 DEF AllFinds, Free
<1>11. ASSUME NEW id \in Keys, NEW def \in Definitions,
              CreateResourcePool(c, id, def) \/ UpdateFinds(c, id, def) \/ DeleteFinds(c, id)
       PROVE  x.op = "none" /\ y.op \in {"update", "delete", "all", "done"}
                /\ y.pc \notin {"find", "make", "register"} /\ y.answer \notin {"pool", "unstored"}
  BY <1>3, <1>6, <1>11 DEF CreateResourcePool, UpdateFinds, DeleteFinds, Free
<1>12. ASSUME UpdateStores(c) \/ DeleteRemoves(c) \/ AllEnds(c)
       PROVE  x.op \in {"update", "delete", "all"} /\ y.op = "done"
                /\ y.answer \notin {"pool", "unstored"}
  BY <1>3, <1>12 DEF UpdateStores, DeleteRemoves, AllEnds, At
<1>13. ASSUME NEW id \in Keys, DeleteFinds(c, id)
       PROVE  x.op = "none" /\ y.op \in {"update", "delete", "all", "done"}
                /\ y.pc \notin {"find", "make", "register"} /\ y.answer \notin {"pool", "unstored"}
  BY <1>6, <1>13 DEF DeleteFinds, Free
<1>14. /\ \A pc : Goes(c, pc) => On(x, y, pc)
       /\ \A answer : Answers(c, answer) => Over(x, y, answer)
  BY GoesOrAnswers
<1>15. /\ InstanceMade(c) => On(x, y, "register")
       /\ InstanceRegisters(c) => On(x, y, "store") \/ Over(x, y, "mismatch")
       /\ InstanceStores(c) => On(x, y, "unregister") \/ Over(x, y, "pool")
       /\ InstanceUnregisters(c) => Over(x, y, "unstored")
       /\ AllMade(c) => On(x, y, "next") \/ On(x, y, "register")
       /\ AllRegisters(c) => On(x, y, "next")
       /\ FactoryFails(c) => On(x, y, "storeError")
       /\ StoresError(c) => On(x, y, "next") \/ Over(x, y, "error")
  BY <1>14 DEF InstanceMade, InstanceRegisters, InstanceStores, InstanceUnregisters, AllMade,
               AllRegisters, FactoryFails, StoresError
<1> HIDE DEF x, y
<1>16. ASSUME \E id \in Keys : InstanceLooks(c, id)
       PROVE  /\ x.op = "none" /\ y.op = "instance" /\ y.pc \in {"find", "done"}
              /\ y.answer \notin {"pool", "unstored"}
              /\ y.pc = "find" => y.id \in Keys /\ active[y.id] = NoCall /\ y.answer = "none"
  BY <1>7, <1>16
<1>17. ASSUME \/ \E id \in Keys, def \in Definitions :
                     CreateResourcePool(c, id, def) \/ UpdateFinds(c, id, def)
              \/ \E id \in Keys : DeleteFinds(c, id)
              \/ AllFinds(c)
       PROVE  \/ x.op = "none" /\ y.op \in {"update", "delete", "all", "done"}
                   /\ y.pc \notin {"find", "make", "register"} /\ y.answer \notin {"pool", "unstored"}
  BY <1>10, <1>11, <1>13, <1>17
<1> QED
  BY <1>8, <1>9, <1>12, <1>15, <1>16, <1>17 DEF Step, Moved, x, y

\* The calls in the map are as they should be, after a step as before it.
LEMMA OwnersStayFine ==
    TypeOK /\ OwnersAreFine /\ AllSettled /\ (\E c \in Calls : Step(c)) => OwnersAreFine'
<1> SUFFICES ASSUME TypeOK, OwnersAreFine, AllSettled, NEW c \in Calls, Step(c), NEW k \in Keys,
                    NEW o \in Calls, active'[k] = o
             PROVE  Owns(k, o)'
  BY DEF OwnersAreFine
<1>1. active \in [Keys -> Calls \cup {NoCall}] /\ call[c] \in Records
  BY DEF TypeOK
<1>3. CASE o = c /\ InstanceRegisters(c) /\ k = call[c].def.name
  <2>1. On(call[c], call'[c], "store") \/ Over(call[c], call'[c], "mismatch")
    BY <1>3, GoesOrAnswers DEF InstanceRegisters
  <2>2. call[c].op = "instance" /\ call[c].answer = "none"
    BY <1>3 DEF InstanceRegisters, At, AllSettled, Settled
  <2> QED
    BY <1>1, <1>3, <2>1, <2>2 DEF Owns, On, Over
<1>4. CASE o = c /\ AllRegisters(c) /\ k = call[c].def.name
  <2>1. call'[c] = [call[c] EXCEPT !.pc = "next"] /\ call[c].op = "all"
    BY <1>1, <1>4 DEF AllRegisters, At, Goes, TypeOK
  <2> QED
    BY <1>1, <1>4, <2>1 DEF Owns, Records
<1>5. \/ o = c /\ (InstanceRegisters(c) \/ AllRegisters(c)) /\ k = call[c].def.name
      \/ active[k] = o /\ ~(InstanceUnregisters(c) /\ k = call[c].def.name)
  <2>1. CASE InstanceRegisters(c) \/ AllRegisters(c)
    <3>1. Registers(c, call[c].def.name)
      BY <2>1 DEF InstanceRegisters, AllRegisters, RegisterActivePool
    <3>2. active' = [active EXCEPT ![call[c].def.name] = c]
      BY <3>1 DEF Registers
    <3>3. ~InstanceUnregisters(c)
      BY <2>1 DEF InstanceRegisters, AllRegisters, InstanceUnregisters, At
    <3> QED
      BY <1>1, <2>1, <3>2, <3>3
  <2>2. CASE InstanceUnregisters(c)
    <3>1. active' = [active EXCEPT ![call[c].def.name] = NoCall]
      BY <2>2 DEF InstanceUnregisters, UnregisterActivePool
    <3> QED
      BY <1>1, <3>1, KeysAssumption
  <2>3. CASE active' = active /\ ~InstanceUnregisters(c)
    BY <2>3
  <2> QED
    BY <2>1, <2>2, <2>3, MapWriters
<1>6. CASE active[k] = o /\ ~(InstanceUnregisters(c) /\ k = call[c].def.name)
  <2>1. Owns(k, o)
    BY <1>6 DEF OwnersAreFine
  <2>2. CASE o # c
    BY <2>1, <2>2, OthersStay DEF Owns
  <2>3. CASE o = c /\ call[c].op # "instance"
    <3>1. call'[c].op \in {"all", "done"}
      BY <1>1, <2>1, <2>3, CallMoves DEF Moved, On, Over, Owns, Records, InstanceFinds, InstanceMade,
             InstanceRegisters, InstanceStores, InstanceUnregisters, At
    <3> QED
      BY <2>3, <3>1 DEF Owns
  <2>4. CASE o = c /\ call[c].op = "instance"
    <3>1. InstanceStores(c)
      BY <1>6, <2>1, <2>4, CallMoves DEF Moved, On, Over, Owns, InstanceFinds, InstanceMade, InstanceRegisters,
             InstanceUnregisters, AllLooks, AllMade, AllRegisters, FactoryFails, StoresError, At
    <3>2. On(call[c], call'[c], "unregister") \/ Over(call[c], call'[c], "pool")
      BY <3>1, GoesOrAnswers DEF InstanceStores
    <3>3. /\ call'[c].op = "instance" /\ call'[c].def = call[c].def
          /\ \/ call'[c].pc = "unregister" /\ call'[c].answer = call[c].answer
             \/ call'[c].pc = "done" /\ call'[c].answer = "pool"
      BY <2>4, <3>2 DEF On, Over
    <3>4. k = call[c].def.name /\ call[c].answer = "none"
      BY <2>1, <2>4, <3>1 DEF Owns, AllSettled, Settled, InstanceStores, At
    <3> QED
      BY <2>4, <3>3, <3>4 DEF Owns
  <2> QED
    BY <2>2, <2>3, <2>4
<1> QED
  BY <1>3, <1>4, <1>5, <1>6

\* A call that is over takes no step.
LEMMA OverIsOver ==
    ASSUME TypeOK, NEW c \in Calls, At(c, "instance", "done")
    PROVE  ~Step(c)
BY DEF At, Step, CreateResourcePool, UpdateFinds, DeleteFinds, InstanceLooks, Free, UpdateStores,
       DeleteRemoves, InstanceFinds, InstanceMade, InstanceRegisters, InstanceStores,
       InstanceUnregisters, AllFinds, AllLooks, AllMade, AllRegisters, AllEnds, FactoryFails,
       StoresError

\* Only the two last steps of CreateResourcePoolInstance answer in these ways.
LEMMA SettledStay == TypeOK /\ AllSettled /\ (\E c \in Calls : Step(c)) => AllSettled'
<1> SUFFICES ASSUME TypeOK, AllSettled, NEW c \in Calls, Step(c), NEW d \in Calls
             PROVE  Settled(d)'
  BY DEF AllSettled
<1>1. CASE d # c
  <2>1. call'[d] = call[d] /\ Settled(d)
    BY <1>1, OthersStay DEF AllSettled
  <2> QED
    BY <2>1 DEF Settled, At
<1>2. CASE d = c
  <2>1. call[c].answer \notin {"pool", "unstored"}
    BY OverIsOver DEF AllSettled, Settled
  <2>2. call[c] \in Records /\ call'[c] \in Records
    BY StepType DEF TypeOK
  <2> DEFINE x == call[c]
             y == call'[c]
  <2>3. \/ y.answer \notin {"pool", "unstored"}
        \/ (InstanceStores(c) \/ InstanceUnregisters(c)) /\ y.op = x.op /\ y.pc = "done"
    BY <2>1, CallMoves DEF Moved, On, Over
  <2>4. InstanceStores(c) \/ InstanceUnregisters(c) => x.op = "instance"
    BY DEF InstanceStores, InstanceUnregisters, At
  <2>5. y.answer \in {"pool", "unstored"} => y.op = "instance" /\ y.pc = "done"
    BY <2>3, <2>4
  <2>6. ASSUME y.op = "instance", y.pc # "done"
        PROVE  y.answer = "none"
    <3>1. x.op = "instance" /\ x.pc # "done" => x.answer = "none"
      BY DEF AllSettled, Settled
    <3>4. Moved(c, x, y)
      BY CallMoves
    <3>5. x.pc # "done" \/ x.op = "none"
      BY DEF Step, CreateResourcePool, UpdateFinds, DeleteFinds, InstanceLooks, Free, UpdateStores,
             DeleteRemoves, InstanceFinds, InstanceMade, InstanceRegisters, InstanceStores,
             InstanceUnregisters, AllFinds, AllLooks, AllMade, AllRegisters, AllEnds,
             FactoryFails, StoresError, At
    <3>6. InstanceFinds(c) => x.op = "instance"
      BY DEF InstanceFinds, At
    <3> HIDE DEF x, y
    <3> QED
      BY <2>6, <3>1, <3>4, <3>5, <3>6 DEF Moved, On, Over
  <2> QED
    BY <1>2, <2>5, <2>6 DEF Settled, At
<1> QED
  BY <1>1, <1>2

\* A name that was taken out by a call that failed has been so for good.
LEMMA TakenOutStays ==
    ASSUME TypeOK, AllSettled, NEW c \in Calls, Step(c), NEW name, TakenOut(name)
    PROVE  TakenOut(name)'
<1>1. PICK d \in Calls : call[d].answer = "unstored" /\ call[d].def.name = name
  BY DEF TakenOut
<1>2. d # c
  BY <1>1, OverIsOver DEF AllSettled, Settled
<1>3. call'[d] = call[d]
  BY <1>2, OthersStay
<1> QED
  BY <1>1, <1>3 DEF TakenOut

\* The pool of a call that answered stays in the map, or is replaced, or is taken out with another.
LEMMA KeptStay == TypeOK /\ AllSettled /\ AllKept /\ (\E c \in Calls : Step(c)) => AllKept'
<1> SUFFICES ASSUME TypeOK, AllSettled, AllKept, NEW c \in Calls, Step(c), NEW d \in Calls,
                    NEW name, name = call'[d].def.name,
                    At(d, "instance", "store")' \/ call'[d].answer = "pool"
             PROVE  name \in Keys /\ (active'[name] # NoCall \/ TakenOut(name)')
  BY DEF AllKept, Kept, TakenOut
<1>1. active \in [Keys -> Calls \cup {NoCall}]
  BY DEF TypeOK
<1>2. ASSUME name \in Keys, active[name] # NoCall
      PROVE  active'[name] # NoCall \/ TakenOut(name)'
  <2>1. CASE InstanceUnregisters(c) /\ call[c].def.name = name
    <3>1. Over(call[c], call'[c], "unstored")
      BY <2>1, GoesOrAnswers DEF InstanceUnregisters
    <3> QED
      BY <2>1, <3>1 DEF TakenOut, Over
  <2>2. CASE InstanceUnregisters(c) /\ call[c].def.name # name
    BY <1>1, <1>2, <2>2 DEF InstanceUnregisters, UnregisterActivePool
  <2>3. CASE ~InstanceUnregisters(c)
    BY <1>1, <1>2, <2>3, MapWriters, KeysAssumption DEF Registers
  <2> QED
    BY <2>1, <2>2, <2>3
<1>3. CASE d # c
  <2>1. call'[d] = call[d]
    BY <1>3, OthersStay
  <2>2. name \in Keys /\ (active[name] # NoCall \/ TakenOut(name))
    BY <2>1 DEF AllKept, Kept, At
  <2> QED
    BY <1>2, <2>2, TakenOutStays
<1>4. CASE d = c
  <2>1. call[c].answer # "pool"
    BY OverIsOver DEF AllSettled, Settled
  <2>2. InstanceRegisters(c) \/ InstanceStores(c)
    BY <1>4, <2>1, CallMoves DEF Moved, On, Over, At, AllMade, AllRegisters, FactoryFails
  <2>3. call[c].def \in Rows /\ call'[c].def = call[c].def
    <3>1. call[c].pc \in {"register", "store"} /\ Prepared(call[c])
      BY <2>2 DEF InstanceRegisters, InstanceStores, At, TypeOK
    <3>2. call'[c].def = call[c].def
      BY <2>2, GoesOrAnswers DEF On, Over, InstanceRegisters, InstanceStores
    <3> QED
      BY <3>1, <3>2 DEF Prepared
  <2>4. CASE InstanceRegisters(c)
    BY <1>1, <1>4, <2>3, <2>4, KeysAssumption DEF InstanceRegisters, RegisterActivePool, Registers,
           Rows
  <2>5. CASE InstanceStores(c)
    <3>1. active[name] # NoCall \/ TakenOut(name)
      BY <1>4, <2>3, <2>5 DEF AllKept, Kept, InstanceStores
    <3> QED
      BY <1>2, <1>4, <2>3, <3>1, TakenOutStays DEF Rows
  <2> QED
    BY <2>2, <2>4, <2>5
<1> QED
  BY <1>3, <1>4

\* What is registered under the id of a call that found nothing is noted.
LEMMA WatchStays == TypeOK /\ AllWatch /\ (\E c \in Calls : Step(c)) => AllWatch'
<1> SUFFICES ASSUME TypeOK, AllWatch, NEW c \in Calls, Step(c), NEW d \in Calls, Making(d)',
                    NEW id, id = call'[d].id, active'[id] # NoCall
             PROVE  id \in since'[d]
  BY DEF AllWatch, Watches
<1>1. /\ active \in [Keys -> Calls \cup {NoCall}]
      /\ since \in [Calls -> SUBSET Keys]
  BY DEF TypeOK
<1>2. id \in Keys
  <2>1. TypeOK'
    BY TypesAreInductive DEF Next, Step
  <2>2. Prepared(call'[d])
    BY <2>1 DEF TypeOK
  <2>3. call'[d].pc \in {"find", "make", "register"}
    BY DEF Making
  <2> QED
    BY <2>2, <2>3 DEF Prepared
<1>3. CASE d # c
  <2>1. call'[d] = call[d] /\ Making(d)
    BY <1>3, OthersStay DEF Making
  <2>2. active[id] = NoCall \/ id \in since[d]
    BY <2>1 DEF AllWatch, Watches
  <2>3. id \in since[d] => id \in since'[d]
    BY <1>1, <1>3, MapWriters DEF Registers
  <2>4. CASE active[id] = NoCall
    <3>1. Registers(c, call[c].def.name) /\ call[c].def.name = id
      BY <1>1, <1>2, <2>4, MapWriters DEF Registers, UnregisterActivePool
    <3> QED
      BY <1>2, <1>3, <2>1, <3>1 DEF Registers
  <2> QED
    BY <2>2, <2>3, <2>4
<1>4. CASE d = c
  <2> DEFINE x == call[c]
             y == call'[c]
  <2>1. Moved(c, x, y) /\ y.op \in {"instance", "all"} /\ y.pc \in {"find", "make", "register"}
    BY <1>4, CallMoves DEF Making
  <2>2. \/ InstanceFinds(c) \/ InstanceMade(c) \/ AllMade(c)
        \/ y.id \in Keys /\ active[y.id] = NoCall
             /\ ((\E i \in Keys : InstanceLooks(c, i)) \/ AllLooks(c))
    <3> HIDE DEF x, y
    <3> QED
      BY <2>1 DEF Moved, On, Over
  <2>3. CASE InstanceFinds(c) \/ InstanceMade(c) \/ AllMade(c)
    <3>1. Making(c) /\ UNCHANGED <<active, since>> /\ y.id = x.id
      <4>1. Making(c) /\ UNCHANGED <<active, since>>
        BY <2>3 DEF InstanceFinds, InstanceMade, AllMade, Making, At
      <4>2. x.op # "none" /\ x.pc # "next"
        BY <2>3 DEF InstanceFinds, InstanceMade, AllMade, At
      <4>3. ~AllLooks(c)
        BY <4>2 DEF AllLooks, At
      <4> HIDE DEF x, y
      <4> QED
        BY <2>1, <4>1, <4>2, <4>3 DEF Moved, On, Over
    <3> QED
      BY <1>4, <3>1 DEF AllWatch, Watches
  <2>4. CASE y.id \in Keys /\ active[y.id] = NoCall
               /\ ((\E i \in Keys : InstanceLooks(c, i)) \/ AllLooks(c))
    BY <1>4, <2>4 DEF InstanceLooks, AllLooks
  <2> QED
    BY <2>2, <2>3, <2>4
<1> QED
  BY <1>3, <1>4

\* Together the four are inductive.
LEMMA PoolsInvIsInductive == Spec => [](TypeOK /\ PoolsInv)
<1>1. Init => PoolsInv
  BY KeysAssumption DEF Init, Idle, PoolsInv, OwnersAreFine, AllSettled, Settled, AllKept, Kept,
     At, AllWatch, Watches, Making
<1>2. TypeOK /\ PoolsInv /\ [Next]_vars => PoolsInv'
  <2>1. TypeOK /\ PoolsInv /\ Next => PoolsInv'
    BY NextIsAStep, OwnersStayFine, SettledStay, KeptStay, WatchStays DEF PoolsInv
  <2>2. TypeOK /\ PoolsInv /\ UNCHANGED vars => PoolsInv'
    BY DEF vars, PoolsInv, OwnersAreFine, Owns, AllSettled, Settled, At, AllKept, Kept, TakenOut,
           AllWatch, Watches, Making
  <2> QED
    BY <2>1, <2>2
<1>3. TypeOK /\ [Next]_vars => TypeOK'
  BY TypesAreInductive
<1> QED
  BY <1>1, <1>2, TypeCorrect, PTL DEF Spec

\* A call of CreateResourcePoolInstance that failed has left no pool of its own in the map.
THEOREM FailedCallsLeaveNoPool == Spec => []ErrorLeavesNoPool
<1>1. TypeOK /\ PoolsInv => ErrorLeavesNoPool
  <2> SUFFICES ASSUME TypeOK, PoolsInv, NEW k \in Keys, active[k] # NoCall,
                      call[active[k]].op = "instance",
                      call[active[k]].answer \in {"error", "unstored"}
               PROVE  FALSE
    BY DEF ErrorLeavesNoPool
  <2>1. active[k] \in Calls
    BY DEF TypeOK
  <2> QED
    BY <2>1 DEF PoolsInv, OwnersAreFine, Owns
<1> QED
  BY <1>1, PoolsInvIsInductive, PTL

\* A pool that was answered is in the map, or another in its place, or a call that could not write
\* its row took that one out.
THEOREM AnsweredPoolsStay == Spec => []AnsweredPoolIsActive
<1>1. PoolsInv => AnsweredPoolIsActive
  BY DEF PoolsInv, AllKept, Kept, TakenOut, AnsweredPoolIsActive
<1> QED
  BY <1>1, PoolsInvIsInductive, PTL

\* A pool is replaced only by a call that looked before it was registered, or looked elsewhere.
THEOREM PoolsAreReplacedByOverlap == Spec => ReplacedOnlyByOverlap
<1> DEFINE Overlap == \A k \in Keys : active[k] # NoCall /\ active'[k] \notin {NoCall, active[k]}
                        => call[active'[k]].id # k \/ k \in since[active'[k]]
<1>1. ASSUME TypeOK, PoolsInv, NEW c \in Calls, Step(c)
      PROVE  Overlap
  <2> SUFFICES ASSUME NEW k \in Keys, active[k] # NoCall, active'[k] \notin {NoCall, active[k]}
               PROVE  call[active'[k]].id # k \/ k \in since[active'[k]]
    OBVIOUS
  <2>1. /\ InstanceRegisters(c) \/ AllRegisters(c)
        /\ Registers(c, call[c].def.name) /\ k = call[c].def.name
    BY <1>1, MapWriters DEF TypeOK, Registers, UnregisterActivePool
  <2>2. active'[k] = c
    BY <1>1, <2>1 DEF TypeOK, Registers
  <2>3. Making(c)
    BY <2>1 DEF InstanceRegisters, AllRegisters, At, Making
  <2> QED
    BY <1>1, <2>2, <2>3 DEF PoolsInv, AllWatch, Watches
<1>2. UNCHANGED vars => Overlap
  BY DEF vars
<1>3. TypeOK /\ PoolsInv /\ [Next]_vars => Overlap
  <2> HIDE DEF Overlap
  <2> QED
    BY <1>1, <1>2, NextIsAStep
<1> QED
  BY <1>3, PoolsInvIsInductive, PTL DEF Spec, ReplacedOnlyByOverlap
=============================================================================
