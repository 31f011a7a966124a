--------------------------- MODULE ProdConsProofs ---------------------------
(***************************************************************************)
(* Theorems about ProdCons, for any writers and readers, any integers, any *)
(* capacity and any number of interrupted waits.                           *)
(***************************************************************************)
EXTENDS ProdCons, SemaphoreProofs

USE ProdConsAssumption

-----------------------------------------------------------------------------
(* Units: the places and the values of the buffer.  The account needs the  *)
(* order of the two lists and where their waiters are.                     *)

UnitsInv ==
    /\ Units(Procs, huecos, GapHolders, Capacity - Len(cbuf))
    /\ Units(Procs, elementos, ElementHolders, Len(cbuf))
    /\ \A p \in Procs : Waiting(huecos, p) => pc[p] = "gap"
    /\ \A p \in Procs : Waiting(elementos, p) => pc[p] = "elem"

\* Types, except for the bound on the buffer, which the account gives, and with
\* the places where val holds an integer, and where it does not yet.
Types ==
    /\ elementos \in Semaphores(Procs)
    /\ huecos \in Semaphores(Procs)
    /\ mtx \in Semaphores(Procs)
    /\ cbuf \in Seq(Values)
    /\ pc \in [Procs -> PCs]
    /\ val \in [Procs -> Values \cup {NoValue}]
    /\ signals \in 0 .. MaxSignals
    /\ \A p \in Procs : pc[p] \in {"gap", "wlock"} => val[p] \in Values
    /\ \A p \in Procs : pc[p] \in {"idle", "elem", "rlock", "rundo"} => val[p] = NoValue

LEMMA InitInv == Init => Types /\ UnitsInv
<1> SUFFICES ASSUME Init PROVE Types /\ UnitsInv OBVIOUS
<1>1. << >> \in Seq(Procs) /\ << >> \in Seq(Values) /\ Len(<< >>) = 0 BY EmptySeq
<1>2. \A n \in Nat : /\ SemInit(n) \in Semaphores(Procs) /\ SemInit(n).count = n
                     /\ InOrder(SemInit(n)) /\ \A p : ~Waiting(SemInit(n), p)
  BY <1>1 DEF SemInit, Semaphores, InOrder, NoTwice, Waiting
<1>3. Types BY <1>1, <1>2 DEF Init, Types, PCs
<1>4. GapHolders = {} /\ ElementHolders = {}
  BY DEF Init, GapHolders, ElementHolders, Granted
<1>5. Cardinality({}) = 0 /\ IsFiniteSet(Procs) BY FS_EmptySet DEF Procs
<1>6. Units(Procs, huecos, {}, Capacity) /\ Units(Procs, elementos, {}, 0)
  BY <1>2, <1>5 DEF Init, Units
<1>7. cbuf = << >> /\ Len(cbuf) = 0 BY <1>1 DEF Init
<1>8. \A p : ~Waiting(huecos, p) /\ ~Waiting(elementos, p) BY <1>2 DEF Init
<1>9. Capacity - Len(cbuf) = Capacity BY <1>7
<1> QED BY <1>3, <1>4, <1>6, <1>7, <1>8, <1>9 DEF UnitsInv

LEMMA NextTypes == Types /\ [Next]_vars => Types'
<1> SUFFICES ASSUME Types, [Next]_vars PROVE Types' OBVIOUS
<1> USE DEF Types, PCs, Goto, Forget
<1>1. CASE UNCHANGED vars BY <1>1 DEF vars
<1>2. ASSUME NEW p \in Procs, Call(p) PROVE Types'
  <2>1. CASE CallWrite(p) BY <2>1, DownType DEF CallWrite
  <2>2. CASE CallRead(p) BY <2>2, DownType DEF CallRead
  <2>3. CASE Reopen(p) BY <2>3 DEF Reopen
  <2> QED BY <1>2, <2>1, <2>2, <2>3 DEF Call
<1>3. ASSUME NEW p \in Procs, Run(p) PROVE Types'
  <2>1. CASE WriteLock(p) BY <2>1, DownType DEF WriteLock, Granted
  <2>2. CASE WritePut(p)
    <3>1. Append(cbuf, val[p]) \in Seq(Values)
      BY <2>2, AppendProperties DEF WritePut, Granted
    <3> QED BY <2>2, <3>1, UpType DEF WritePut
  <2>3. CASE WritePost(p) BY <2>3, UpType DEF WritePost
  <2>4. CASE WriteUndo(p) BY <2>4, UpType DEF WriteUndo
  <2>5. CASE ReadLock(p) BY <2>5, DownType DEF ReadLock, Granted
  <2>6. CASE ReadTake(p)
    <3>1. cbuf # << >> => Head(cbuf) \in Values /\ Tail(cbuf) \in Seq(Values)
      BY HeadTailProperties
    <3> QED BY <2>6, <3>1, UpType DEF ReadTake
  <2>7. CASE ReadFree(p) BY <2>7, UpType DEF ReadFree
  <2>8. CASE ReadReturn(p) BY <2>8 DEF ReadReturn
  <2>9. CASE ReadUndo(p) BY <2>9, UpType DEF ReadUndo
  <2> QED
    BY <1>3, <2>1, <2>2, <2>3, <2>4, <2>5, <2>6, <2>7, <2>8, <2>9 DEF Run
<1>4. ASSUME NEW p \in Procs, Interrupt(p) PROVE Types'
  <2>1. CASE InterruptWait(p) BY <2>1, CancelType DEF InterruptWait
  <2>2. CASE InterruptLock(p) BY <2>2, CancelType DEF InterruptLock
  <2> QED BY <1>4, <2>1, <2>2 DEF Interrupt
<1> QED BY <1>1, <1>2, <1>3, <1>4 DEF Next

GapPlaces     == {"wlock", "wundo", "free"}
ElementPlaces == {"rlock", "rundo", "post"}

LEMMA UnitsInvAccounts ==
    UnitsInv <=> /\ Account(Procs, huecos, pc, {"gap"}, GapPlaces, Capacity - Len(cbuf))
                 /\ Account(Procs, elementos, pc, {"elem"}, ElementPlaces, Len(cbuf))
<1>1. GapHolders = Held(Procs, huecos, pc, {"gap"}, GapPlaces)
  BY DEF GapHolders, Granted, Held, GapPlaces
<1>2. ElementHolders = Held(Procs, elementos, pc, {"elem"}, ElementPlaces)
  BY DEF ElementHolders, Granted, Held, ElementPlaces
<1> QED BY <1>1, <1>2 DEF UnitsInv, Account

GapMoves(p) ==
    Moves(huecos, Capacity - Len(cbuf), huecos', Capacity - Len(cbuf'),
          p, pc[p], pc'[p], {"gap"}, GapPlaces)

ElementMoves(p) ==
    Moves(elementos, Len(cbuf), elementos', Len(cbuf'),
          p, pc[p], pc'[p], {"elem"}, ElementPlaces)

\* Whoever is about to use the kfifo finds in it what its semaphore promised.
LEMMA RoomAndValue ==
    ASSUME Types, UnitsInv, NEW p \in Procs
    PROVE  /\ Len(cbuf) \in 0 .. Capacity
           /\ pc[p] = "wlock" => Len(cbuf) < Capacity
           /\ pc[p] = "rlock" => cbuf # << >>
<1>1. Len(cbuf) \in Nat BY LenProperties DEF Types
<1>2. Capacity - Len(cbuf) >= 0 /\ (GapHolders # {} => Capacity - Len(cbuf) > 0)
  BY UnitsBound DEF UnitsInv
<1>3. ElementHolders # {} => Len(cbuf) > 0 BY UnitsBound DEF UnitsInv
<1>4. pc[p] = "wlock" => p \in GapHolders BY DEF GapHolders
<1>5. pc[p] = "rlock" => p \in ElementHolders BY DEF ElementHolders
<1>6. cbuf = << >> => Len(cbuf) = 0 BY EmptySeq
<1> QED BY <1>1, <1>2, <1>3, <1>4, <1>5, <1>6

\* Every step of a process moves units in one of the ways of Moves.
LEMMA StepMoves ==
    ASSUME Types, UnitsInv, NEW p \in Procs, Call(p) \/ Run(p) \/ Interrupt(p)
    PROVE  /\ GapMoves(p) /\ ElementMoves(p)
           /\ \A q \in Procs : q # p => pc'[q] = pc[q]
<1> USE DEF Types, Goto, Moves, GapMoves, ElementMoves, GapPlaces, ElementPlaces
<1>0. Len(cbuf) \in Nat BY LenProperties
<1>1. CASE CallWrite(p) BY <1>1, <1>0 DEF CallWrite
<1>2. CASE CallRead(p) BY <1>2, <1>0 DEF CallRead
<1>3. CASE Reopen(p) BY <1>3, <1>0 DEF Reopen
<1>4. CASE WriteLock(p) BY <1>4, <1>0 DEF WriteLock, Granted
<1>5. CASE WritePut(p)
  <2>1. pc[p] = "wlock" BY <1>5 DEF WritePut, Granted
  <2>2. cbuf' = Append(cbuf, val[p]) BY <1>5, <2>1, RoomAndValue DEF WritePut
  <2>3. Len(cbuf') = Len(cbuf) + 1 BY <2>1, <2>2, AppendProperties
  <2> QED BY <1>5, <1>0, <2>1, <2>3 DEF WritePut
<1>6. CASE WritePost(p) BY <1>6, <1>0 DEF WritePost
<1>7. CASE WriteUndo(p) BY <1>7, <1>0 DEF WriteUndo
<1>8. CASE ReadLock(p) BY <1>8, <1>0 DEF ReadLock, Granted
<1>9. CASE ReadTake(p)
  <2>1. pc[p] = "rlock" BY <1>9 DEF ReadTake, Granted
  <2>2. cbuf # << >> /\ cbuf' = Tail(cbuf) BY <1>9, <2>1, RoomAndValue DEF ReadTake
  <2>3. Len(cbuf') = Len(cbuf) - 1 BY <2>2, HeadTailProperties
  <2>4. /\ pc' = [pc EXCEPT ![p] = "free"]
        /\ elementos' = elementos /\ huecos' = huecos
    BY <1>9 DEF ReadTake
  <2>5. Capacity - Len(cbuf') = Capacity - Len(cbuf) + 1 BY <1>0, <2>3
  <2>6. pc'[p] = "free" /\ \A q \in Procs : q # p => pc'[q] = pc[q] BY <2>4
  <2>7. ElementMoves(p) BY <2>1, <2>3, <2>4, <2>6
  <2>8. GapMoves(p) BY <2>1, <2>4, <2>5, <2>6
  <2> QED BY <2>6, <2>7, <2>8
<1>10. CASE ReadFree(p) BY <1>10, <1>0 DEF ReadFree
<1>11. CASE ReadReturn(p) BY <1>11, <1>0 DEF ReadReturn
<1>12. CASE ReadUndo(p) BY <1>12, <1>0 DEF ReadUndo
<1>13. CASE InterruptWait(p) BY <1>13, <1>0 DEF InterruptWait
<1>14. CASE InterruptLock(p) BY <1>14, <1>0 DEF InterruptLock
<1> QED
  BY <1>1, <1>2, <1>3, <1>4, <1>5, <1>6, <1>7, <1>8, <1>9, <1>10, <1>11, <1>12,
     <1>13, <1>14 DEF Call, Run, Interrupt

LEMMA NextUnitsInv == Types /\ UnitsInv /\ [Next]_vars => UnitsInv'
<1> SUFFICES ASSUME Types, UnitsInv, [Next]_vars PROVE UnitsInv' OBVIOUS
<1>1. CASE UNCHANGED vars
  BY <1>1 DEF vars, UnitsInv, Units, GapHolders, ElementHolders, Granted, Waiting,
              InOrder, NoTwice
<1>2. CASE Next
  <2>1. PICK p \in Procs : Call(p) \/ Run(p) \/ Interrupt(p) BY <1>2 DEF Next
  <2>2. /\ GapMoves(p) /\ ElementMoves(p)
        /\ \A q \in Procs : q # p => pc'[q] = pc[q]
    BY <2>1, StepMoves
  <2>3. Account(Procs, huecos', pc', {"gap"}, GapPlaces, Capacity - Len(cbuf'))
    <3>1. {"gap"} \cap GapPlaces = {} BY DEF GapPlaces
    <3>2. Account(Procs, huecos, pc, {"gap"}, GapPlaces, Capacity - Len(cbuf))
      BY UnitsInvAccounts
    <3> QED BY <2>2, <3>1, <3>2, AccountStep DEF GapMoves
  <2>4. Account(Procs, elementos', pc', {"elem"}, ElementPlaces, Len(cbuf'))
    <3>1. {"elem"} \cap ElementPlaces = {} BY DEF ElementPlaces
    <3>2. Account(Procs, elementos, pc, {"elem"}, ElementPlaces, Len(cbuf))
      BY UnitsInvAccounts
    <3> QED BY <2>2, <3>1, <3>2, AccountStep DEF ElementMoves
  <2>5. Held(Procs, huecos', pc', {"gap"}, GapPlaces) = GapHolders'
    BY DEF GapHolders, Granted, Held, GapPlaces, Waiting
  <2>6. Held(Procs, elementos', pc', {"elem"}, ElementPlaces) = ElementHolders'
    BY DEF ElementHolders, Granted, Held, ElementPlaces, Waiting
  <2> QED
    BY <2>3, <2>4, <2>5, <2>6
    DEF Account, UnitsInv, Units, Waiting, InOrder, NoTwice
<1> QED BY <1>1, <1>2

(* The mutex: one unit, of which there is an owner or a count. *)

MutexPlaces == {"wlock", "rlock"}

MutexInv == Account(Procs, mtx, pc, MutexPlaces, {}, 1)

LEMMA InitMutexInv == Init => MutexInv
<1> SUFFICES ASSUME Init PROVE MutexInv OBVIOUS
<1>1. \A q \in Procs : pc[q] \notin MutexPlaces \cup {} BY DEF Init, MutexPlaces
<1> QED BY <1>1, AccountInit DEF Init, MutexInv, Procs

LEMMA MutexMoves ==
    ASSUME Types, NEW p \in Procs, Call(p) \/ Run(p) \/ Interrupt(p)
    PROVE  Moves(mtx, 1, mtx', 1, p, pc[p], pc'[p], MutexPlaces, {})
<1> USE DEF Types, Goto, Granted, Moves, MutexPlaces
<1>1. CASE Call(p) BY <1>1 DEF Call, CallWrite, CallRead, Reopen
<1>2. CASE WriteLock(p) BY <1>2 DEF WriteLock
<1>3. CASE WritePut(p) BY <1>3 DEF WritePut
<1>4. CASE WritePost(p) BY <1>4 DEF WritePost
<1>5. CASE WriteUndo(p) BY <1>5 DEF WriteUndo
<1>6. CASE ReadLock(p) BY <1>6 DEF ReadLock
<1>7. CASE ReadTake(p) BY <1>7 DEF ReadTake
<1>8. CASE ReadFree(p) BY <1>8 DEF ReadFree
<1>9. CASE ReadReturn(p) BY <1>9 DEF ReadReturn
<1>10. CASE ReadUndo(p) BY <1>10 DEF ReadUndo
<1>11. CASE InterruptWait(p) BY <1>11 DEF InterruptWait
<1>12. CASE InterruptLock(p) BY <1>12 DEF InterruptLock
<1> QED
  BY <1>1, <1>2, <1>3, <1>4, <1>5, <1>6, <1>7, <1>8, <1>9, <1>10, <1>11, <1>12
  DEF Run, Interrupt

LEMMA NextMutexInv == Types /\ UnitsInv /\ MutexInv /\ [Next]_vars => MutexInv'
<1> SUFFICES ASSUME Types, UnitsInv, MutexInv, [Next]_vars PROVE MutexInv' OBVIOUS
<1> SUFFICES Account(Procs, mtx', pc', MutexPlaces, {}, 1)
  BY DEF MutexInv, Account, Units, Held, Waiting, InOrder, NoTwice
<1>1. CASE UNCHANGED vars BY <1>1 DEF vars, MutexInv
<1>2. CASE Next
  <2>1. PICK p \in Procs : Call(p) \/ Run(p) \/ Interrupt(p) BY <1>2 DEF Next
  <2>2. Moves(mtx, 1, mtx', 1, p, pc[p], pc'[p], MutexPlaces, {})
    BY <2>1, MutexMoves
  <2>3. \A q \in Procs : q # p => pc'[q] = pc[q] BY <2>1, StepMoves
  <2>4. MutexPlaces \cap {} = {} OBVIOUS
  <2> QED BY <2>2, <2>3, <2>4, AccountStep DEF MutexInv
<1> QED BY <1>1, <1>2

LEMMA MutexInvConserves == MutexInv => MutexConserved
<1> SUFFICES ASSUME MutexInv PROVE MutexConserved OBVIOUS
<1>1. \A p \in Procs : Owns(p) <=> p \in Held(Procs, mtx, pc, MutexPlaces, {})
  BY DEF Owns, Granted, Held, MutexPlaces
<1>2. Held(Procs, mtx, pc, MutexPlaces, {}) \subseteq Procs BY DEF Held
<1> QED BY <1>1, <1>2, AccountOne DEF MutexInv, MutexConserved

\* The kfifo is used by one process at a time and its mutex is never lost, with
\* any number of processes and of interrupted waits.
THEOREM MutexIsConserved == Spec => []MutexConserved
<1> DEFINE IInv == Types /\ UnitsInv /\ MutexInv
<1>1. Init => IInv BY InitInv, InitMutexInv
<1>2. IInv /\ [Next]_vars => IInv' BY NextTypes, NextUnitsInv, NextMutexInv
<1>3. IInv => MutexConserved BY MutexInvConserves
<1> QED BY <1>1, <1>2, <1>3, PTL DEF Spec
-----------------------------------------------------------------------------
LEMMA UnitsInvAccount ==
    Types /\ UnitsInv => TypeOK /\ GapsAccounted /\ ElementsAccounted
<1> SUFFICES ASSUME Types, UnitsInv
             PROVE  TypeOK /\ GapsAccounted /\ ElementsAccounted
  OBVIOUS
<1>1. Len(cbuf) \in Nat /\ huecos.count \in Nat
  BY LenProperties DEF Types, Semaphores
<1>2. IsFiniteSet(GapHolders) BY FS_Subset DEF GapHolders, Procs
<1>3. Cardinality(GapHolders) \in Nat BY <1>2, FS_CardinalityType
<1>4. Capacity - Len(cbuf) >= 0 BY UnitsBound DEF UnitsInv
<1> QED
  BY <1>1, <1>3, <1>4
  DEF Types, TypeOK, UnitsInv, Units, GapsAccounted, ElementsAccounted

\* Every variable keeps its type, and the buffer never holds more than Capacity.
THEOREM TypeCorrect == Spec => []TypeOK
<1>1. Types /\ UnitsInv /\ [Next]_vars => (Types /\ UnitsInv)'
  BY NextTypes, NextUnitsInv
<1> QED BY <1>1, InitInv, UnitsInvAccount, PTL DEF Spec

\* Every place of the buffer is a gap in huecos, a gap somebody holds or a value,
\* and every value is counted in elementos, promised or not announced yet: with
\* any writers and readers, and however many waits are interrupted.
THEOREM UnitsAreAccounted == Spec => []UnitsAccounted
<1>1. Types /\ UnitsInv /\ [Next]_vars => (Types /\ UnitsInv)'
  BY NextTypes, NextUnitsInv
<1>2. Types /\ UnitsInv => UnitsAccounted
  BY UnitsInvAccount DEF UnitsAccounted
<1> QED BY <1>1, <1>2, InitInv, PTL DEF Spec
-----------------------------------------------------------------------------
(* The handlers implement the FIFO buffer. *)

phase == [p \in Procs |-> Phase(pc[p])]

LEMMA SameProcs == Buffer!Procs = Procs
BY DEF Buffer!Procs, Procs

\* A step of p moves its phase and no other.
LEMMA PhaseStep ==
    ASSUME Types, NEW p \in Procs, NEW place \in PCs, Goto(p, place)
    PROVE  /\ phase' = [phase EXCEPT ![p] = Phase(place)]
           /\ phase[p] = Phase(pc[p])
BY DEF Types, Goto, phase

LEMMA InitBuffer == Init => Buffer!Init
<1> SUFFICES ASSUME Init PROVE Buffer!Init OBVIOUS
<1>1. Phase("idle") = "idle" BY DEF Phase
<1>2. phase = [p \in Procs |-> "idle"] BY <1>1 DEF Init, phase
<1> QED BY <1>2, SameProcs DEF Init, phase, Buffer!Init

LEMMA NextBuffer == Types /\ UnitsInv /\ [Next]_vars => [Buffer!Next]_(Buffer!vars)
<1> SUFFICES ASSUME Types, UnitsInv, [Next]_vars
             PROVE  Buffer!Next \/ UNCHANGED <<cbuf, phase, val>>
  BY DEF Buffer!vars, phase
<1>1. CASE UNCHANGED vars BY <1>1 DEF vars, phase
<1>2. CASE Next
  <2>1. PICK p \in Procs : Call(p) \/ Run(p) \/ Interrupt(p) BY <1>2 DEF Next
  <2>2. SUFFICES \/ Buffer!CallPut(p) \/ Buffer!CallGet(p) \/ Buffer!Put(p)
                 \/ Buffer!Get(p) \/ Buffer!Return(p) \/ Buffer!GiveUp(p)
                 \/ Buffer!Reopen(p) \/ UNCHANGED <<cbuf, phase, val>>
    BY SameProcs DEF Buffer!Next
  <2>3. /\ Phase("idle") = "idle" /\ Phase("used") = "used"
        /\ Phase("gap") = "put" /\ Phase("wlock") = "put" /\ Phase("wundo") = "put"
        /\ Phase("elem") = "get" /\ Phase("rlock") = "get" /\ Phase("rundo") = "get"
        /\ Phase("post") = "stored"
        /\ Phase("free") = "taken" /\ Phase("copy") = "taken"
    BY DEF Phase
  <2>4. \A place \in PCs : Goto(p, place) =>
          /\ phase' = [phase EXCEPT ![p] = Phase(place)]
          /\ phase[p] = Phase(pc[p])
    BY PhaseStep
  <2>5. \A place \in PCs : Goto(p, place) /\ Phase(place) = Phase(pc[p]) =>
          UNCHANGED phase
    BY <2>4 DEF phase
  <2> USE DEF PCs
  <2>6. CASE CallWrite(p)
    BY <2>3, <2>4, <2>6 DEF CallWrite, Buffer!CallPut, Buffer!Enter, phase
  <2>7. CASE CallRead(p)
    BY <2>3, <2>4, <2>7 DEF CallRead, Buffer!CallGet, Buffer!Enter, phase, Types
  <2>8. CASE Reopen(p)
    BY <2>3, <2>4, <2>8 DEF Reopen, Forget, Buffer!Reopen, phase
  <2>9. CASE WriteLock(p) BY <2>3, <2>5, <2>9 DEF WriteLock, Granted
  <2>10. CASE WritePut(p)
    <3>1. pc[p] = "wlock" BY <2>10 DEF WritePut, Granted
    <3>2. Len(cbuf) < Capacity BY <3>1, RoomAndValue
    <3> QED
      BY <2>3, <2>4, <2>10, <3>1, <3>2 DEF WritePut, Buffer!Put, phase
  <2>11. CASE WritePost(p)
    BY <2>3, <2>4, <2>11 DEF WritePost, Buffer!Return, phase
  <2>12. CASE WriteUndo(p)
    BY <2>3, <2>4, <2>12 DEF WriteUndo, Forget, Buffer!GiveUp, phase
  <2>13. CASE ReadLock(p) BY <2>3, <2>5, <2>13 DEF ReadLock, Granted
  <2>14. CASE ReadTake(p)
    <3>1. pc[p] = "rlock" BY <2>14 DEF ReadTake, Granted
    <3>2. cbuf # << >> BY <3>1, RoomAndValue
    <3> QED
      BY <2>3, <2>4, <2>14, <3>1, <3>2 DEF ReadTake, Buffer!Get, phase
  <2>15. CASE ReadFree(p) BY <2>3, <2>5, <2>15 DEF ReadFree
  <2>16. CASE ReadReturn(p)
    BY <2>3, <2>4, <2>16 DEF ReadReturn, Forget, Buffer!Return, phase
  <2>17. CASE ReadUndo(p)
    BY <2>3, <2>4, <2>17 DEF ReadUndo, Buffer!GiveUp, phase, Types
  <2>18. CASE InterruptWait(p)
    BY <2>3, <2>4, <2>18 DEF InterruptWait, Forget, Buffer!GiveUp, phase
  <2>19. CASE InterruptLock(p)
    BY <2>3, <2>5, <2>19 DEF InterruptLock
  <2> QED
    BY <2>1, <2>6, <2>7, <2>8, <2>9, <2>10, <2>11, <2>12, <2>13, <2>14, <2>15,
       <2>16, <2>17, <2>18, <2>19 DEF Call, Run, Interrupt
<1> QED BY <1>1, <1>2

\* Every behaviour of the handlers is one of the FIFO buffer's: a call puts or
\* gets one value at one instant, or nothing at all when a signal ends it.
THEOREM BufferIsImplemented == Spec => ImplementsBuffer
<1>1. Types /\ UnitsInv /\ [Next]_vars => (Types /\ UnitsInv)'
  BY NextTypes, NextUnitsInv
<1>2. Init => Types /\ UnitsInv BY InitInv
<1>3. Init => Buffer!Init BY InitBuffer
<1>4. Types /\ UnitsInv /\ [Next]_vars => [Buffer!Next]_(Buffer!vars) BY NextBuffer
<1> QED BY <1>1, <1>2, <1>3, <1>4, PTL DEF Spec, ImplementsBuffer, Buffer!Spec
=============================================================================
