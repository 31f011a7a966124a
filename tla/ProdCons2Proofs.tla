-------------------------- MODULE ProdCons2Proofs --------------------------
(***************************************************************************)
(* Theorems about ProdCons2, for any writers and readers, any integers,    *)
(* any capacity and any number of interrupted waits.                       *)
(***************************************************************************)
EXTENDS ProdCons2, SemaphoreProofs

USE ProdCons2Assumption

-----------------------------------------------------------------------------
(* Types, and what a call and its local val are at each place. *)

Local(p) ==
    /\ call[p] = "none" <=> pc[p] \in {"idle", "used"}
    /\ call[p] = "write" => val[p] \in Values
    /\ call[p] = "read" /\ pc[p] # "leave" => val[p] = NoValue
    /\ pc[p] = "idle" => val[p] = NoValue

Types == TypeOK /\ \A p \in Procs : Local(p)

LEMMA InitTypes == Init => Types
<1> SUFFICES ASSUME Init PROVE Types OBVIOUS
<1>1. << >> \in Seq(Procs) /\ << >> \in Seq(Values) /\ Len(<< >>) = 0 BY EmptySeq
<1>2. \A n \in Nat : SemInit(n) \in Semaphores(Procs)
  BY <1>1 DEF SemInit, Semaphores
<1> QED BY <1>1, <1>2 DEF Init, Types, TypeOK, Local, PCs

\* What a step of p does to pc, call and val of p, and of no one else.
LocalTypes ==
    /\ pc \in [Procs -> PCs]
    /\ call \in [Procs -> {"none", "write", "read"}]
    /\ val \in [Procs -> Values \cup {NoValue}]
    /\ \A p \in Procs : Local(p)

LEMMA NextLocalTypes ==
    ASSUME Types, NEW p \in Procs, Call(p) \/ Run(p) \/ Interrupt(p)
    PROVE  LocalTypes'
<1> USE DEF Types, TypeOK, LocalTypes, Local, PCs, Goto, Fail
<1>1. CASE Call(p) BY <1>1 DEF Call, CallWrite, CallRead, Enter, Reopen
<1>2. CASE WriteWait(p) BY <1>2 DEF WriteWait, InHandler, Owns
<1>3. CASE WritePut(p) BY <1>3 DEF WritePut, InHandler, Owns
<1>4. CASE ReadWait(p) BY <1>4 DEF ReadWait, InHandler, Owns
<1>5. CASE ReadTake(p)
  <2>1. Head(cbuf) \in Values BY <1>5, HeadTailProperties DEF ReadTake, IsEmpty
  <2> QED BY <1>5, <2>1 DEF ReadTake, InHandler, Owns
<1>6. CASE Sleep(p) BY <1>6 DEF Sleep
<1>7. CASE Woken(p) BY <1>7 DEF Woken
<1>8. CASE Undo(p) BY <1>8 DEF Undo
<1>9. CASE Leave(p) BY <1>9 DEF Leave
<1>10. CASE InterruptSleep(p) BY <1>10 DEF InterruptSleep, Asleep
<1>11. CASE InterruptLock(p) BY <1>11 DEF InterruptLock
<1> QED
  BY <1>1, <1>2, <1>3, <1>4, <1>5, <1>6, <1>7, <1>8, <1>9, <1>10, <1>11
  DEF Run, Interrupt

LEMMA NextBufferType ==
    ASSUME Types, NEW p \in Procs, Call(p) \/ Run(p) \/ Interrupt(p)
    PROVE  cbuf' \in Seq(Values) /\ Len(cbuf') <= Capacity /\ signals' \in 0 .. MaxSignals
<1> USE DEF Types, TypeOK, Goto, Fail
<1>0. Len(cbuf) \in Nat BY LenProperties
<1>1. CASE WritePut(p)
  <2>1. val[p] \in Values /\ Len(cbuf) # Capacity
    BY <1>1 DEF WritePut, InHandler, IsFull, Local
  <2>2. Append(cbuf, val[p]) \in Seq(Values) /\ Len(Append(cbuf, val[p])) = Len(cbuf) + 1
    BY <2>1, AppendProperties
  <2> QED BY <1>0, <1>1, <2>1, <2>2 DEF WritePut
<1>2. CASE ReadTake(p)
  <2>1. Tail(cbuf) \in Seq(Values) /\ Len(Tail(cbuf)) = Len(cbuf) - 1
    BY <1>2, HeadTailProperties DEF ReadTake, IsEmpty
  <2> QED BY <1>0, <1>2, <2>1 DEF ReadTake
<1>3. CASE Call(p) BY <1>3 DEF Call, CallWrite, CallRead, Enter, Reopen
<1>4. CASE Interrupt(p) BY <1>4 DEF Interrupt, InterruptSleep, InterruptLock
<1>5. CASE WriteWait(p) \/ ReadWait(p) \/ Sleep(p) \/ Woken(p) \/ Undo(p) \/ Leave(p)
  BY <1>5 DEF WriteWait, ReadWait, Sleep, Woken, Undo, Leave
<1> QED BY <1>1, <1>2, <1>3, <1>4, <1>5 DEF Run
-----------------------------------------------------------------------------
(* The mutex and the two queues: one unit, and two counters of waiters.    *)

MutexPlaces == {"lock", "relock", "undo"}
Marked      == {"presleep", "undo"}

\* The place of q in the loop of a handler.
PlaceIn(handler) == [q \in Procs |-> IF call[q] = handler THEN pc[q] ELSE "out"]

Accounts ==
    /\ Account(Procs, mtx, pc, MutexPlaces, {}, 1)
    /\ QueueAccount(Procs, prod_queue, PlaceIn("write"), Marked, {"sleep"}, nr_prod_waiting)
    /\ QueueAccount(Procs, cons_queue, PlaceIn("read"), Marked, {"sleep"}, nr_cons_waiting)

LEMMA InitAccounts == Init => Accounts
<1> SUFFICES ASSUME Init PROVE Accounts OBVIOUS
<1>1. \A q \in Procs : pc[q] = "idle" /\ \A h : PlaceIn(h)[q] \in {"idle", "out"}
  BY DEF Init, PlaceIn
<1>2. IsFiniteSet(Procs) BY DEF Procs
<1>3. Account(Procs, SemInit(1), pc, MutexPlaces, {}, 1)
  BY <1>1, <1>2, AccountInit DEF MutexPlaces
<1>4. \A h : QueueAccount(Procs, SemInit(0), PlaceIn(h), Marked, {"sleep"}, 0)
  BY <1>1, <1>2, QueueInit DEF Marked
<1> QED BY <1>3, <1>4 DEF Init, Accounts

MutexMoves(p) == Moves(mtx, 1, mtx', 1, p, pc[p], pc'[p], MutexPlaces, {})

WriteQueueMoves(p) ==
    QueueMoves(prod_queue, nr_prod_waiting, prod_queue', nr_prod_waiting', p,
               PlaceIn("write")[p], PlaceIn("write")'[p], Marked, {"sleep"})

ReadQueueMoves(p) ==
    QueueMoves(cons_queue, nr_cons_waiting, cons_queue', nr_cons_waiting', p,
               PlaceIn("read")[p], PlaceIn("read")'[p], Marked, {"sleep"})

\* A step of p moves p alone.
LEMMA Frame ==
    ASSUME Types, NEW p \in Procs, Call(p) \/ Run(p) \/ Interrupt(p)
    PROVE  /\ pc' \in [Procs -> PCs] /\ call' \in [Procs -> {"none", "write", "read"}]
           /\ \A q \in Procs : q # p => pc'[q] = pc[q] /\ call'[q] = call[q]
<1> USE DEF Types, TypeOK, Goto, Fail
<1>1. LocalTypes' BY NextLocalTypes
<1>2. CASE Call(p) BY <1>1, <1>2 DEF LocalTypes, Call, CallWrite, CallRead, Enter, Reopen
<1>3. CASE Run(p)
  BY <1>1, <1>3 DEF LocalTypes, Run, WriteWait, WritePut, ReadWait, ReadTake, Sleep,
                    Woken, Undo, Leave
<1>4. CASE Interrupt(p)
  BY <1>1, <1>4 DEF LocalTypes, Interrupt, InterruptSleep, InterruptLock
<1> QED BY <1>2, <1>3, <1>4

LEMMA StepMutex ==
    ASSUME Types, NEW p \in Procs, Call(p) \/ Run(p) \/ Interrupt(p)
    PROVE  MutexMoves(p)
<1> USE DEF Types, TypeOK, Goto, Fail, Owns, InHandler, Moves, MutexMoves, MutexPlaces
<1>1. CASE Call(p) BY <1>1 DEF Call, CallWrite, CallRead, Enter, Reopen
<1>2. CASE WriteWait(p) BY <1>2 DEF WriteWait
<1>3. CASE WritePut(p) BY <1>3 DEF WritePut
<1>4. CASE ReadWait(p) BY <1>4 DEF ReadWait
<1>5. CASE ReadTake(p) BY <1>5 DEF ReadTake
<1>6. CASE Sleep(p) BY <1>6 DEF Sleep
<1>7. CASE Woken(p) BY <1>7 DEF Woken
<1>8. CASE Undo(p) BY <1>8 DEF Undo
<1>9. CASE Leave(p) BY <1>9 DEF Leave
<1>10. CASE InterruptSleep(p) BY <1>10 DEF InterruptSleep, Asleep
<1>11. CASE InterruptLock(p) BY <1>11 DEF InterruptLock
<1> QED
  BY <1>1, <1>2, <1>3, <1>4, <1>5, <1>6, <1>7, <1>8, <1>9, <1>10, <1>11
  DEF Run, Interrupt

LEMMA StepQueues ==
    ASSUME Types, Accounts, NEW p \in Procs, Call(p) \/ Run(p) \/ Interrupt(p)
    PROVE  WriteQueueMoves(p) /\ ReadQueueMoves(p)
<1>1. /\ PlaceIn("write")[p] = IF call[p] = "write" THEN pc[p] ELSE "out"
      /\ PlaceIn("read")[p] = IF call[p] = "read" THEN pc[p] ELSE "out"
      /\ PlaceIn("write")'[p] = IF call'[p] = "write" THEN pc'[p] ELSE "out"
      /\ PlaceIn("read")'[p] = IF call'[p] = "read" THEN pc'[p] ELSE "out"
  BY DEF PlaceIn
<1>2. /\ Waiting(prod_queue, p) => pc[p] = "sleep" /\ call[p] = "write"
      /\ Waiting(cons_queue, p) => pc[p] = "sleep" /\ call[p] = "read"
  BY <1>1 DEF Accounts, QueueAccount
<1> DEFINE was(h) == IF call[p] = h THEN pc[p] ELSE "out"
           is(h) == IF call'[p] = h THEN pc'[p] ELSE "out"
<1> SUFFICES /\ QueueMoves(prod_queue, nr_prod_waiting, prod_queue', nr_prod_waiting', p,
                           was("write"), is("write"), Marked, {"sleep"})
             /\ QueueMoves(cons_queue, nr_cons_waiting, cons_queue', nr_cons_waiting', p,
                           was("read"), is("read"), Marked, {"sleep"})
  BY <1>1 DEF WriteQueueMoves, ReadQueueMoves
<1> USE <1>2 DEF Types, TypeOK, Local, PCs, Goto, Fail, Owns, InHandler, QueueMoves, Marked,
                 queues, waiting
<1>3. CASE Call(p) BY <1>3 DEF Call, CallWrite, CallRead, Enter, Reopen
<1>4. CASE WriteWait(p) BY <1>4 DEF WriteWait, Count
<1>5. CASE WritePut(p) BY <1>5 DEF WritePut, WakeConsumer
<1>6. CASE ReadWait(p) BY <1>6 DEF ReadWait, Count
<1>7. CASE ReadTake(p) BY <1>7 DEF ReadTake, WakeProducer
<1>8. CASE Sleep(p) BY <1>8 DEF Sleep
<1>9. CASE Woken(p) BY <1>9 DEF Woken, Asleep
<1>10. CASE Undo(p) BY <1>10 DEF Undo
<1>11. CASE Leave(p) BY <1>11 DEF Leave
<1>12. CASE InterruptSleep(p) BY <1>12 DEF InterruptSleep, Asleep
<1>13. CASE InterruptLock(p) BY <1>13 DEF InterruptLock
<1> QED
  BY <1>3, <1>4, <1>5, <1>6, <1>7, <1>8, <1>9, <1>10, <1>11, <1>12, <1>13
  DEF Run, Interrupt

LEMMA NextInv == Types /\ Accounts /\ [Next]_vars => Types' /\ Accounts'
<1> SUFFICES ASSUME Types, Accounts, [Next]_vars PROVE Types' /\ Accounts' OBVIOUS
<1>1. CASE UNCHANGED vars
  <2>1. Types' BY <1>1 DEF vars, queues, waiting, Types, TypeOK, Local
  <2>2. Accounts'
    BY <1>1 DEF vars, queues, waiting, Accounts, Account, QueueAccount, Units, Held,
                InQueue, PlaceIn, InOrder, NoTwice, Waiting
  <2> QED BY <2>1, <2>2
<1>2. CASE Next
  <2>1. PICK p \in Procs : Call(p) \/ Run(p) \/ Interrupt(p) BY <1>2 DEF Next
  <2>2. MutexMoves(p) /\ WriteQueueMoves(p) /\ ReadQueueMoves(p)
    BY <2>1, StepMutex, StepQueues
  <2>3. \A q \in Procs : q # p =>
          /\ pc'[q] = pc[q]
          /\ PlaceIn("write")'[q] = PlaceIn("write")[q]
          /\ PlaceIn("read")'[q] = PlaceIn("read")[q]
    BY <2>1, Frame DEF PlaceIn
  <2>4. Account(Procs, mtx', pc', MutexPlaces, {}, 1)
    <3>1. MutexPlaces \cap {} = {} OBVIOUS
    <3> QED BY <2>2, <2>3, <3>1, AccountStep DEF Accounts, MutexMoves
  <2>5. Marked \cap {"sleep"} = {} BY DEF Marked
  <2>6. QueueAccount(Procs, prod_queue', PlaceIn("write")', Marked, {"sleep"}, nr_prod_waiting')
    BY <2>2, <2>3, <2>5, QueueStep DEF Accounts, WriteQueueMoves
  <2>7. QueueAccount(Procs, cons_queue', PlaceIn("read")', Marked, {"sleep"}, nr_cons_waiting')
    BY <2>2, <2>3, <2>5, QueueStep DEF Accounts, ReadQueueMoves
  <2>8. Accounts'
    BY <2>4, <2>6, <2>7
    DEF Accounts, Account, QueueAccount, Units, Held, InQueue, InOrder, NoTwice, Waiting
  <2>9. Types'
    <3>1. /\ mtx' \in Semaphores(Procs)
          /\ prod_queue' \in Semaphores(Procs) /\ nr_prod_waiting' \in Int
          /\ cons_queue' \in Semaphores(Procs) /\ nr_cons_waiting' \in Int
      BY <2>4, <2>6, <2>7 DEF Account, Units, QueueAccount
    <3> QED BY <2>1, <3>1, NextLocalTypes, NextBufferType DEF Types, TypeOK, LocalTypes
  <2> QED BY <2>8, <2>9
<1> QED BY <1>1, <1>2

LEMMA InvConsistent == Types /\ Accounts => Consistent
<1> SUFFICES ASSUME Types, Accounts PROVE Consistent OBVIOUS
<1>1. MutexConserved
  <2>1. \A p \in Procs : Owns(p) <=> p \in Held(Procs, mtx, pc, MutexPlaces, {})
    BY DEF Owns, Held, MutexPlaces
  <2>2. Held(Procs, mtx, pc, MutexPlaces, {}) \subseteq Procs BY DEF Held
  <2> QED BY <2>1, <2>2, AccountOne DEF Accounts, MutexConserved
<1>2. InQueue(Procs, prod_queue, PlaceIn("write"), Marked, {"sleep"}) = Queued("write")
  BY DEF InQueue, PlaceIn, Marked, Queued, OnQueue, Asleep
<1>3. InQueue(Procs, cons_queue, PlaceIn("read"), Marked, {"sleep"}) = Queued("read")
  BY DEF InQueue, PlaceIn, Marked, Queued, OnQueue, Asleep
<1>4. WaitAccounting BY <1>2, <1>3 DEF Accounts, QueueAccount, WaitAccounting
<1> QED BY <1>1, <1>4 DEF Consistent, Types

\* The handlers keep the mutex whole and answer for every process that waits,
\* with any number of processes and of interrupted waits.
THEOREM AlwaysConsistent == Spec => []Consistent
<1>1. Init => Types /\ Accounts BY InitTypes, InitAccounts
<1>2. Types /\ Accounts /\ [Next]_vars => (Types /\ Accounts)' BY NextInv
<1>3. Types /\ Accounts => Consistent BY InvConsistent
<1> QED BY <1>1, <1>2, <1>3, PTL DEF Spec
-----------------------------------------------------------------------------
(* The handlers implement the FIFO buffer. *)

phase == [p \in Procs |-> Phase(p)]

LEMMA SameProcs == Buffer!Procs = Procs
BY DEF Buffer!Procs, Procs

LEMMA InitBuffer == Init => Buffer!Init
<1> SUFFICES ASSUME Init PROVE Buffer!Init OBVIOUS
<1>1. phase = [p \in Procs |-> "idle"] BY DEF Init, phase, Phase
<1> QED BY <1>1, SameProcs DEF Init, phase, Buffer!Init

LEMMA NextBuffer == Types /\ [Next]_vars => [Buffer!Next]_(Buffer!vars)
<1> SUFFICES ASSUME Types, [Next]_vars
             PROVE  Buffer!Next \/ UNCHANGED <<cbuf, phase, val>>
  BY DEF Buffer!vars, phase
<1>1. CASE UNCHANGED vars BY <1>1 DEF vars, phase, Phase
<1>2. CASE Next
  <2>1. PICK p \in Procs : Call(p) \/ Run(p) \/ Interrupt(p) BY <1>2 DEF Next
  <2>2. SUFFICES \/ Buffer!CallPut(p) \/ Buffer!CallGet(p) \/ Buffer!Put(p)
                 \/ Buffer!Get(p) \/ Buffer!Return(p) \/ Buffer!GiveUp(p)
                 \/ Buffer!Reopen(p) \/ UNCHANGED <<cbuf, phase, val>>
    BY SameProcs DEF Buffer!Next
  <2>3. /\ phase' = [phase EXCEPT ![p] = Phase(p)']
        /\ phase[p] = Phase(p)
    <3>1. \A q \in Procs : q # p => Phase(q)' = Phase(q) BY <2>1, Frame DEF Phase
    <3> QED BY <3>1 DEF phase
  <2>4. Phase(p)' = Phase(p) => UNCHANGED phase BY <2>3 DEF phase
  <2>5. /\ pc' \in [Procs -> PCs] /\ call' \in [Procs -> {"none", "write", "read"}]
        /\ pc \in [Procs -> PCs] /\ call \in [Procs -> {"none", "write", "read"}]
        /\ val \in [Procs -> Values \cup {NoValue}] /\ Local(p)
    BY <2>1, Frame DEF Types, TypeOK
  <2>6. CASE CallWrite(p)
    <3>1. Phase(p) = "idle" /\ Phase(p)' = "put"
      BY <2>5, <2>6 DEF CallWrite, Enter, Goto, Phase
    <3> QED BY <2>3, <2>6, <3>1
      DEF CallWrite, Enter, Buffer!CallPut, Buffer!Enter, phase
  <2>7. CASE CallRead(p)
    <3>1. Phase(p) = "idle" /\ Phase(p)' = "get"
      BY <2>5, <2>7 DEF CallRead, Enter, Goto, Phase
    <3> QED BY <2>3, <2>7, <3>1
      DEF CallRead, Enter, Buffer!CallGet, Buffer!Enter, phase
  <2>8. CASE Reopen(p)
    <3>1. Phase(p) = "used" /\ Phase(p)' = "idle"
      BY <2>5, <2>8 DEF Reopen, Fail, Goto, Phase
    <3> QED BY <2>3, <2>8, <3>1 DEF Reopen, Fail, Buffer!Reopen, phase
  <2>9. CASE WriteWait(p)
    <3>1. Phase(p) = "put" /\ Phase(p)' = "put"
      BY <2>5, <2>9 DEF WriteWait, InHandler, Owns, Goto, Phase
    <3> QED BY <2>4, <2>9, <3>1 DEF WriteWait
  <2>10. CASE WritePut(p)
    <3>1. Phase(p) = "put" /\ Phase(p)' = "stored"
      BY <2>5, <2>10 DEF WritePut, InHandler, Owns, Goto, Phase
    <3>2. Len(cbuf) < Capacity
      BY <2>10, LenProperties DEF WritePut, IsFull, Types, TypeOK
    <3> QED BY <2>3, <2>10, <3>1, <3>2 DEF WritePut, Buffer!Put, phase
  <2>11. CASE ReadWait(p)
    <3>1. Phase(p) = "get" /\ Phase(p)' = "get"
      BY <2>5, <2>11 DEF ReadWait, InHandler, Owns, Goto, Phase
    <3> QED BY <2>4, <2>11, <3>1 DEF ReadWait
  <2>12. CASE ReadTake(p)
    <3>1. Phase(p) = "get" /\ Phase(p)' = "taken"
      BY <2>5, <2>12 DEF ReadTake, InHandler, Owns, Goto, Phase
    <3> QED BY <2>3, <2>12, <3>1 DEF ReadTake, IsEmpty, Buffer!Get, phase
  <2>13. CASE Sleep(p)
    <3>1. Phase(p)' = Phase(p) BY <2>5, <2>13 DEF Sleep, Goto, Phase
    <3> QED BY <2>4, <2>13, <3>1 DEF Sleep
  <2>14. CASE Woken(p)
    <3>1. Phase(p)' = Phase(p) BY <2>5, <2>14 DEF Woken, Goto, Phase
    <3> QED BY <2>4, <2>14, <3>1 DEF Woken
  <2>15. CASE Undo(p)
    <3>1. Phase(p) \in {"put", "get"} /\ Phase(p)' = "idle"
      BY <2>5, <2>15 DEF Undo, Fail, Goto, Phase
    <3> QED BY <2>3, <2>15, <3>1 DEF Undo, Fail, Buffer!GiveUp, phase
  <2>16. CASE Leave(p)
    <3>1. CASE Goto(p, "used") /\ UNCHANGED val
      <4>1. Phase(p) \in {"stored", "taken"} /\ Phase(p)' = "used"
        BY <2>5, <2>16, <3>1 DEF Leave, Goto, Phase
      <4> QED BY <2>3, <2>16, <3>1, <4>1 DEF Leave, Buffer!Return, phase
    <3>2. CASE call[p] = "read" /\ Fail(p)
      <4>1. Phase(p) = "taken" /\ Phase(p)' = "idle"
        BY <2>5, <2>16, <3>2 DEF Leave, Fail, Goto, Phase
      <4> QED BY <2>3, <2>16, <3>2, <4>1 DEF Leave, Fail, Buffer!Return, phase
    <3> QED BY <2>16, <3>1, <3>2 DEF Leave
  <2>17. CASE InterruptSleep(p)
    <3>1. Phase(p)' = Phase(p)
      BY <2>5, <2>17 DEF InterruptSleep, Asleep, Goto, Phase
    <3> QED BY <2>4, <2>17, <3>1 DEF InterruptSleep
  <2>18. CASE InterruptLock(p)
    <3>1. Phase(p) \in {"put", "get"} /\ Phase(p)' = "idle"
      BY <2>5, <2>18 DEF InterruptLock, Fail, Goto, Phase
    <3> QED BY <2>3, <2>18, <3>1 DEF InterruptLock, Fail, Buffer!GiveUp, phase
  <2> QED
    BY <2>1, <2>6, <2>7, <2>8, <2>9, <2>10, <2>11, <2>12, <2>13, <2>14, <2>15,
       <2>16, <2>17, <2>18 DEF Call, Run, Interrupt
<1> QED BY <1>1, <1>2

\* Every behaviour of the handlers is one of the FIFO buffer's: a call puts or
\* gets one value at one instant, or nothing at all when a signal ends it.
THEOREM BufferIsImplemented == Spec => ImplementsBuffer
<1>1. Init => Types /\ Accounts BY InitTypes, InitAccounts
<1>2. Types /\ Accounts /\ [Next]_vars => (Types /\ Accounts)' BY NextInv
<1>3. Init => Buffer!Init BY InitBuffer
<1>4. Types /\ [Next]_vars => [Buffer!Next]_(Buffer!vars) BY NextBuffer
<1> QED BY <1>1, <1>2, <1>3, <1>4, PTL DEF Spec, ImplementsBuffer, Buffer!Spec
=============================================================================
