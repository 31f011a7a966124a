--------------------------- MODULE FifoPipeProofs ---------------------------
(***************************************************************************)
(* Theorems about FifoPipe, for any number of readers and writers, any     *)
(* capacity, any lengths and any number of interrupted waits.              *)
(***************************************************************************)
EXTENDS FifoPipeRefinement, SemaphoreProofs, FiniteSetTheorems, WellFoundedInduction

USE PipeAssumption

-----------------------------------------------------------------------------
(* Types. *)

LEMMA MessageType ==
    ASSUME NEW p \in Writers, NEW n \in 0 .. Capacity
    PROVE  Message(p, n) \in Seq(Bytes) /\ Len(Message(p, n)) = n
<1>1. \A i \in 1 .. n : UserBuffer(p)[i] \in Bytes BY DEF UserBuffer, Bytes
<1> QED BY <1>1, SubSeqProperties DEF Message

LEMMA InitTypeOK == Init => TypeOK
<1> SUFFICES ASSUME Init PROVE TypeOK OBVIOUS
<1>1. << >> \in Seq(Procs) /\ << >> \in Seq(Bytes) /\ Len(<< >>) = 0 BY EmptySeq
<1>2. \A n \in Nat : SemInit(n) \in Semaphores(Procs)
  BY <1>1 DEF SemInit, Semaphores
<1> QED BY <1>1, <1>2 DEF Init, TypeOK, PCs, Calls

\* The pieces of the actions, typed once for all of them.
LEMMA EnterType ==
    ASSUME TypeOK, NEW p \in Procs, NEW h \in Calls, NEW n \in 0 .. Capacity,
           NEW d \in Seq(Bytes), Enter(p, h, n, d),
           h = "write" => p \in Writers /\ d = Message(p, n)
    PROVE  TypeOK'
<1>1. mtx' \in Semaphores(Procs) BY DownType DEF Enter, TypeOK
<1> QED BY <1>1 DEF Enter, TypeOK, PCs, shared, queues, counters, waiting

LEMMA WakeTypes ==
    ASSUME TypeOK
    PROVE  /\ WakeProducer => sem_prod' \in Semaphores(Procs) /\ nr_prod_waiting' \in Int
           /\ WakeConsumer => sem_cons' \in Semaphores(Procs) /\ nr_cons_waiting' \in Int
           /\ Unlock => mtx' \in Semaphores(Procs)
BY UpType DEF TypeOK, WakeProducer, WakeConsumer, Unlock

LocalTypes ==
    /\ pc \in [Procs -> PCs]
    /\ call \in [Procs -> Calls]
    /\ len \in [Procs -> 0 .. Capacity]
    /\ kbuffer \in [Procs -> Seq(Bytes)]
    /\ ret \in [Procs -> Int]
    /\ \A p \in Procs : call[p] = "write" => p \in Writers /\ kbuffer[p] = Message(p, len[p])

LEMMA ReturnType ==
    ASSUME TypeOK, NEW p \in Procs, NEW st \in PCs, NEW r \in Int, Return(p, st, r)
    PROVE  LocalTypes'
<1>1. << >> \in Seq(Bytes) BY EmptySeq
<1> QED BY <1>1 DEF Return, TypeOK, LocalTypes, Calls

LEMMA BlockType ==
    ASSUME TypeOK, NEW p \in Procs, Block(p)
    PROVE  LocalTypes' /\ mtx' \in Semaphores(Procs) /\ signals' \in 0 .. MaxSignals
BY UpType DEF Block, Unlock, TypeOK, LocalTypes, PCs, locals

LEMMA UnlockReturnType ==
    ASSUME TypeOK, NEW p \in Procs, NEW st \in PCs, NEW r \in Int,
           UnlockReturn(p, st, r)
    PROVE  LocalTypes' /\ mtx' \in Semaphores(Procs) /\ signals' \in 0 .. MaxSignals
BY ReturnType, WakeTypes DEF UnlockReturn, TypeOK

\* A handler waits on one queue at most.
LEMMA OneQueue == \A p : ~(WaitsAsConsumer(p) /\ WaitsAsProducer(p))
BY DEF WaitsAsConsumer, WaitsAsProducer

\* Every step keeps every variable in its type.
LEMMA NextTypeOK == TypeOK /\ [Next]_vars => TypeOK'
<1> SUFFICES ASSUME TypeOK, [Next]_vars PROVE TypeOK' OBVIOUS
<1> USE DEF LocalTypes
<1>1. CASE UNCHANGED vars
  BY <1>1 DEF TypeOK, vars, shared, queues, counters, waiting, locals
<1>2. ASSUME NEW p \in Procs, Call(p) PROVE TypeOK'
  <2>1. << >> \in Seq(Bytes) BY EmptySeq
  <2> DEFINE empty == << >>
  <2>2. {"open", "release", "read", "write"} \subseteq Calls /\ 0 \in 0 .. Capacity
    BY DEF Calls
  <2>3. CASE CallOpen(p)
    <3>1. Enter(p, "open", 0, empty) BY <2>3 DEF CallOpen
    <3> HIDE DEF empty
    <3> QED BY <2>1, <2>2, <3>1, EnterType DEF empty
  <2>4. CASE CallRelease(p)
    <3>1. Enter(p, "release", 0, empty) BY <2>4 DEF CallRelease
    <3> HIDE DEF empty
    <3> QED BY <2>1, <2>2, <3>1, EnterType DEF empty
  <2>5. CASE CallRead(p)
    <3>1. PICK n \in 0 .. Capacity : Enter(p, "read", n, empty) BY <2>5 DEF CallRead
    <3> HIDE DEF empty
    <3> QED BY <2>1, <2>2, <3>1, EnterType DEF empty
  <2>6. CASE CallWrite(p)
    <3>1. PICK n \in 0 .. Capacity : Enter(p, "write", n, Message(p, n))
      BY <2>6 DEF CallWrite
    <3>2. p \in Writers BY <2>6 DEF CallWrite
    <3> QED BY <2>2, <3>1, <3>2, EnterType, MessageType
  <2> QED BY <1>2, <2>3, <2>4, <2>5, <2>6 DEF Call
<1>3. ASSUME NEW p \in Procs, Run(p) PROVE TypeOK'
  <2>1. CASE OpenConsumer(p)
    <3>1. LocalTypes' /\ mtx' \in Semaphores(Procs) /\ signals' \in 0 .. MaxSignals
      BY <2>1, BlockType, UnlockReturnType DEF OpenConsumer, BlockConsumer, PCs
    <3>2. /\ cons_count' \in Int /\ nr_cons_waiting' \in Int
          /\ sem_prod' \in Semaphores(Procs) /\ nr_prod_waiting' \in Int
      BY <2>1, WakeTypes DEF OpenConsumer, BlockConsumer, TypeOK
    <3> QED BY <2>1, <3>1, <3>2 DEF OpenConsumer, TypeOK
  <2>2. CASE OpenProducer(p)
    <3>1. LocalTypes' /\ mtx' \in Semaphores(Procs) /\ signals' \in 0 .. MaxSignals
      BY <2>2, BlockType, UnlockReturnType DEF OpenProducer, BlockProducer, PCs
    <3>2. /\ prod_count' \in Int /\ nr_prod_waiting' \in Int
          /\ sem_cons' \in Semaphores(Procs) /\ nr_cons_waiting' \in Int
      BY <2>2, WakeTypes, SMTT(30) DEF OpenProducer, BlockProducer, TypeOK
    <3> QED BY <2>2, <3>1, <3>2 DEF OpenProducer, TypeOK
  <2>3. CASE Release(p)
    <3>1. LocalTypes' /\ mtx' \in Semaphores(Procs) /\ signals' \in 0 .. MaxSignals
      BY <2>3, UnlockReturnType DEF Release, PCs
    <3>2. /\ cons_count' \in Int /\ prod_count' \in Int
          /\ sem_prod' \in Semaphores(Procs) /\ nr_prod_waiting' \in Int
          /\ sem_cons' \in Semaphores(Procs) /\ nr_cons_waiting' \in Int
      BY <2>3, WakeTypes, SMTT(30) DEF Release, TypeOK
    <3>3. cbuffer' \in Seq(Bytes) /\ Len(cbuffer') <= Capacity
      BY <2>3, EmptySeq DEF Release, LastClose, TypeOK
    <3> QED BY <3>1, <3>2, <3>3 DEF TypeOK
  <2>4. CASE ReadWait(p)
    BY <2>4, BlockType DEF ReadWait, BlockConsumer, TypeOK, queues, counters
  <2>5. CASE ReadEOF(p)
    BY <2>5, UnlockReturnType
    DEF ReadEOF, TypeOK, PCs, shared, queues, counters, waiting
  <2>6. CASE ReadTake(p)
    <3> DEFINE r == IF len[p] < Len(cbuffer) THEN len[p] ELSE Len(cbuffer)
    <3>1. /\ kbuffer' = [kbuffer EXCEPT ![p] = SubSeq(cbuffer, 1, r)]
          /\ cbuffer' = SubSeq(cbuffer, r + 1, Len(cbuffer))
          /\ WakeProducer /\ Unlock
          /\ pc' = [pc EXCEPT ![p] = "copy"]
          /\ UNCHANGED <<sem_cons, counters, nr_cons_waiting, call, len, ret, signals>>
      BY <2>6 DEF ReadTake
    <3>2. /\ Len(cbuffer) \in Nat /\ r \in 0 .. Len(cbuffer)
          /\ \A i \in 1 .. Len(cbuffer) : cbuffer[i] \in Bytes
      BY LenProperties, ElementOfSeq DEF TypeOK
    <3> HIDE DEF r
    <3>3. SubSeq(cbuffer, 1, r) \in Seq(Bytes) BY <3>2, SubSeqProperties
    <3>4. /\ SubSeq(cbuffer, r + 1, Len(cbuffer)) \in Seq(Bytes)
          /\ Len(SubSeq(cbuffer, r + 1, Len(cbuffer))) <= Len(cbuffer)
      <4>1. \A i \in r + 1 .. Len(cbuffer) : cbuffer[i] \in Bytes BY <3>2
      <4>2. r + 1 \in Int /\ Len(cbuffer) \in Int BY <3>2
      <4> QED BY <3>2, <4>1, <4>2, SubSeqProperties
    <3>5. LocalTypes'
      <4>1. call[p] = "read" BY <2>6 DEF ReadTake, InHandler
      <4>2. \A q \in Procs : q # p => kbuffer'[q] = kbuffer[q] BY <3>1 DEF TypeOK
      <4>3. kbuffer' \in [Procs -> Seq(Bytes)] BY <3>1, <3>3 DEF TypeOK
      <4>4. pc' \in [Procs -> PCs] BY <3>1 DEF TypeOK, PCs
      <4> QED BY <3>1, <4>1, <4>2, <4>3, <4>4 DEF TypeOK
    <3>6. cbuffer' \in Seq(Bytes) /\ Len(cbuffer') <= Capacity
      <4>1. Len(SubSeq(cbuffer, r + 1, Len(cbuffer))) \in Nat BY <3>4, LenProperties
      <4> QED BY <3>1, <3>2, <3>4, <4>1 DEF TypeOK
    <3>7. /\ sem_prod' \in Semaphores(Procs) /\ nr_prod_waiting' \in Int
          /\ mtx' \in Semaphores(Procs)
      BY <3>1, WakeTypes
    <3> QED BY <3>1, <3>5, <3>6, <3>7 DEF TypeOK, counters
  <2>7. CASE ReadCopy(p)
    <3>1. LocalTypes' BY <2>7, ReturnType DEF ReadCopy, TypeOK, PCs
    <3> QED BY <2>7, <3>1 DEF ReadCopy, TypeOK, shared, queues, counters, waiting
  <2>8. CASE WriteWait(p)
    BY <2>8, BlockType DEF WriteWait, BlockProducer, TypeOK, queues, counters
  <2>9. CASE WriteEPIPE(p)
    BY <2>9, UnlockReturnType
    DEF WriteEPIPE, TypeOK, PCs, EPIPE, shared, queues, counters, waiting
  <2>10. CASE WritePut(p)
    <3> DEFINE r == Fitting(len[p])
    <3>1. /\ cbuffer' = cbuffer \o SubSeq(kbuffer[p], 1, r)
          /\ WakeConsumer
          /\ UnlockReturn(p, "opened", len[p])
          /\ UNCHANGED <<sem_prod, counters, nr_prod_waiting>>
      BY <2>10 DEF WritePut
    <3>2. LocalTypes' /\ mtx' \in Semaphores(Procs) /\ signals' \in 0 .. MaxSignals
      BY <3>1, UnlockReturnType, SMTT(30) DEF TypeOK, PCs
    <3>3. sem_cons' \in Semaphores(Procs) /\ nr_cons_waiting' \in Int
      BY <3>1, WakeTypes
    <3>4. cbuffer' \in Seq(Bytes) /\ Len(cbuffer') <= Capacity
      <4>1. len[p] \in 0 .. Capacity /\ Len(cbuffer) \in 0 .. Capacity
        BY LenProperties DEF TypeOK
      <4>2. kbuffer[p] \in Seq(Bytes) /\ Len(kbuffer[p]) = len[p]
        BY <2>10, <4>1, MessageType DEF TypeOK, WritePut, InHandler
      <4>3. r \in 0 .. len[p] /\ r <= Capacity - Len(cbuffer)
        BY <4>1 DEF Fitting
      <4> HIDE DEF r
      <4>4. \A i \in 1 .. r : kbuffer[p][i] \in Bytes BY <4>1, <4>2, <4>3, ElementOfSeq
      <4>5. SubSeq(kbuffer[p], 1, r) \in Seq(Bytes) /\ Len(SubSeq(kbuffer[p], 1, r)) = r
        BY <4>1, <4>3, <4>4, SubSeqProperties
      <4> DEFINE data == SubSeq(kbuffer[p], 1, r)
      <4> HIDE DEF data
      <4>6. cbuffer \in Seq(Bytes) /\ data \in Seq(Bytes) BY <4>5 DEF TypeOK, data
      <4>7. cbuffer \o data \in Seq(Bytes) /\ Len(cbuffer \o data) = Len(cbuffer) + Len(data)
        BY <4>6, ConcatProperties
      <4>8. cbuffer' = cbuffer \o data BY <3>1 DEF data
      <4> QED BY <4>1, <4>3, <4>5, <4>7, <4>8 DEF data
    <3> QED BY <3>1, <3>2, <3>3, <3>4 DEF TypeOK, counters
  <2>11. CASE Sleep(p)
    BY <2>11, DownType DEF Sleep, TypeOK, PCs, counters, waiting, locals
  <2>12. CASE Woken(p)
    BY <2>12, DownType
    DEF Woken, TypeOK, PCs, shared, queues, counters, waiting, locals
  <2>13. CASE Undo(p)
    <3>1. AfterEINTR(p) \in PCs /\ EINTR \in Int BY DEF AfterEINTR, PCs, EINTR
    <3>2. UnlockReturn(p, AfterEINTR(p), EINTR) BY <2>13 DEF Undo
    <3>3. LocalTypes' /\ mtx' \in Semaphores(Procs) /\ signals' \in 0 .. MaxSignals
      BY <3>1, <3>2, UnlockReturnType
    <3>4. /\ cons_count' \in Int /\ prod_count' \in Int
          /\ nr_cons_waiting' \in Int /\ nr_prod_waiting' \in Int
      <4>1. /\ cons_count \in Int /\ prod_count \in Int
            /\ nr_cons_waiting \in Int /\ nr_prod_waiting \in Int
        BY DEF TypeOK
      <4>2. \/ /\ nr_cons_waiting' = nr_cons_waiting - 1 /\ cons_count' = cons_count - 1
               /\ UNCHANGED <<nr_prod_waiting, prod_count>>
            \/ /\ nr_prod_waiting' = nr_prod_waiting - 1 /\ prod_count' = prod_count - 1
               /\ UNCHANGED <<nr_cons_waiting, cons_count>>
        BY <2>13 DEF Undo
      <4> QED BY ONLY <4>1, <4>2, SMTT(30)
    <3>5. UNCHANGED <<sem_prod, sem_cons, cbuffer>> BY <2>13 DEF Undo, queues
    <3> QED BY <3>3, <3>4, <3>5 DEF TypeOK
  <2> QED
    BY <1>3, <2>1, <2>2, <2>3, <2>4, <2>5, <2>6, <2>7, <2>8, <2>9, <2>10, <2>11,
       <2>12, <2>13 DEF Run
<1>4. ASSUME NEW p \in Procs, Interrupt(p) PROVE TypeOK'
  <2>1. CASE InterruptSleep(p)
    <3>1. mtx' \in Semaphores(Procs) BY <2>1, DownType DEF InterruptSleep, TypeOK
    <3>2. sem_cons' \in Semaphores(Procs) /\ sem_prod' \in Semaphores(Procs)
      <4>1. CASE WaitsAsConsumer(p)
        <5>1. Waiting(sem_cons, p) /\ sem_cons' = Cancel(sem_cons, p) /\ UNCHANGED sem_prod
          BY <2>1, <4>1, OneQueue DEF InterruptSleep, Asleep
        <5> QED BY <5>1, CancelType DEF TypeOK
      <4>2. CASE WaitsAsProducer(p)
        <5>1. Waiting(sem_prod, p) /\ sem_prod' = Cancel(sem_prod, p) /\ UNCHANGED sem_cons
          BY <2>1, <4>2, OneQueue DEF InterruptSleep, Asleep
        <5> QED BY <5>1, CancelType DEF TypeOK
      <4> QED BY <2>1, <4>1, <4>2 DEF InterruptSleep
    <3> QED
      BY <2>1, <3>1, <3>2
      DEF InterruptSleep, TypeOK, PCs, counters, waiting, locals
  <2>2. CASE InterruptLock(p)
    <3>1. mtx' \in Semaphores(Procs) BY <2>2, CancelType DEF InterruptLock, TypeOK
    <3>2. AfterEINTR(p) \in PCs /\ EINTR \in Int BY DEF AfterEINTR, PCs, EINTR
    <3>3. Return(p, AfterEINTR(p), EINTR) BY <2>2 DEF InterruptLock
    <3>4. LocalTypes' BY <3>2, <3>3, ReturnType
    <3> QED
      BY <2>2, <3>1, <3>4
      DEF InterruptLock, TypeOK, shared, queues, counters, waiting
  <2> QED BY <1>4, <2>1, <2>2 DEF Interrupt
<1> QED BY <1>1, <1>2, <1>3, <1>4 DEF Next

\* Every variable of the pipe keeps its type in every behaviour, and a process
\* in write() keeps in kbuffer the bytes its caller passed.
THEOREM TypeCorrect == Spec => []TypeOK
<1>1. Init => TypeOK BY InitTypeOK
<1>2. TypeOK /\ [Next]_vars => TypeOK' BY NextTypeOK
<1> QED BY <1>1, <1>2, PTL DEF Spec
-----------------------------------------------------------------------------
(* The mutex. *)

\* A process in the list of mtx, or the owner of mtx, is at one of these.
AtMutex == {"lock", "relock", "undo"}

\* MutexConserved as an induction needs it: with the list of mtx in order, and
\* in it only processes that are in a down of mtx.
MutexInv ==
    /\ InOrder(mtx)
    /\ \A p \in Procs : Waiting(mtx, p) => pc[p] \in AtMutex
    /\ MutexConserved

\* What a step of p may do to mtx and to pc.
Acquire(p) ==
    /\ pc[p] \notin AtMutex
    /\ mtx' = Down(mtx, p)
    /\ \E st \in AtMutex : pc' = [pc EXCEPT ![p] = st]

Leave(p) ==
    /\ Owns(p)
    /\ mtx' = Up(mtx)
    /\ \E st \in PCs \ AtMutex : pc' = [pc EXCEPT ![p] = st]

GiveUp(p) ==
    /\ Waiting(mtx, p)
    /\ mtx' = Cancel(mtx, p)
    /\ \E st \in PCs \ AtMutex : pc' = [pc EXCEPT ![p] = st]

Outside(p) ==
    /\ pc[p] \notin AtMutex
    /\ mtx' = mtx
    /\ \E st \in PCs \ AtMutex : pc' = [pc EXCEPT ![p] = st]

LEMMA MutexSteps ==
    ASSUME NEW p \in Procs, Call(p) \/ Run(p) \/ Interrupt(p)
    PROVE  Acquire(p) \/ Leave(p) \/ GiveUp(p) \/ Outside(p)
<1> USE DEF AtMutex, PCs
<1>1. CASE Call(p)
  BY <1>1 DEF Call, CallOpen, CallRelease, CallRead, CallWrite, Enter, Acquire
<1>2. CASE Run(p)
  <2>1. ASSUME OpenConsumer(p) \/ OpenProducer(p) PROVE Leave(p)
    BY <2>1 DEF OpenConsumer, OpenProducer, InHandler, BlockConsumer, BlockProducer,
                Block, UnlockReturn, Return, Unlock, Leave
  <2>2. ASSUME Release(p) PROVE Leave(p)
    BY <2>2 DEF Release, InHandler, UnlockReturn, Return, Unlock, Leave
  <2>3. ASSUME ReadWait(p) \/ WriteWait(p) PROVE Leave(p)
    BY <2>3 DEF ReadWait, WriteWait, InHandler, BlockConsumer, BlockProducer, Block,
                Unlock, Leave
  <2>4. ASSUME ReadEOF(p) \/ WriteEPIPE(p) PROVE Leave(p)
    BY <2>4 DEF ReadEOF, WriteEPIPE, InHandler, UnlockReturn, Return, Unlock, Leave
  <2>5. ASSUME ReadTake(p) PROVE Leave(p)
    BY <2>5 DEF ReadTake, InHandler, Unlock, Leave
  <2>6. ASSUME WritePut(p) PROVE Leave(p)
    BY <2>6 DEF WritePut, InHandler, UnlockReturn, Return, Unlock, Leave
  <2>7. ASSUME ReadCopy(p) PROVE Outside(p)
    BY <2>7 DEF ReadCopy, Return, Outside
  <2>8. ASSUME Sleep(p) PROVE Outside(p) BY <2>8 DEF Sleep, Outside
  <2>9. ASSUME Woken(p) PROVE Acquire(p) BY <2>9 DEF Woken, Acquire
  <2>10. ASSUME Undo(p) PROVE Leave(p)
    <3>1. AfterEINTR(p) \in PCs \ AtMutex BY DEF AfterEINTR
    <3> QED BY <2>10, <3>1 DEF Undo, UnlockReturn, Return, Unlock, Leave
  <2> QED
    BY <1>2, <2>1, <2>2, <2>3, <2>4, <2>5, <2>6, <2>7, <2>8, <2>9, <2>10 DEF Run
<1>3. CASE Interrupt(p)
  <2>1. ASSUME InterruptSleep(p) PROVE Acquire(p)
    BY <2>1 DEF InterruptSleep, Asleep, Acquire
  <2>2. ASSUME InterruptLock(p) PROVE GiveUp(p)
    BY <2>2 DEF InterruptLock, Return, AfterEINTR, GiveUp
  <2> QED BY <1>3, <2>1, <2>2 DEF Interrupt
<1> QED BY <1>1, <1>2, <1>3

LEMMA NextMutexInv == TypeOK /\ MutexInv /\ [Next]_vars => MutexInv'
<1> SUFFICES ASSUME TypeOK, MutexInv, [Next]_vars PROVE MutexInv' OBVIOUS
<1>1. CASE UNCHANGED vars
  BY <1>1 DEF vars, MutexInv, MutexConserved, Owns, AtMutex
<1>2. CASE Next
  <2>1. PICK p \in Procs : Acquire(p) \/ Leave(p) \/ GiveUp(p) \/ Outside(p)
    BY <1>2, MutexSteps DEF Next
  <2>2. /\ mtx \in Semaphores(Procs) /\ InOrder(mtx) /\ mtx.count \in {0, 1}
        /\ mtx.count = 1 => \A q \in Procs : ~Owns(q)
        /\ mtx.count = 0 => \E q \in Procs : Owns(q)
        /\ \A q, r \in Procs : Owns(q) /\ Owns(r) => q = r
        /\ \A q \in Procs : Waiting(mtx, q) => pc[q] \in AtMutex
        /\ \A q : Owns(q) <=> pc[q] \in AtMutex /\ ~Waiting(mtx, q)
    BY DEF TypeOK, MutexInv, MutexConserved, Owns, AtMutex
  <2>3. \A q : Owns(q)' <=> pc'[q] \in AtMutex /\ ~Waiting(mtx', q)
    BY DEF Owns, AtMutex
  <2>4. SUFFICES /\ InOrder(mtx') /\ mtx'.count \in {0, 1}
                 /\ \A q \in Procs : Waiting(mtx', q) => pc'[q] \in AtMutex
                 /\ mtx'.count = 1 => \A q \in Procs : ~Owns(q)'
                 /\ mtx'.count = 0 => \E q \in Procs : Owns(q)'
                 /\ \A q, r \in Procs : Owns(q)' /\ Owns(r)' => q = r
    <3>1. InOrder(mtx)' <=> InOrder(mtx') BY DEF InOrder, NoTwice
    <3>2. \A q : Waiting(mtx, q)' <=> Waiting(mtx', q) BY DEF Waiting
    <3> QED BY <3>1, <3>2 DEF MutexInv, MutexConserved, AtMutex
  <2>5. \A q \in Procs : q # p => pc'[q] = pc[q]
    BY <2>1 DEF Acquire, Leave, GiveUp, Outside, TypeOK
  <2>6. CASE Acquire(p)
    <3>1. pc[p] \notin AtMutex /\ mtx' = Down(mtx, p) /\ pc'[p] \in AtMutex
      BY <2>6 DEF Acquire, TypeOK
    <3>2. ~Waiting(mtx, p) /\ InOrder(mtx') BY <2>2, <3>1, DownInOrder
    <3>3. CASE mtx.count = 1
      <4>1. mtx'.count = 0 /\ \A q : Waiting(mtx', q) <=> Waiting(mtx, q)
        BY <2>2, <3>1, <3>3, DownEffect
      <4> QED BY <2>2, <2>3, <2>5, <3>1, <3>2, <3>3, <4>1
    <3>4. CASE mtx.count = 0
      <4>1. mtx'.count = 0 /\ \A q : Waiting(mtx', q) <=> (Waiting(mtx, q) \/ q = p)
        BY <2>2, <3>1, <3>4, DownEffect
      <4> QED BY <2>2, <2>3, <2>5, <3>1, <3>2, <3>4, <4>1
    <3> QED BY <2>2, <3>3, <3>4
  <2>7. CASE Leave(p)
    <3>1. Owns(p) /\ mtx' = Up(mtx) /\ pc'[p] \notin AtMutex
      BY <2>7 DEF Leave, TypeOK
    <3>2. InOrder(mtx') /\ mtx.count = 0 BY <2>2, <3>1, UpEffect
    <3>3. CASE mtx.waiters = << >>
      <4>1. mtx'.count = 1 /\ \A q : ~Waiting(mtx, q) /\ ~Waiting(mtx', q)
        BY <2>2, <3>1, <3>2, <3>3, UpEffect
      <4> QED BY <2>2, <2>3, <2>5, <3>1, <3>2, <4>1
    <3>4. CASE mtx.waiters # << >>
      <4>1. PICK h \in Procs : /\ mtx'.count = 0 /\ Waiting(mtx, h)
                               /\ \A q : Waiting(mtx', q) <=> (Waiting(mtx, q) /\ q # h)
        BY <2>2, <3>1, <3>4, UpEffect
      <4>2. h # p BY <2>2, <3>1, <4>1
      <4> QED BY <2>2, <2>3, <2>5, <3>1, <3>2, <4>1, <4>2
    <3> QED BY <3>3, <3>4
  <2>8. CASE GiveUp(p)
    <3>1. Waiting(mtx, p) /\ mtx' = Cancel(mtx, p) /\ pc'[p] \notin AtMutex
      BY <2>8 DEF GiveUp, TypeOK
    <3>2. /\ InOrder(mtx') /\ mtx.count = 0 /\ mtx'.count = 0
          /\ \A q : Waiting(mtx', q) <=> (Waiting(mtx, q) /\ q # p)
      BY <2>2, <3>1, CancelEffect
    <3> QED BY <2>2, <2>3, <2>5, <3>1, <3>2
  <2>9. CASE Outside(p)
    <3>1. pc[p] \notin AtMutex /\ mtx' = mtx /\ pc'[p] \notin AtMutex
      BY <2>9 DEF Outside, TypeOK
    <3> QED BY <2>2, <2>3, <2>5, <3>1
  <2> QED BY <2>1, <2>6, <2>7, <2>8, <2>9
<1> QED BY <1>1, <1>2

LEMMA InitMutexInv == Init => MutexInv
<1> SUFFICES ASSUME Init PROVE MutexInv OBVIOUS
<1>1. mtx.count = 1 /\ mtx.waiters = << >> BY DEF Init, SemInit
<1>2. \A p \in Procs : ~Owns(p) BY DEF Init, Owns
<1>3. \A p : ~Waiting(mtx, p) /\ InOrder(mtx)
  BY <1>1 DEF Waiting, InOrder, NoTwice
<1> QED BY <1>1, <1>2, <1>3 DEF MutexInv, MutexConserved

\* mtx has one owner or one unit, at any time, for any number of processes and
\* of interrupted waits: no handler leaves by a path that keeps or doubles it.
THEOREM MutexIsConserved == Spec => []MutexConserved
<1>1. Init => TypeOK /\ MutexInv BY InitTypeOK, InitMutexInv
<1>2. TypeOK /\ MutexInv /\ [Next]_vars => (TypeOK /\ MutexInv)'
  BY NextTypeOK, NextMutexInv
<1>3. MutexInv => MutexConserved BY DEF MutexInv
<1> QED BY <1>1, <1>2, <1>3, PTL DEF Spec
-----------------------------------------------------------------------------
(* The wait counters. *)

\* The account of one queue: semaphore s, counter nr, and the processes Q that
\* the counter answers for.
Accounted(s, nr, Q) ==
    /\ s \in Semaphores(Procs) /\ InOrder(s)
    /\ nr \in Int
    /\ Q \subseteq Procs
    /\ \A q \in Procs : Waiting(s, q) => q \in Q
    /\ nr + s.count = Cardinality(Q)

LEMMA AccountedBlock ==
    ASSUME NEW s, NEW nr, NEW Q, Accounted(s, nr, Q), NEW p \in Procs, p \notin Q
    PROVE  Accounted(s, nr + 1, Q \cup {p})
<1>1. IsFiniteSet(Q) BY FS_Subset DEF Accounted, Procs
<1>2. Cardinality(Q \cup {p}) = Cardinality(Q) + 1 BY <1>1, FS_AddElement
<1>3. Cardinality(Q) \in Nat BY <1>1, FS_CardinalityType
<1>4. s.count \in Nat BY DEF Accounted, Semaphores
<1> QED BY <1>2, <1>3, <1>4 DEF Accounted

LEMMA AccountedUndo ==
    ASSUME NEW s, NEW nr, NEW Q, Accounted(s, nr, Q), NEW p \in Q, ~Waiting(s, p)
    PROVE  Accounted(s, nr - 1, Q \ {p})
<1>1. IsFiniteSet(Q) BY FS_Subset DEF Accounted, Procs
<1> DEFINE R == Q \ {p}
<1>2. Cardinality(R) = Cardinality(Q) - 1 BY <1>1, FS_RemoveElement
<1>3. Cardinality(Q) \in Nat BY <1>1, FS_CardinalityType
<1>4. s.count \in Nat BY DEF Accounted, Semaphores
<1>5. nr \in Int /\ nr + s.count = Cardinality(Q) BY DEF Accounted
<1>6. R \subseteq Procs /\ \A q \in Procs : Waiting(s, q) => q \in R BY DEF Accounted
<1> HIDE DEF R
<1>7. nr - 1 \in Int /\ nr - 1 + s.count = Cardinality(R) BY <1>2, <1>3, <1>4, <1>5
<1>8. Accounted(s, nr - 1, R) BY <1>6, <1>7 DEF Accounted
<1> QED BY <1>8 DEF R

LEMMA AccountedWake ==
    ASSUME NEW s, NEW nr, NEW Q, Accounted(s, nr, Q)
    PROVE  Accounted(Up(s), nr - 1, {q \in Q : Waiting(s, q) => Waiting(Up(s), q)})
<1> DEFINE R == {q \in Q : Waiting(s, q) => Waiting(Up(s), q)}
<1>1. IsFiniteSet(Q) BY FS_Subset DEF Accounted, Procs
<1>2. Cardinality(Q) \in Nat BY <1>1, FS_CardinalityType
<1>3. /\ s \in Semaphores(Procs) /\ InOrder(s) /\ s.count \in Nat
      /\ Up(s) \in Semaphores(Procs) /\ InOrder(Up(s))
  BY UpType, UpEffect DEF Accounted, Semaphores
<1>4. CASE s.waiters = << >>
  <2>1. Up(s).count = s.count + 1 /\ \A q : ~Waiting(s, q) /\ ~Waiting(Up(s), q)
    BY <1>3, <1>4, UpEffect
  <2>2. R = Q BY <2>1
  <2>3. nr - 1 \in Int /\ nr - 1 + Up(s).count = Cardinality(Q)
    BY <1>2, <1>3, <2>1 DEF Accounted
  <2> HIDE DEF R
  <2>4. Accounted(Up(s), nr - 1, R) BY <1>3, <2>1, <2>2, <2>3 DEF Accounted
  <2> QED BY <2>4 DEF R
<1>5. CASE s.waiters # << >>
  <2>1. s.count = 0 /\ Up(s).count = 0 BY <1>3, <1>5, UpEffect
  <2>2. PICK h \in Procs : /\ Waiting(s, h)
                           /\ \A q : Waiting(Up(s), q) <=> (Waiting(s, q) /\ q # h)
    BY <1>3, <1>5, UpEffect
  <2>3. h \in Q BY <2>2 DEF Accounted
  <2>4. R = Q \ {h} BY <2>2
  <2>5. Cardinality(R) = Cardinality(Q) - 1 BY <1>1, <2>3, <2>4, FS_RemoveElement
  <2> HIDE DEF R
  <2>6. \A q \in Procs : Waiting(Up(s), q) => q \in R BY <2>2, <2>4 DEF Accounted
  <2>7. R \subseteq Procs /\ nr - 1 \in Int /\ nr - 1 + Up(s).count = Cardinality(R)
    BY <1>2, <2>1, <2>4, <2>5 DEF Accounted
  <2>8. Accounted(Up(s), nr - 1, R) BY <1>3, <2>6, <2>7 DEF Accounted
  <2> QED BY <2>8 DEF R
<1> QED BY <1>4, <1>5

LEMMA AccountedSleep ==
    ASSUME NEW s, NEW nr, NEW Q, Accounted(s, nr, Q), NEW p \in Q, ~Waiting(s, p)
    PROVE  Accounted(Down(s, p), nr,
                     {q \in Q : q = p => Waiting(Down(s, p), p)})
<1> DEFINE R == {q \in Q : q = p => Waiting(Down(s, p), p)}
<1>1. IsFiniteSet(Q) BY FS_Subset DEF Accounted, Procs
<1>2. Cardinality(Q) \in Nat BY <1>1, FS_CardinalityType
<1>3. /\ s \in Semaphores(Procs) /\ InOrder(s) /\ s.count \in Nat /\ p \in Procs
      /\ Down(s, p) \in Semaphores(Procs) /\ InOrder(Down(s, p))
  <2>1. s \in Semaphores(Procs) /\ InOrder(s) /\ s.count \in Nat /\ p \in Procs
    BY DEF Accounted, Semaphores
  <2> QED BY <2>1, DownType, DownInOrder
<1>4. CASE s.count > 0
  <2>1. Down(s, p).count = s.count - 1 /\ \A q : Waiting(Down(s, p), q) <=> Waiting(s, q)
    BY <1>3, <1>4, DownEffect
  <2>2. R = Q \ {p} BY <2>1
  <2>3. Cardinality(R) = Cardinality(Q) - 1 BY <1>1, <2>2, FS_RemoveElement
  <2> HIDE DEF R
  <2>4. \A q \in Procs : Waiting(Down(s, p), q) => q \in R BY <2>1, <2>2 DEF Accounted
  <2>5. R \subseteq Procs /\ nr + Down(s, p).count = Cardinality(R)
    BY <1>2, <1>3, <2>1, <2>2, <2>3 DEF Accounted
  <2>6. Accounted(Down(s, p), nr, R) BY <1>3, <2>4, <2>5 DEF Accounted
  <2> QED BY <2>6 DEF R
<1>5. CASE s.count = 0
  <2>1. Down(s, p).count = 0 /\ \A q : Waiting(Down(s, p), q) <=> (Waiting(s, q) \/ q = p)
    BY <1>3, <1>5, DownEffect
  <2>2. R = Q BY <2>1
  <2> HIDE DEF R
  <2>3. Accounted(Down(s, p), nr, R) BY <1>3, <1>5, <2>1, <2>2 DEF Accounted
  <2> QED BY <2>3 DEF R
<1> QED BY <1>3, <1>4, <1>5

LEMMA AccountedInterrupt ==
    ASSUME NEW s, NEW nr, NEW Q, Accounted(s, nr, Q), NEW p \in Procs, Waiting(s, p)
    PROVE  Accounted(Cancel(s, p), nr, Q)
BY CancelEffect DEF Accounted

\* A step of p leaves the others where they are.
Frame(p) == \A q \in Procs : q # p => pc'[q] = pc[q] /\ call'[q] = call[q]

\* What a step of p may do to the account of the consumers.
ConsumerOut(p) == ~(pc[p] \in {"presleep", "undo"} /\ WaitsAsConsumer(p)) /\ ~Waiting(sem_cons, p)

ConsumerOp(p) ==
    \/ /\ ConsumerOut(p) /\ ~(pc'[p] \in {"presleep", "undo"} /\ WaitsAsConsumer(p)')
       /\ UNCHANGED <<sem_cons, nr_cons_waiting>>
    \/ /\ ConsumerOut(p) /\ ~(pc'[p] \in {"presleep", "undo"} /\ WaitsAsConsumer(p)')
       /\ sem_cons' = Up(sem_cons) /\ nr_cons_waiting' = nr_cons_waiting - 1
    \/ /\ ConsumerOut(p) /\ pc'[p] = "presleep" /\ WaitsAsConsumer(p)'
       /\ sem_cons' = sem_cons /\ nr_cons_waiting' = nr_cons_waiting + 1
    \/ /\ pc[p] = "presleep" /\ WaitsAsConsumer(p) /\ pc'[p] = "sleep" /\ WaitsAsConsumer(p)'
       /\ sem_cons' = Down(sem_cons, p) /\ nr_cons_waiting' = nr_cons_waiting
    \/ /\ Waiting(sem_cons, p) /\ pc'[p] = "undo" /\ WaitsAsConsumer(p)'
       /\ sem_cons' = Cancel(sem_cons, p) /\ nr_cons_waiting' = nr_cons_waiting
    \/ /\ pc[p] = "undo" /\ WaitsAsConsumer(p) /\ ~(pc'[p] \in {"presleep", "undo"})
       /\ sem_cons' = sem_cons /\ nr_cons_waiting' = nr_cons_waiting - 1

ConsumerQueue ==
    /\ \A p \in Procs : Waiting(sem_cons, p) => pc[p] = "sleep" /\ WaitsAsConsumer(p)
    /\ Accounted(sem_cons, nr_cons_waiting, ConsumersQueued)

\* What a step of p may do to the account of the producers.
ProducerOut(p) == ~(pc[p] \in {"presleep", "undo"} /\ WaitsAsProducer(p)) /\ ~Waiting(sem_prod, p)

ProducerOp(p) ==
    \/ /\ ProducerOut(p) /\ ~(pc'[p] \in {"presleep", "undo"} /\ WaitsAsProducer(p)')
       /\ UNCHANGED <<sem_prod, nr_prod_waiting>>
    \/ /\ ProducerOut(p) /\ ~(pc'[p] \in {"presleep", "undo"} /\ WaitsAsProducer(p)')
       /\ sem_prod' = Up(sem_prod) /\ nr_prod_waiting' = nr_prod_waiting - 1
    \/ /\ ProducerOut(p) /\ pc'[p] = "presleep" /\ WaitsAsProducer(p)'
       /\ sem_prod' = sem_prod /\ nr_prod_waiting' = nr_prod_waiting + 1
    \/ /\ pc[p] = "presleep" /\ WaitsAsProducer(p) /\ pc'[p] = "sleep" /\ WaitsAsProducer(p)'
       /\ sem_prod' = Down(sem_prod, p) /\ nr_prod_waiting' = nr_prod_waiting
    \/ /\ Waiting(sem_prod, p) /\ pc'[p] = "undo" /\ WaitsAsProducer(p)'
       /\ sem_prod' = Cancel(sem_prod, p) /\ nr_prod_waiting' = nr_prod_waiting
    \/ /\ pc[p] = "undo" /\ WaitsAsProducer(p) /\ ~(pc'[p] \in {"presleep", "undo"})
       /\ sem_prod' = sem_prod /\ nr_prod_waiting' = nr_prod_waiting - 1

ProducerQueue ==
    /\ \A p \in Procs : Waiting(sem_prod, p) => pc[p] = "sleep" /\ WaitsAsProducer(p)
    /\ Accounted(sem_prod, nr_prod_waiting, ProducersQueued)

LEMMA ConsumerQueueStep ==
    ASSUME TypeOK, ConsumerQueue, NEW p \in Procs, Frame(p), ConsumerOp(p)
    PROVE  ConsumerQueue'
<1> DEFINE Marked(q) == pc[q] \in {"presleep", "undo"} /\ WaitsAsConsumer(q)
           Q == ConsumersQueued
           s == sem_cons
<1>1. /\ \A q \in Procs : Waiting(s, q) => pc[q] = "sleep" /\ WaitsAsConsumer(q)
      /\ Accounted(s, nr_cons_waiting, Q)
  BY DEF ConsumerQueue
<1>2. \A q \in Procs : q \in Q <=> Marked(q) \/ Waiting(s, q)
  BY <1>1 DEF ConsumersQueued, OnQueue, Asleep, WaitsAsConsumer, WaitsAsProducer
<1>3. \A q \in Procs : q # p => /\ pc'[q] = pc[q] /\ (WaitsAsConsumer(q)' <=> WaitsAsConsumer(q))
                               /\ (Marked(q)' <=> Marked(q))
  BY DEF Frame, WaitsAsConsumer
<1>4. SUFFICES /\ \A q \in Procs : Waiting(sem_cons', q) => pc'[q] = "sleep" /\ WaitsAsConsumer(q)'
               /\ (\A q \in Procs : q \in Q' <=> Marked(q)' \/ Waiting(sem_cons', q))
                     => Accounted(sem_cons', nr_cons_waiting', Q')
  <2>1. \A q : Waiting(s, q)' <=> Waiting(sem_cons', q) BY DEF Waiting
  <2>2. (\A q \in Procs : Waiting(sem_cons', q) => pc'[q] = "sleep" /\ WaitsAsConsumer(q)')
        => \A q \in Procs : q \in Q' <=> Marked(q)' \/ Waiting(sem_cons', q)
    BY <2>1 DEF ConsumersQueued, OnQueue, Asleep, WaitsAsConsumer, WaitsAsProducer
  <2>3. Accounted(sem_cons', nr_cons_waiting', Q') => Accounted(s, nr_cons_waiting, Q)'
    BY <2>1 DEF Accounted, InOrder, NoTwice
  <2> QED BY <2>1, <2>2, <2>3 DEF ConsumerQueue
<1>5. Q \subseteq Procs /\ Q' \subseteq Procs BY DEF ConsumersQueued
<1>6. InOrder(s) /\ s \in Semaphores(Procs) /\ s.count \in Nat
  BY <1>1 DEF Accounted, Semaphores
<1>7. ConsumerOut(p) <=> ~Marked(p) /\ ~Waiting(s, p) BY DEF ConsumerOut
<1> HIDE DEF Q
<1>8. CASE /\ ConsumerOut(p) /\ ~Marked(p)'
           /\ UNCHANGED <<sem_cons, nr_cons_waiting>>
  <2>1. ASSUME \A q \in Procs : q \in Q' <=> Marked(q)' \/ Waiting(sem_cons', q)
        PROVE  Q' = Q
    BY <1>2, <1>3, <1>5, <1>7, <1>8, <2>1
  <2> QED BY <1>1, <1>3, <1>7, <1>8, <2>1
<1>9. CASE /\ ConsumerOut(p) /\ ~Marked(p)'
           /\ sem_cons' = Up(sem_cons) /\ nr_cons_waiting' = nr_cons_waiting - 1
  <2> DEFINE R == {q \in Q : Waiting(s, q) => Waiting(Up(s), q)}
  <2>1. \A q \in Procs : Waiting(Up(s), q) => Waiting(s, q)
    BY <1>6, UpEffect
  <2>2. ASSUME \A q \in Procs : q \in Q' <=> Marked(q)' \/ Waiting(sem_cons', q)
        PROVE  Q' = R
    <3>1. ASSUME NEW q \in Procs PROVE q \in Q' <=> q \in R
      <4>1. CASE q = p BY <4>1, <1>2, <1>7, <1>9, <2>1, <2>2
      <4>2. CASE q # p
        <5>1. Marked(q) => ~Waiting(s, q) BY <1>1
        <5> QED BY <4>2, <5>1, <1>2, <1>3, <1>9, <2>1, <2>2
      <4> QED BY <4>1, <4>2
    <3> QED BY <3>1, <1>5
  <2>3. Accounted(Up(s), nr_cons_waiting - 1, R) BY <1>1, AccountedWake
  <2>4. \A q \in Procs : Waiting(sem_cons', q) => pc'[q] = "sleep" /\ WaitsAsConsumer(q)'
    BY <1>1, <1>3, <1>7, <1>9, <2>1
  <2> HIDE DEF R
  <2> QED BY <1>9, <2>2, <2>3, <2>4
<1>10. CASE /\ ConsumerOut(p) /\ pc'[p] = "presleep" /\ WaitsAsConsumer(p)'
            /\ sem_cons' = sem_cons /\ nr_cons_waiting' = nr_cons_waiting + 1
  <2>1. Marked(p)' /\ p \notin Q BY <1>2, <1>7, <1>10
  <2>2. ASSUME \A q \in Procs : q \in Q' <=> Marked(q)' \/ Waiting(sem_cons', q)
        PROVE  Q' = Q \cup {p}
    <3>1. ASSUME NEW q \in Procs PROVE q \in Q' <=> q \in Q \cup {p}
      BY <1>2, <1>3, <1>10, <2>1, <2>2
    <3> QED BY <3>1, <1>5
  <2>3. Accounted(s, nr_cons_waiting + 1, Q \cup {p}) BY <1>1, <2>1, AccountedBlock
  <2> QED BY <1>1, <1>3, <1>7, <1>10, <2>2, <2>3
<1>11. CASE /\ pc[p] = "presleep" /\ WaitsAsConsumer(p) /\ pc'[p] = "sleep" /\ WaitsAsConsumer(p)'
            /\ sem_cons' = Down(sem_cons, p) /\ nr_cons_waiting' = nr_cons_waiting
  <2> DEFINE R == {q \in Q : q = p => Waiting(Down(s, p), p)}
  <2>1. Marked(p) /\ ~Marked(p)' /\ ~Waiting(s, p) /\ p \in Q
    BY <1>1, <1>2, <1>11
  <2>2. \A q \in Procs : q # p => (Waiting(Down(s, p), q) <=> Waiting(s, q))
    BY <1>6, DownEffect
  <2>3. ASSUME \A q \in Procs : q \in Q' <=> Marked(q)' \/ Waiting(sem_cons', q)
        PROVE  Q' = R
    <3>1. ASSUME NEW q \in Procs PROVE q \in Q' <=> q \in R
      <4>1. CASE q = p BY <4>1, <1>11, <2>1, <2>3
      <4>2. CASE q # p BY <4>2, <1>2, <1>3, <1>11, <2>2, <2>3
      <4> QED BY <4>1, <4>2
    <3> QED BY <3>1, <1>5
  <2>4. Accounted(Down(s, p), nr_cons_waiting, R) BY <1>1, <2>1, AccountedSleep
  <2>5. \A q \in Procs : Waiting(sem_cons', q) => pc'[q] = "sleep" /\ WaitsAsConsumer(q)'
    BY <1>1, <1>3, <1>11, <2>2
  <2> HIDE DEF R
  <2> QED BY <1>11, <2>3, <2>4, <2>5
<1>12. CASE /\ Waiting(sem_cons, p) /\ pc'[p] = "undo" /\ WaitsAsConsumer(p)'
            /\ sem_cons' = Cancel(sem_cons, p) /\ nr_cons_waiting' = nr_cons_waiting
  <2>1. \A q \in Procs : Waiting(Cancel(s, p), q) <=> Waiting(s, q) /\ q # p
    BY <1>6, <1>12, CancelEffect
  <2>2. Marked(p)' /\ p \in Q BY <1>2, <1>12
  <2>3. ASSUME \A q \in Procs : q \in Q' <=> Marked(q)' \/ Waiting(sem_cons', q)
        PROVE  Q' = Q
    <3>1. ASSUME NEW q \in Procs PROVE q \in Q' <=> q \in Q
      BY <1>2, <1>3, <1>12, <2>1, <2>2, <2>3
    <3> QED BY <3>1, <1>5
  <2>4. Accounted(Cancel(s, p), nr_cons_waiting, Q) BY <1>1, <1>12, AccountedInterrupt
  <2> QED BY <1>1, <1>3, <1>12, <2>1, <2>3, <2>4
<1>13. CASE /\ pc[p] = "undo" /\ WaitsAsConsumer(p) /\ ~(pc'[p] \in {"presleep", "undo"})
            /\ sem_cons' = sem_cons /\ nr_cons_waiting' = nr_cons_waiting - 1
  <2>1. Marked(p) /\ ~Marked(p)' /\ ~Waiting(s, p) /\ p \in Q
    BY <1>1, <1>2, <1>13
  <2>2. ASSUME \A q \in Procs : q \in Q' <=> Marked(q)' \/ Waiting(sem_cons', q)
        PROVE  Q' = Q \ {p}
    <3>1. ASSUME NEW q \in Procs PROVE q \in Q' <=> q \in Q \ {p}
      BY <1>2, <1>3, <1>13, <2>1, <2>2
    <3> QED BY <3>1, <1>5
  <2>3. Accounted(s, nr_cons_waiting - 1, Q \ {p}) BY <1>1, <2>1, AccountedUndo
  <2> QED BY <1>1, <1>3, <1>13, <2>1, <2>2, <2>3
<1> QED BY <1>8, <1>9, <1>10, <1>11, <1>12, <1>13 DEF ConsumerOp

LEMMA ProducerQueueStep ==
    ASSUME TypeOK, ProducerQueue, NEW p \in Procs, Frame(p), ProducerOp(p)
    PROVE  ProducerQueue'
<1> DEFINE Marked(q) == pc[q] \in {"presleep", "undo"} /\ WaitsAsProducer(q)
           Q == ProducersQueued
           s == sem_prod
<1>1. /\ \A q \in Procs : Waiting(s, q) => pc[q] = "sleep" /\ WaitsAsProducer(q)
      /\ Accounted(s, nr_prod_waiting, Q)
  BY DEF ProducerQueue
<1>2. \A q \in Procs : q \in Q <=> Marked(q) \/ Waiting(s, q)
  BY <1>1 DEF ProducersQueued, OnQueue, Asleep, WaitsAsConsumer, WaitsAsProducer
<1>3. \A q \in Procs : q # p => /\ pc'[q] = pc[q] /\ (WaitsAsProducer(q)' <=> WaitsAsProducer(q))
                               /\ (Marked(q)' <=> Marked(q))
  BY DEF Frame, WaitsAsProducer
<1>4. SUFFICES /\ \A q \in Procs : Waiting(sem_prod', q) => pc'[q] = "sleep" /\ WaitsAsProducer(q)'
               /\ (\A q \in Procs : q \in Q' <=> Marked(q)' \/ Waiting(sem_prod', q))
                     => Accounted(sem_prod', nr_prod_waiting', Q')
  <2>1. \A q : Waiting(s, q)' <=> Waiting(sem_prod', q) BY DEF Waiting
  <2>2. (\A q \in Procs : Waiting(sem_prod', q) => pc'[q] = "sleep" /\ WaitsAsProducer(q)')
        => \A q \in Procs : q \in Q' <=> Marked(q)' \/ Waiting(sem_prod', q)
    BY <2>1 DEF ProducersQueued, OnQueue, Asleep, WaitsAsConsumer, WaitsAsProducer
  <2>3. Accounted(sem_prod', nr_prod_waiting', Q') => Accounted(s, nr_prod_waiting, Q)'
    BY <2>1 DEF Accounted, InOrder, NoTwice
  <2> QED BY <2>1, <2>2, <2>3 DEF ProducerQueue
<1>5. Q \subseteq Procs /\ Q' \subseteq Procs BY DEF ProducersQueued
<1>6. InOrder(s) /\ s \in Semaphores(Procs) /\ s.count \in Nat
  BY <1>1 DEF Accounted, Semaphores
<1>7. ProducerOut(p) <=> ~Marked(p) /\ ~Waiting(s, p) BY DEF ProducerOut
<1> HIDE DEF Q
<1>8. CASE /\ ProducerOut(p) /\ ~Marked(p)'
           /\ UNCHANGED <<sem_prod, nr_prod_waiting>>
  <2>1. ASSUME \A q \in Procs : q \in Q' <=> Marked(q)' \/ Waiting(sem_prod', q)
        PROVE  Q' = Q
    BY <1>2, <1>3, <1>5, <1>7, <1>8, <2>1
  <2> QED BY <1>1, <1>3, <1>7, <1>8, <2>1
<1>9. CASE /\ ProducerOut(p) /\ ~Marked(p)'
           /\ sem_prod' = Up(sem_prod) /\ nr_prod_waiting' = nr_prod_waiting - 1
  <2> DEFINE R == {q \in Q : Waiting(s, q) => Waiting(Up(s), q)}
  <2>1. \A q \in Procs : Waiting(Up(s), q) => Waiting(s, q)
    BY <1>6, UpEffect
  <2>2. ASSUME \A q \in Procs : q \in Q' <=> Marked(q)' \/ Waiting(sem_prod', q)
        PROVE  Q' = R
    <3>1. ASSUME NEW q \in Procs PROVE q \in Q' <=> q \in R
      <4>1. CASE q = p BY <4>1, <1>2, <1>7, <1>9, <2>1, <2>2
      <4>2. CASE q # p
        <5>1. Marked(q) => ~Waiting(s, q) BY <1>1
        <5> QED BY <4>2, <5>1, <1>2, <1>3, <1>9, <2>1, <2>2
      <4> QED BY <4>1, <4>2
    <3> QED BY <3>1, <1>5
  <2>3. Accounted(Up(s), nr_prod_waiting - 1, R) BY <1>1, AccountedWake
  <2>4. \A q \in Procs : Waiting(sem_prod', q) => pc'[q] = "sleep" /\ WaitsAsProducer(q)'
    BY <1>1, <1>3, <1>7, <1>9, <2>1
  <2> HIDE DEF R
  <2> QED BY <1>9, <2>2, <2>3, <2>4
<1>10. CASE /\ ProducerOut(p) /\ pc'[p] = "presleep" /\ WaitsAsProducer(p)'
            /\ sem_prod' = sem_prod /\ nr_prod_waiting' = nr_prod_waiting + 1
  <2>1. Marked(p)' /\ p \notin Q BY <1>2, <1>7, <1>10
  <2>2. ASSUME \A q \in Procs : q \in Q' <=> Marked(q)' \/ Waiting(sem_prod', q)
        PROVE  Q' = Q \cup {p}
    <3>1. ASSUME NEW q \in Procs PROVE q \in Q' <=> q \in Q \cup {p}
      BY <1>2, <1>3, <1>10, <2>1, <2>2
    <3> QED BY <3>1, <1>5
  <2>3. Accounted(s, nr_prod_waiting + 1, Q \cup {p}) BY <1>1, <2>1, AccountedBlock
  <2> QED BY <1>1, <1>3, <1>7, <1>10, <2>2, <2>3
<1>11. CASE /\ pc[p] = "presleep" /\ WaitsAsProducer(p) /\ pc'[p] = "sleep" /\ WaitsAsProducer(p)'
            /\ sem_prod' = Down(sem_prod, p) /\ nr_prod_waiting' = nr_prod_waiting
  <2> DEFINE R == {q \in Q : q = p => Waiting(Down(s, p), p)}
  <2>1. Marked(p) /\ ~Marked(p)' /\ ~Waiting(s, p) /\ p \in Q
    BY <1>1, <1>2, <1>11
  <2>2. \A q \in Procs : q # p => (Waiting(Down(s, p), q) <=> Waiting(s, q))
    BY <1>6, DownEffect
  <2>3. ASSUME \A q \in Procs : q \in Q' <=> Marked(q)' \/ Waiting(sem_prod', q)
        PROVE  Q' = R
    <3>1. ASSUME NEW q \in Procs PROVE q \in Q' <=> q \in R
      <4>1. CASE q = p BY <4>1, <1>11, <2>1, <2>3
      <4>2. CASE q # p BY <4>2, <1>2, <1>3, <1>11, <2>2, <2>3
      <4> QED BY <4>1, <4>2
    <3> QED BY <3>1, <1>5
  <2>4. Accounted(Down(s, p), nr_prod_waiting, R) BY <1>1, <2>1, AccountedSleep
  <2>5. \A q \in Procs : Waiting(sem_prod', q) => pc'[q] = "sleep" /\ WaitsAsProducer(q)'
    BY <1>1, <1>3, <1>11, <2>2
  <2> HIDE DEF R
  <2> QED BY <1>11, <2>3, <2>4, <2>5
<1>12. CASE /\ Waiting(sem_prod, p) /\ pc'[p] = "undo" /\ WaitsAsProducer(p)'
            /\ sem_prod' = Cancel(sem_prod, p) /\ nr_prod_waiting' = nr_prod_waiting
  <2>1. \A q \in Procs : Waiting(Cancel(s, p), q) <=> Waiting(s, q) /\ q # p
    BY <1>6, <1>12, CancelEffect
  <2>2. Marked(p)' /\ p \in Q BY <1>2, <1>12
  <2>3. ASSUME \A q \in Procs : q \in Q' <=> Marked(q)' \/ Waiting(sem_prod', q)
        PROVE  Q' = Q
    <3>1. ASSUME NEW q \in Procs PROVE q \in Q' <=> q \in Q
      BY <1>2, <1>3, <1>12, <2>1, <2>2, <2>3
    <3> QED BY <3>1, <1>5
  <2>4. Accounted(Cancel(s, p), nr_prod_waiting, Q) BY <1>1, <1>12, AccountedInterrupt
  <2> QED BY <1>1, <1>3, <1>12, <2>1, <2>3, <2>4
<1>13. CASE /\ pc[p] = "undo" /\ WaitsAsProducer(p) /\ ~(pc'[p] \in {"presleep", "undo"})
            /\ sem_prod' = sem_prod /\ nr_prod_waiting' = nr_prod_waiting - 1
  <2>1. Marked(p) /\ ~Marked(p)' /\ ~Waiting(s, p) /\ p \in Q
    BY <1>1, <1>2, <1>13
  <2>2. ASSUME \A q \in Procs : q \in Q' <=> Marked(q)' \/ Waiting(sem_prod', q)
        PROVE  Q' = Q \ {p}
    <3>1. ASSUME NEW q \in Procs PROVE q \in Q' <=> q \in Q \ {p}
      BY <1>2, <1>3, <1>13, <2>1, <2>2
    <3> QED BY <3>1, <1>5
  <2>3. Accounted(s, nr_prod_waiting - 1, Q \ {p}) BY <1>1, <2>1, AccountedUndo
  <2> QED BY <1>1, <1>3, <1>13, <2>1, <2>2, <2>3
<1> QED BY <1>8, <1>9, <1>10, <1>11, <1>12, <1>13 DEF ProducerOp

\* Every step is one of those for both queues.
LEMMA QueueSteps ==
    ASSUME TypeOK, ConsumerQueue, ProducerQueue, NEW p \in Procs,
           Call(p) \/ Run(p) \/ Interrupt(p)
    PROVE  Frame(p) /\ ConsumerOp(p) /\ ProducerOp(p)
<1>1. /\ Waiting(sem_cons, p) => pc[p] = "sleep" /\ WaitsAsConsumer(p)
      /\ Waiting(sem_prod, p) => pc[p] = "sleep" /\ WaitsAsProducer(p)
  BY DEF ConsumerQueue, ProducerQueue
<1>2. pc \in [Procs -> PCs] /\ call \in [Procs -> Calls] BY DEF TypeOK
<1> USE DEF ConsumerOut, ProducerOut
<1>3. ASSUME pc[p] \notin {"presleep", "sleep", "undo"}
      PROVE  ConsumerOut(p) /\ ProducerOut(p)
  BY <1>1, <1>3
\* Nothing happens to the queues.
<1>4. ASSUME UNCHANGED <<queues, waiting>>,
             pc[p] \notin {"presleep", "sleep", "undo"},
             pc'[p] \notin {"presleep", "undo"}
      PROVE  ConsumerOp(p) /\ ProducerOp(p)
  BY <1>3, <1>4 DEF ConsumerOp, ProducerOp, queues, waiting
\* The two wakes, in a step that does not count p.
<1>5. ASSUME pc[p] \notin {"presleep", "sleep", "undo"},
             pc'[p] \notin {"presleep", "undo"} \/ ~WaitsAsConsumer(p)',
             WakeConsumer \/ UNCHANGED <<sem_cons, nr_cons_waiting>>
      PROVE  ConsumerOp(p)
  BY <1>3, <1>5 DEF ConsumerOp, WakeConsumer
<1>6. ASSUME pc[p] \notin {"presleep", "sleep", "undo"},
             pc'[p] \notin {"presleep", "undo"} \/ ~WaitsAsProducer(p)',
             WakeProducer \/ UNCHANGED <<sem_prod, nr_prod_waiting>>
      PROVE  ProducerOp(p)
  BY <1>3, <1>6 DEF ProducerOp, WakeProducer
\* The two ways to be counted.
<1>7. ASSUME pc[p] \notin {"presleep", "sleep", "undo"}, Block(p),
             nr_cons_waiting' = nr_cons_waiting + 1, sem_cons' = sem_cons,
             WaitsAsConsumer(p)
      PROVE  Frame(p) /\ ConsumerOp(p) /\ WaitsAsConsumer(p)'
  BY <1>2, <1>3, <1>7 DEF ConsumerOp, Block, Frame, WaitsAsConsumer
<1>8. ASSUME pc[p] \notin {"presleep", "sleep", "undo"}, Block(p),
             nr_prod_waiting' = nr_prod_waiting + 1, sem_prod' = sem_prod,
             WaitsAsProducer(p)
      PROVE  Frame(p) /\ ProducerOp(p) /\ WaitsAsProducer(p)'
  BY <1>2, <1>3, <1>8 DEF ProducerOp, Block, Frame, WaitsAsProducer
<1>9. ASSUME NEW st, NEW r, Return(p, st, r)
      PROVE  Frame(p) /\ pc'[p] = st
  BY <1>2, <1>9 DEF Return, Frame
<1>10. (WaitsAsConsumer(p)' => ~WaitsAsProducer(p)')
  BY DEF WaitsAsConsumer, WaitsAsProducer
<1>11. CASE Call(p)
  <2>1. Frame(p) /\ UNCHANGED <<queues, waiting>> /\ pc'[p] = "lock"
        /\ pc[p] \in {"closed", "opened"}
    BY <1>2, <1>11 DEF Call, CallOpen, CallRelease, CallRead, CallWrite, Enter, Frame,
                       shared
  <2> QED BY <2>1, <1>4
<1>12. CASE Run(p)
  <2>1. CASE OpenConsumer(p)
    <3>1. /\ pc[p] \in {"lock", "relock"} /\ WaitsAsConsumer(p)
          /\ WakeProducer \/ UNCHANGED <<sem_prod, nr_prod_waiting>>
          /\ sem_cons' = sem_cons
      BY <2>1 DEF OpenConsumer, InHandler, WaitsAsConsumer
    <3>2. CASE BlockConsumer(p)
      <4>1. Frame(p) /\ ConsumerOp(p) /\ WaitsAsConsumer(p)'
        BY <3>1, <3>2, <1>7 DEF BlockConsumer
      <4> QED BY <3>1, <4>1, <1>6, <1>10
    <3>3. CASE UnlockReturn(p, "opened", 0) /\ UNCHANGED nr_cons_waiting
      <4>1. Frame(p) /\ pc'[p] = "opened" BY <3>3, <1>9 DEF UnlockReturn
      <4> QED BY <3>1, <3>3, <4>1, <1>5, <1>6
    <3> QED BY <2>1, <3>2, <3>3 DEF OpenConsumer
  <2>2. CASE OpenProducer(p)
    <3>1. /\ pc[p] \in {"lock", "relock"} /\ WaitsAsProducer(p)
          /\ WakeConsumer \/ UNCHANGED <<sem_cons, nr_cons_waiting>>
          /\ sem_prod' = sem_prod
      BY <2>2 DEF OpenProducer, InHandler, WaitsAsProducer
    <3>2. CASE BlockProducer(p)
      <4>1. Frame(p) /\ ProducerOp(p) /\ WaitsAsProducer(p)'
        BY <3>1, <3>2, <1>8 DEF BlockProducer
      <4> QED BY <3>1, <4>1, <1>5, <1>10
    <3>3. CASE UnlockReturn(p, "opened", 0) /\ UNCHANGED nr_prod_waiting
      <4>1. Frame(p) /\ pc'[p] = "opened" BY <3>3, <1>9 DEF UnlockReturn
      <4> QED BY <3>1, <3>3, <4>1, <1>5, <1>6
    <3> QED BY <2>2, <3>2, <3>3 DEF OpenProducer
  <2>3. CASE Release(p)
    <3>1. /\ pc[p] \in {"lock", "relock"}
          /\ WakeConsumer \/ UNCHANGED <<sem_cons, nr_cons_waiting>>
          /\ WakeProducer \/ UNCHANGED <<sem_prod, nr_prod_waiting>>
      BY <2>3 DEF Release, InHandler
    <3>2. Frame(p) /\ pc'[p] = "closed"
      BY <2>3, <1>9 DEF Release, UnlockReturn
    <3> QED BY <3>1, <3>2, <1>5, <1>6
  <2>4. CASE ReadWait(p)
    <3>1. /\ pc[p] \in {"lock", "relock"} /\ WaitsAsConsumer(p)
          /\ Block(p) /\ nr_cons_waiting' = nr_cons_waiting + 1
          /\ UNCHANGED <<sem_cons, sem_prod, nr_prod_waiting>>
      BY <2>4 DEF ReadWait, BlockConsumer, InHandler, WaitsAsConsumer, queues
    <3>2. Frame(p) /\ ConsumerOp(p) /\ WaitsAsConsumer(p)' BY <3>1, <1>7
    <3> QED BY <3>1, <3>2, <1>6, <1>10
  <2>5. CASE ReadEOF(p) \/ WriteEPIPE(p)
    <3>1. pc[p] \in {"lock", "relock"} /\ UNCHANGED <<queues, waiting>>
      BY <2>5 DEF ReadEOF, WriteEPIPE, InHandler, shared
    <3>2. Frame(p) /\ pc'[p] = "opened"
      BY <2>5, <1>9 DEF ReadEOF, WriteEPIPE, UnlockReturn
    <3> QED BY <3>1, <3>2, <1>4
  <2>6. CASE ReadTake(p)
    <3>1. /\ pc[p] \in {"lock", "relock"} /\ WakeProducer
          /\ UNCHANGED <<sem_cons, nr_cons_waiting>>
          /\ Frame(p) /\ pc'[p] = "copy"
      BY <2>6, <1>2 DEF ReadTake, InHandler, Frame
    <3> QED BY <3>1, <1>5, <1>6
  <2>7. CASE ReadCopy(p)
    <3>1. pc[p] = "copy" /\ UNCHANGED <<queues, waiting>>
      BY <2>7 DEF ReadCopy, shared
    <3>2. Frame(p) /\ pc'[p] = "opened" BY <2>7, <1>9 DEF ReadCopy
    <3> QED BY <3>1, <3>2, <1>4
  <2>8. CASE WriteWait(p)
    <3>1. /\ pc[p] \in {"lock", "relock"} /\ WaitsAsProducer(p)
          /\ Block(p) /\ nr_prod_waiting' = nr_prod_waiting + 1
          /\ UNCHANGED <<sem_cons, sem_prod, nr_cons_waiting>>
      BY <2>8 DEF WriteWait, BlockProducer, InHandler, WaitsAsProducer, queues
    <3>2. Frame(p) /\ ProducerOp(p) /\ WaitsAsProducer(p)' BY <3>1, <1>8
    <3> QED BY <3>1, <3>2, <1>5, <1>10
  <2>9. CASE WritePut(p)
    <3>1. /\ pc[p] \in {"lock", "relock"} /\ WakeConsumer
          /\ UNCHANGED <<sem_prod, nr_prod_waiting>>
      BY <2>9 DEF WritePut, InHandler
    <3>2. Frame(p) /\ pc'[p] = "opened"
      BY <2>9, <1>9 DEF WritePut, UnlockReturn
    <3> QED BY <3>1, <3>2, <1>5, <1>6
  <2>10. CASE Sleep(p)
    <3>1. /\ pc[p] = "presleep" /\ pc'[p] = "sleep" /\ Frame(p)
          /\ UNCHANGED <<nr_cons_waiting, nr_prod_waiting>>
          /\ (WaitsAsConsumer(p)' <=> WaitsAsConsumer(p))
          /\ (WaitsAsProducer(p)' <=> WaitsAsProducer(p))
      BY <2>10, <1>2 DEF Sleep, Frame, waiting, WaitsAsConsumer, WaitsAsProducer
    <3>2. CASE WaitsAsConsumer(p) /\ sem_cons' = Down(sem_cons, p) /\ UNCHANGED sem_prod
      <4>1. ConsumerOp(p) BY <3>1, <3>2 DEF ConsumerOp
      <4>2. ProducerOp(p) BY <3>1, <3>2, <1>1, OneQueue DEF ProducerOp
      <4> QED BY <3>1, <4>1, <4>2
    <3>3. CASE WaitsAsProducer(p) /\ sem_prod' = Down(sem_prod, p) /\ UNCHANGED sem_cons
      <4>1. ProducerOp(p) BY <3>1, <3>3 DEF ProducerOp
      <4>2. ConsumerOp(p) BY <3>1, <3>3, <1>1, OneQueue DEF ConsumerOp
      <4> QED BY <3>1, <4>1, <4>2
    <3> QED BY <2>10, <3>2, <3>3 DEF Sleep
  <2>11. CASE Woken(p)
    <3>1. /\ pc[p] = "sleep" /\ pc'[p] = "relock" /\ Frame(p)
          /\ UNCHANGED <<sem_cons, sem_prod, nr_cons_waiting, nr_prod_waiting>>
      BY <2>11, <1>2 DEF Woken, Frame, shared, queues, waiting
    <3>2. ~Waiting(sem_cons, p) /\ ~Waiting(sem_prod, p)
      BY <2>11, <1>1 DEF Woken, Asleep
    <3> QED BY <3>1, <3>2 DEF ConsumerOp, ProducerOp
  <2>12. CASE Undo(p)
    <3>1. /\ pc[p] = "undo" /\ UNCHANGED <<sem_cons, sem_prod>>
          /\ Return(p, AfterEINTR(p), EINTR)
      BY <2>12 DEF Undo, queues, UnlockReturn
    <3>2. Frame(p) /\ pc'[p] \in {"closed", "opened"}
      BY <3>1, <1>9 DEF AfterEINTR
    <3>3. CASE /\ WaitsAsConsumer(p) /\ nr_cons_waiting' = nr_cons_waiting - 1
               /\ UNCHANGED nr_prod_waiting
      <4>1. ConsumerOp(p) BY <3>1, <3>2, <3>3 DEF ConsumerOp
      <4>2. ProducerOp(p) BY <3>1, <3>2, <3>3, <1>1, OneQueue DEF ProducerOp
      <4> QED BY <3>2, <4>1, <4>2
    <3>4. CASE /\ WaitsAsProducer(p) /\ nr_prod_waiting' = nr_prod_waiting - 1
               /\ UNCHANGED nr_cons_waiting
      <4>1. ProducerOp(p) BY <3>1, <3>2, <3>4 DEF ProducerOp
      <4>2. ConsumerOp(p) BY <3>1, <3>2, <3>4, <1>1, OneQueue DEF ConsumerOp
      <4> QED BY <3>2, <4>1, <4>2
    <3> QED BY <2>12, <3>3, <3>4 DEF Undo
  <2> QED
    BY <1>12, <2>1, <2>2, <2>3, <2>4, <2>5, <2>6, <2>7, <2>8, <2>9, <2>10, <2>11,
       <2>12 DEF Run
<1>13. CASE Interrupt(p)
  <2>1. CASE InterruptSleep(p)
    <3>1. /\ pc[p] = "sleep" /\ pc'[p] = "undo" /\ Frame(p)
          /\ UNCHANGED <<nr_cons_waiting, nr_prod_waiting>>
          /\ (WaitsAsConsumer(p)' <=> WaitsAsConsumer(p))
          /\ (WaitsAsProducer(p)' <=> WaitsAsProducer(p))
      BY <2>1, <1>2 DEF InterruptSleep, Asleep, Frame, waiting, WaitsAsConsumer,
                        WaitsAsProducer
    <3>2. CASE WaitsAsConsumer(p) /\ sem_cons' = Cancel(sem_cons, p) /\ UNCHANGED sem_prod
      <4>1. Waiting(sem_cons, p)
        BY <2>1, <3>2, OneQueue DEF InterruptSleep, Asleep
      <4>2. ConsumerOp(p) BY <3>1, <3>2, <4>1 DEF ConsumerOp
      <4>3. ProducerOp(p) BY <3>1, <3>2, <1>1, OneQueue DEF ProducerOp
      <4> QED BY <3>1, <4>2, <4>3
    <3>3. CASE WaitsAsProducer(p) /\ sem_prod' = Cancel(sem_prod, p) /\ UNCHANGED sem_cons
      <4>1. Waiting(sem_prod, p)
        BY <2>1, <3>3, OneQueue DEF InterruptSleep, Asleep
      <4>2. ProducerOp(p) BY <3>1, <3>3, <4>1 DEF ProducerOp
      <4>3. ConsumerOp(p) BY <3>1, <3>3, <1>1, OneQueue DEF ConsumerOp
      <4> QED BY <3>1, <4>2, <4>3
    <3> QED BY <2>1, <3>2, <3>3 DEF InterruptSleep
  <2>2. CASE InterruptLock(p)
    <3>1. pc[p] \in {"lock", "relock"} /\ UNCHANGED <<queues, waiting>>
      BY <2>2 DEF InterruptLock, shared
    <3>2. Frame(p) /\ pc'[p] \in {"closed", "opened"}
      BY <2>2, <1>9 DEF InterruptLock, AfterEINTR
    <3> QED BY <3>1, <3>2, <1>4
  <2> QED BY <1>13, <2>1, <2>2 DEF Interrupt
<1> QED BY <1>11, <1>12, <1>13

LEMMA NextQueues ==
    TypeOK /\ ConsumerQueue /\ ProducerQueue /\ [Next]_vars
    => ConsumerQueue' /\ ProducerQueue'
<1> SUFFICES ASSUME TypeOK, ConsumerQueue, ProducerQueue, [Next]_vars
             PROVE  ConsumerQueue' /\ ProducerQueue'
  OBVIOUS
<1>1. CASE UNCHANGED vars
  <2>1. /\ UNCHANGED <<sem_cons, sem_prod, nr_cons_waiting, nr_prod_waiting, pc, call>>
        /\ UNCHANGED <<ConsumersQueued, ProducersQueued>>
    BY <1>1 DEF vars, shared, queues, waiting, ConsumersQueued, ProducersQueued,
                OnQueue, Asleep, WaitsAsConsumer, WaitsAsProducer
  <2> QED
    BY <2>1 DEF ConsumerQueue, ProducerQueue, Accounted, WaitsAsConsumer,
                WaitsAsProducer
<1>2. CASE Next
  BY <1>2, QueueSteps, ConsumerQueueStep, ProducerQueueStep DEF Next
<1> QED BY <1>1, <1>2

LEMMA InitQueues == Init => ConsumerQueue /\ ProducerQueue
<1> SUFFICES ASSUME Init PROVE ConsumerQueue /\ ProducerQueue OBVIOUS
<1>1. /\ sem_cons.count = 0 /\ sem_cons.waiters = << >>
      /\ sem_prod.count = 0 /\ sem_prod.waiters = << >>
  BY DEF Init, SemInit
<1>2. \A p : ~Waiting(sem_cons, p) /\ ~Waiting(sem_prod, p) BY <1>1 DEF Waiting
<1>3. InOrder(sem_cons) /\ InOrder(sem_prod) BY <1>1 DEF InOrder, NoTwice
<1>4. ConsumersQueued = {} /\ ProducersQueued = {}
  BY DEF Init, ConsumersQueued, ProducersQueued, OnQueue, Asleep
<1>5. Cardinality({}) = 0 BY FS_EmptySet
<1>6. TypeOK BY InitTypeOK
<1> QED
  BY <1>1, <1>2, <1>3, <1>4, <1>5, <1>6
  DEF ConsumerQueue, ProducerQueue, Accounted, TypeOK, Init

\* A process asleep is in the account, so it is no more than the counter.
LEMMA AccountedSleepers ==
    ASSUME NEW s, NEW nr, NEW Q, Accounted(s, nr, Q), s.waiters # << >>
    PROVE  Len(s.waiters) <= nr
<1>1. s.waiters \in Seq(Procs) /\ s.count \in Nat BY DEF Accounted, Semaphores
<1>2. IsFiniteSet(Q) BY FS_Subset DEF Accounted, Procs
<1>3. Cardinality(Q) \in Nat BY <1>2, FS_CardinalityType
<1>4. s.count = 0 BY <1>1 DEF Accounted, InOrder
<1> DEFINE n == Len(s.waiters)
<1>5. /\ n \in Nat /\ DOMAIN s.waiters = 1 .. n
      /\ \A i \in 1 .. n : s.waiters[i] \in Procs
  BY <1>1, LenProperties, ElementOfSeq
<1>6. \A i \in 1 .. n : s.waiters[i] \in Q BY <1>5 DEF Accounted, Waiting
<1>7. s.waiters \in Injection(1 .. n, Q)
  <2>1. s.waiters \in [1 .. n -> Q] BY <1>1, <1>5, <1>6, LenProperties
  <2>2. \A i, j \in 1 .. n : s.waiters[i] = s.waiters[j] => i = j
    BY <1>5 DEF Accounted, InOrder, NoTwice
  <2> QED BY <2>1, <2>2 DEF Injection, IsInjective
<1>8. Cardinality(1 .. n) = n /\ IsFiniteSet(1 .. n) BY <1>5, FS_Interval
<1>9. Cardinality(1 .. n) <= Cardinality(Q)
  BY <1>2, <1>7, FS_Injection
<1> QED BY <1>3, <1>4, <1>8, <1>9 DEF Accounted

\* The counters and the queues agree up to the ups nobody has consumed yet,
\* and whoever is in a queue can be woken, whatever waits were interrupted.
THEOREM WaitersAreAccounted == Spec => []WaitAccounting
<1>1. Init => TypeOK /\ ConsumerQueue /\ ProducerQueue BY InitTypeOK, InitQueues
<1>2. TypeOK /\ ConsumerQueue /\ ProducerQueue /\ [Next]_vars
      => (TypeOK /\ ConsumerQueue /\ ProducerQueue)'
  BY NextTypeOK, NextQueues
<1>3. ConsumerQueue /\ ProducerQueue => WaitAccounting
  BY AccountedSleepers
  DEF ConsumerQueue, ProducerQueue, Accounted, WaitAccounting, SleepersAreCounted
<1> QED BY <1>1, <1>2, <1>3, PTL DEF Spec

-----------------------------------------------------------------------------
(* The counts of open ends. *)

\* Which handler a process may be in, at each point of it.
InPlace(p) ==
    /\ pc[p] \in {"closed", "opened"} <=> call[p] = "none"
    /\ pc[p] \in {"presleep", "sleep", "relock", "undo"} => call[p] \in {"open", "read", "write"}
    /\ pc[p] = "copy" => call[p] = "read"

\* An interrupted read() or write() that is still to uncount an end.
Undoing(p) == pc[p] = "undo" /\ call[p] # "open"

ReadEnds  == {p \in Readers : Counted(p)}
WriteEnds == {p \in Writers \ Readers : Counted(p)}
Undoings  == {p \in Procs : Undoing(p)}

\* Signals pay for the drift there is, and for the one that is certain to come.
DriftInv ==
    /\ \A p \in Procs : InPlace(p)
    /\ Distance(cons_count, Cardinality(ReadEnds))
         + Distance(prod_count, Cardinality(WriteEnds)) + Cardinality(Undoings) <= signals

Bit(b) == IF b THEN 1 ELSE 0

\* p comes into a set, or leaves it, and nobody else does.
LEMMA OneMoves ==
    ASSUME NEW A, NEW B, IsFiniteSet(A), IsFiniteSet(B), NEW p, A \ {p} = B \ {p}
    PROVE  /\ Cardinality(A) \in Nat /\ Cardinality(B) \in Nat
           /\ Cardinality(B) = Cardinality(A) + Bit(p \in B) - Bit(p \in A)
<1> DEFINE C == A \ {p}
<1>1. Cardinality(C) \in Nat /\ IsFiniteSet(C) BY FS_RemoveElement, FS_CardinalityType
<1>2. p \notin C /\ Cardinality(C \cup {p}) = Cardinality(C) + 1 BY <1>1, FS_AddElement
<1>3. A = C \/ A = C \cup {p} OBVIOUS
<1>4. B = C \/ B = C \cup {p} OBVIOUS
<1>5. (p \in A <=> A = C \cup {p}) /\ (p \in B <=> B = C \cup {p}) OBVIOUS
<1> HIDE DEF C
<1>6. Cardinality(A) = Cardinality(C) + Bit(p \in A) BY <1>1, <1>2, <1>3, <1>5 DEF Bit
<1>7. Cardinality(B) = Cardinality(C) + Bit(p \in B) BY <1>1, <1>2, <1>4, <1>5 DEF Bit
<1>8. Bit(p \in A) \in {0, 1} /\ Bit(p \in B) \in {0, 1} BY DEF Bit
<1> QED BY <1>1, <1>6, <1>7, <1>8

\* What a step of p does to the counts, to its own place and to the signals.
Ends(p, dc, dp, counted, after, undoing, later, ds) ==
    /\ cons_count' = cons_count + dc /\ prod_count' = prod_count + dp
    /\ Counted(p) = counted /\ (Counted(p))' = after
    /\ Undoing(p) = undoing /\ (Undoing(p))' = later
    /\ signals' = signals + ds

EndKind(p) ==
    LET r == Bit(p \in Readers)
        w == Bit(p \notin Readers)
    IN  \/ \E c \in BOOLEAN : Ends(p, 0, 0, c, c, FALSE, FALSE, 0)
        \/ Ends(p, r, w, FALSE, TRUE, FALSE, FALSE, 0)
        \/ Ends(p, 0 - r, 0 - w, TRUE, FALSE, FALSE, FALSE, 0)
        \/ \E u \in BOOLEAN : Ends(p, 0, 0, TRUE, TRUE, FALSE, u, 1)
        \/ Ends(p, 0 - 1, 0, TRUE, TRUE, TRUE, FALSE, 0)
        \/ Ends(p, 0, 0 - 1, TRUE, TRUE, TRUE, FALSE, 0)
        \/ \E c, d \in BOOLEAN : Ends(p, 0, 0, c, d, FALSE, FALSE, 1)

LEMMA EndSteps ==
    ASSUME TypeOK, NEW p \in Procs, InPlace(p), Call(p) \/ Run(p) \/ Interrupt(p)
    PROVE  /\ EndKind(p) /\ (InPlace(p))'
           /\ \A q \in Procs : q # p => pc'[q] = pc[q] /\ call'[q] = call[q]
<1>1. /\ cons_count + 0 = cons_count /\ prod_count + 0 = prod_count /\ signals + 0 = signals
      /\ pc \in [Procs -> PCs] /\ call \in [Procs -> Calls]
      /\ cons_count \in Int /\ prod_count \in Int /\ signals \in Int
  BY DEF TypeOK
<1> DEFINE Rest == \A q \in Procs : q # p => pc'[q] = pc[q] /\ call'[q] = call[q]
<1> USE DEF InPlace, Ends, Counted, Undoing
<1>2. CASE Call(p)
  <2>1. PICK h \in {"open", "release", "read", "write"} :
           /\ pc[p] = (IF h = "open" THEN "closed" ELSE "opened")
           /\ pc' = [pc EXCEPT ![p] = "lock"] /\ call' = [call EXCEPT ![p] = h]
           /\ UNCHANGED <<cons_count, prod_count, signals>>
    BY <1>2 DEF Call, CallOpen, CallRelease, CallRead, CallWrite, Enter, shared, counters
  <2>2. pc'[p] = "lock" /\ call'[p] = h /\ call[p] = "none" /\ Rest BY <1>1, <2>1
  <2>3. \E c \in BOOLEAN : Ends(p, 0, 0, c, c, FALSE, FALSE, 0) BY <1>1, <2>1, <2>2
  <2> QED BY <2>2, <2>3 DEF EndKind
<1>3. CASE OpenConsumer(p) \/ OpenProducer(p)
  <2>1. /\ pc[p] \in {"lock", "relock"} /\ call[p] = "open"
        /\ \/ pc' = [pc EXCEPT ![p] = "presleep"] /\ call' = call
           \/ pc' = [pc EXCEPT ![p] = "opened"] /\ call' = [call EXCEPT ![p] = "none"]
        /\ signals' = signals
        /\ cons_count' = IF pc[p] = "lock" THEN cons_count + Bit(p \in Readers) ELSE cons_count
        /\ prod_count' = IF pc[p] = "lock" THEN prod_count + Bit(p \notin Readers) ELSE prod_count
    BY <1>1, <1>3
    DEF OpenConsumer, OpenProducer, InHandler, FirstPass, BlockConsumer, BlockProducer, Block,
        UnlockReturn, Return, Bit
  <2>2. /\ \/ pc'[p] = "presleep" /\ call'[p] = "open"
           \/ pc'[p] = "opened" /\ call'[p] = "none"
        /\ Rest
    BY <1>1, <2>1
  <2>3. CASE pc[p] = "lock"
    <3>1. Ends(p, Bit(p \in Readers), Bit(p \notin Readers), FALSE, TRUE, FALSE, FALSE, 0)
      BY <1>1, <2>1, <2>2, <2>3
    <3> QED BY <2>2, <3>1 DEF EndKind
  <2>4. CASE pc[p] = "relock"
    <3>1. Ends(p, 0, 0, TRUE, TRUE, FALSE, FALSE, 0) BY <1>1, <2>1, <2>2, <2>4
    <3> QED BY <2>2, <3>1 DEF EndKind
  <2> QED BY <2>1, <2>3, <2>4
<1>4. CASE Release(p)
  <2>1. /\ call[p] = "release" /\ pc[p] \in {"lock", "relock"}
        /\ pc' = [pc EXCEPT ![p] = "closed"] /\ call' = [call EXCEPT ![p] = "none"]
        /\ signals' = signals
        /\ cons_count' = cons_count + (0 - Bit(p \in Readers))
        /\ prod_count' = prod_count + (0 - Bit(p \notin Readers))
    BY <1>1, <1>4 DEF Release, InHandler, UnlockReturn, Return, Bit
  <2>2. pc'[p] = "closed" /\ call'[p] = "none" /\ Rest BY <1>1, <2>1
  <2>3. Ends(p, 0 - Bit(p \in Readers), 0 - Bit(p \notin Readers), TRUE, FALSE, FALSE, FALSE, 0)
    BY <1>1, <2>1, <2>2
  <2> QED BY <2>2, <2>3 DEF EndKind
<1>5. CASE \/ ReadWait(p) \/ ReadEOF(p) \/ ReadTake(p) \/ ReadCopy(p)
           \/ WriteWait(p) \/ WriteEPIPE(p) \/ WritePut(p)
  <2>1. /\ call[p] \in {"read", "write"} /\ pc[p] \in {"lock", "relock", "copy"}
        /\ \/ pc' = [pc EXCEPT ![p] = "presleep"] /\ call' = call
           \/ pc' = [pc EXCEPT ![p] = "opened"] /\ call' = [call EXCEPT ![p] = "none"]
           \/ pc' = [pc EXCEPT ![p] = "copy"] /\ call' = call /\ call[p] = "read"
        /\ UNCHANGED <<cons_count, prod_count, signals>>
    BY <1>5
    DEF ReadWait, ReadEOF, ReadTake, ReadCopy, WriteWait, WriteEPIPE, WritePut, InHandler,
        BlockConsumer, BlockProducer, Block, UnlockReturn, Return, counters, shared
  <2>2. /\ \/ pc'[p] = "presleep" /\ call'[p] = call[p]
           \/ pc'[p] = "opened" /\ call'[p] = "none"
           \/ pc'[p] = "copy" /\ call'[p] = "read"
        /\ Rest
    BY <1>1, <2>1
  <2>3. Ends(p, 0, 0, TRUE, TRUE, FALSE, FALSE, 0) BY <1>1, <2>1, <2>2
  <2> QED BY <2>1, <2>2, <2>3 DEF EndKind
<1>6. CASE Sleep(p) \/ Woken(p)
  <2>1. /\ pc[p] \in {"presleep", "sleep"}
        /\ \/ pc' = [pc EXCEPT ![p] = "sleep"]
           \/ pc' = [pc EXCEPT ![p] = "relock"]
        /\ UNCHANGED <<call, cons_count, prod_count, signals>>
    BY <1>6 DEF Sleep, Woken, counters, shared
  <2>2. pc'[p] \in {"sleep", "relock"} /\ call'[p] = call[p] /\ Rest BY <1>1, <2>1
  <2>3. Ends(p, 0, 0, TRUE, TRUE, FALSE, FALSE, 0) BY <1>1, <2>1, <2>2
  <2> QED BY <2>1, <2>2, <2>3 DEF EndKind
<1>7. CASE Undo(p)
  <2>1. /\ pc[p] = "undo" /\ call[p] \in {"open", "read", "write"}
        /\ pc' = [pc EXCEPT ![p] = IF call[p] = "open" THEN "closed" ELSE "opened"]
        /\ call' = [call EXCEPT ![p] = "none"]
        /\ signals' = signals
        /\ \/ /\ call[p] = "read" \/ (call[p] = "open" /\ p \in Readers)
              /\ cons_count' = cons_count + (0 - 1) /\ prod_count' = prod_count + 0
           \/ /\ call[p] = "write" \/ (call[p] = "open" /\ p \notin Readers)
              /\ prod_count' = prod_count + (0 - 1) /\ cons_count' = cons_count + 0
    <3>1. /\ pc[p] = "undo" /\ pc' = [pc EXCEPT ![p] = AfterEINTR(p)]
          /\ call' = [call EXCEPT ![p] = "none"] /\ signals' = signals
      BY <1>7 DEF Undo, UnlockReturn, Return
    <3>2. call[p] \in {"open", "read", "write"} BY <3>1
    <3>3. \/ /\ WaitsAsConsumer(p)
             /\ cons_count' = cons_count - 1 /\ prod_count' = prod_count
          \/ /\ WaitsAsProducer(p)
             /\ prod_count' = prod_count - 1 /\ cons_count' = cons_count
      BY <1>7 DEF Undo
    <3>4. AfterEINTR(p) = IF call[p] = "open" THEN "closed" ELSE "opened"
      BY <3>2 DEF AfterEINTR
    <3>5. /\ cons_count - 1 = cons_count + (0 - 1) /\ prod_count - 1 = prod_count + (0 - 1)
      BY <1>1
    <3> QED BY <1>1, <3>1, <3>2, <3>3, <3>4, <3>5 DEF WaitsAsConsumer, WaitsAsProducer
  <2>2. /\ pc'[p] = (IF call[p] = "open" THEN "closed" ELSE "opened") /\ call'[p] = "none"
        /\ Rest
    BY <1>1, <2>1
  <2>3. CASE call[p] = "open"
    <3>1. Ends(p, 0 - Bit(p \in Readers), 0 - Bit(p \notin Readers), TRUE, FALSE, FALSE, FALSE, 0)
      BY <1>1, <2>1, <2>2, <2>3 DEF Bit
    <3> QED BY <2>2, <2>3, <3>1 DEF EndKind
  <2>4. CASE call[p] # "open"
    <3>1. \/ Ends(p, 0 - 1, 0, TRUE, TRUE, TRUE, FALSE, 0)
          \/ Ends(p, 0, 0 - 1, TRUE, TRUE, TRUE, FALSE, 0)
      BY <1>1, <2>1, <2>2, <2>4
    <3> QED BY <2>2, <2>4, <3>1 DEF EndKind
  <2> QED BY <2>3, <2>4
<1>8. CASE InterruptSleep(p)
  <2>1. /\ pc[p] = "sleep" /\ pc' = [pc EXCEPT ![p] = "undo"] /\ signals' = signals + 1
        /\ UNCHANGED <<call, cons_count, prod_count>>
    BY <1>8 DEF InterruptSleep, Asleep, counters
  <2>2. pc'[p] = "undo" /\ call'[p] = call[p] /\ Rest BY <1>1, <2>1
  <2>3. \E u \in BOOLEAN : Ends(p, 0, 0, TRUE, TRUE, FALSE, u, 1) BY <1>1, <2>1, <2>2
  <2> QED BY <2>1, <2>2, <2>3 DEF EndKind
<1>9. CASE InterruptLock(p)
  <2>1. /\ pc[p] \in {"lock", "relock"} /\ signals' = signals + 1
        /\ pc' = [pc EXCEPT ![p] = AfterEINTR(p)] /\ call' = [call EXCEPT ![p] = "none"]
        /\ UNCHANGED <<cons_count, prod_count>>
    BY <1>9 DEF InterruptLock, Return, counters, shared
  <2>2. pc'[p] \in {"closed", "opened"} /\ call'[p] = "none" /\ Rest
    BY <1>1, <2>1 DEF AfterEINTR
  <2>3. \E c, d \in BOOLEAN : Ends(p, 0, 0, c, d, FALSE, FALSE, 1) BY <1>1, <2>1, <2>2
  <2> QED BY <2>2, <2>3 DEF EndKind
<1> QED
  BY <1>2, <1>3, <1>4, <1>5, <1>6, <1>7, <1>8, <1>9 DEF Run, Interrupt

LEMMA NextDrift == TypeOK /\ DriftInv /\ [Next]_vars => DriftInv'
<1> SUFFICES ASSUME TypeOK, DriftInv, [Next]_vars PROVE DriftInv' OBVIOUS
<1>1. CASE UNCHANGED vars
  BY <1>1
  DEF vars, shared, counters, DriftInv, InPlace, Counted, Undoing, ReadEnds, WriteEnds, Undoings
<1>2. CASE Next
  <2>1. PICK p \in Procs : Call(p) \/ Run(p) \/ Interrupt(p) BY <1>2 DEF Next
  <2>2. /\ EndKind(p) /\ (InPlace(p))'
        /\ \A q \in Procs : q # p => pc'[q] = pc[q] /\ call'[q] = call[q]
    BY <2>1, EndSteps DEF DriftInv
  <2>3. \A q \in Procs : (InPlace(q))' BY <2>2 DEF DriftInv, InPlace
  <2>4. \A q \in Procs : q # p => (Counted(q) <=> (Counted(q))') /\ (Undoing(q) <=> (Undoing(q))')
    BY <2>2 DEF Counted, Undoing
  <2>5. /\ IsFiniteSet(ReadEnds) /\ IsFiniteSet(ReadEnds')
        /\ IsFiniteSet(WriteEnds) /\ IsFiniteSet(WriteEnds')
        /\ IsFiniteSet(Undoings) /\ IsFiniteSet(Undoings')
    <3>1. /\ ReadEnds \subseteq Procs /\ ReadEnds' \subseteq Procs
          /\ WriteEnds \subseteq Procs /\ WriteEnds' \subseteq Procs
          /\ Undoings \subseteq Procs /\ Undoings' \subseteq Procs
      BY DEF ReadEnds, WriteEnds, Undoings, Procs
    <3>2. IsFiniteSet(Procs) BY DEF Procs
    <3> QED BY <3>1, <3>2, FS_Subset
  <2>6. /\ ReadEnds \ {p} = ReadEnds' \ {p} /\ WriteEnds \ {p} = WriteEnds' \ {p}
        /\ Undoings \ {p} = Undoings' \ {p}
    BY <2>4 DEF ReadEnds, WriteEnds, Undoings, Procs
  <2>7. /\ p \in ReadEnds <=> p \in Readers /\ Counted(p)
        /\ p \in ReadEnds' <=> p \in Readers /\ (Counted(p))'
        /\ p \in WriteEnds <=> p \notin Readers /\ Counted(p)
        /\ p \in WriteEnds' <=> p \notin Readers /\ (Counted(p))'
        /\ p \in Undoings <=> Undoing(p)
        /\ p \in Undoings' <=> (Undoing(p))'
    BY DEF ReadEnds, WriteEnds, Undoings, Procs
  <2> DEFINE r == Cardinality(ReadEnds)
             w == Cardinality(WriteEnds)
             u == Cardinality(Undoings)
             r2 == Cardinality(ReadEnds')
             w2 == Cardinality(WriteEnds')
             u2 == Cardinality(Undoings')
  <2>8. /\ r \in Nat /\ r2 \in Nat /\ r2 = r + Bit(p \in ReadEnds') - Bit(p \in ReadEnds)
        /\ w \in Nat /\ w2 \in Nat /\ w2 = w + Bit(p \in WriteEnds') - Bit(p \in WriteEnds)
        /\ u \in Nat /\ u2 \in Nat /\ u2 = u + Bit(p \in Undoings') - Bit(p \in Undoings)
    BY <2>5, <2>6, OneMoves
  <2>9. /\ Distance(cons_count, r) + Distance(prod_count, w) + u <= signals
        /\ cons_count \in Int /\ prod_count \in Int /\ signals \in Int
    BY DEF DriftInv, TypeOK
  <2> HIDE DEF r, w, u, r2, w2, u2
  <2>10. Distance(cons_count', r2) + Distance(prod_count', w2) + u2 <= signals'
    BY <2>2, <2>7, <2>8, <2>9, SMTT(60) DEF EndKind, Ends, Bit, Distance
  <2> QED BY <2>3, <2>10 DEF DriftInv, r2, w2, u2
<1> QED BY <1>1, <1>2

LEMMA InitDrift == Init => DriftInv
<1> SUFFICES ASSUME Init PROVE DriftInv OBVIOUS
<1>1. \A p \in Procs : InPlace(p) /\ ~Counted(p) /\ ~Undoing(p)
  BY DEF Init, InPlace, Counted, Undoing
<1>2. ReadEnds = {} /\ WriteEnds = {} /\ Undoings = {}
  BY <1>1 DEF ReadEnds, WriteEnds, Undoings, Procs
<1>3. Cardinality({}) = 0 BY FS_EmptySet
<1> QED BY <1>1, <1>2, <1>3 DEF Init, DriftInv, Distance

\* The counts of ends are those of the processes that have the pipe open, give
\* or take one for each interrupted wait, for any processes and signals.
THEOREM CountsAreNearlyRight == Spec => []CountsDriftBySignals
<1>1. Init => TypeOK /\ DriftInv BY InitTypeOK, InitDrift
<1>2. TypeOK /\ DriftInv /\ [Next]_vars => (TypeOK /\ DriftInv)' BY NextTypeOK, NextDrift
<1>3. TypeOK /\ DriftInv => CountsDriftBySignals
  <2> SUFFICES ASSUME TypeOK, DriftInv PROVE CountsDriftBySignals OBVIOUS
  <2>1. IsFiniteSet(Undoings) /\ IsFiniteSet(ReadEnds) /\ IsFiniteSet(WriteEnds)
    <3>1. Undoings \subseteq Procs /\ ReadEnds \subseteq Procs /\ WriteEnds \subseteq Procs
      BY DEF Undoings, ReadEnds, WriteEnds, Procs
    <3>2. IsFiniteSet(Procs) BY DEF Procs
    <3> QED BY <3>1, <3>2, FS_Subset
  <2>2. /\ Cardinality(Undoings) \in Nat /\ Cardinality(ReadEnds) \in Nat
        /\ Cardinality(WriteEnds) \in Nat
    BY <2>1, FS_CardinalityType
  <2> QED BY <2>2, SMTT(30) DEF DriftInv, CountsDriftBySignals, Distance, TypeOK, ReadEnds, WriteEnds
<1> QED BY <1>1, <1>2, <1>3, PTL DEF Spec

-----------------------------------------------------------------------------
(* The monitor of the pseudocode. *)

\* p is in the loop of a handler, past its first test.
OnCons(p) == InWait(p) /\ WaitsAsConsumer(p)
OnProd(p) == InWait(p) /\ WaitsAsProducer(p)

ConsWaiters == {q \in Procs : InWait(q) /\ WaitsAsConsumer(q)}
ProdWaiters == {q \in Procs : InWait(q) /\ WaitsAsProducer(q)}

LEMMA MonitorProcs ==
    ASSUME TypeOK
    PROVE  /\ Monitor!Procs = Procs /\ \A p \in Procs : at[p] = MonitorAt(p)
           /\ Monitor!ConsWaiters = ConsWaiters /\ Monitor!ProdWaiters = ProdWaiters
<1>1. Monitor!Procs = Procs BY DEF Monitor!Procs, Procs
<1>2. \A p \in Procs : at[p] = MonitorAt(p) BY DEF at
<1>3. \A p \in Procs : at[p] = "wait" <=> InWait(p) BY <1>2 DEF MonitorAt, InWait, TypeOK, PCs
<1> HIDE DEF at
<1>4. Monitor!ConsWaiters = ConsWaiters
  BY <1>1, <1>3 DEF Monitor!ConsWaiters, Monitor!OnCons, ConsWaiters, WaitsAsConsumer
<1>5. Monitor!ProdWaiters = ProdWaiters
  BY <1>1, <1>3 DEF Monitor!ProdWaiters, Monitor!OnProd, ProdWaiters, WaitsAsProducer
<1> QED BY <1>1, <1>2, <1>4, <1>5

LEMMA FiniteWaiters == IsFiniteSet(ConsWaiters) /\ IsFiniteSet(ProdWaiters)
<1>1. IsFiniteSet(Procs) BY DEF Procs
<1>2. ConsWaiters \subseteq Procs /\ ProdWaiters \subseteq Procs BY DEF ConsWaiters, ProdWaiters
<1> QED BY <1>1, <1>2, FS_Subset

\* How a step of p moves what the monitor sees: the place of p, and the signals
\* not used yet, by what p and the counters do.
LEMMA MonitorMoves ==
    ASSUME TypeOK, TypeOK', NEW p \in Procs, Frame(p)
    PROVE  /\ at' = [at EXCEPT ![p] = (MonitorAt(p))']
           /\ cons \in Int /\ prod \in Int
           /\ cons' = cons + Bit((OnCons(p))') - Bit(OnCons(p))
                        - (nr_cons_waiting' - nr_cons_waiting)
           /\ prod' = prod + Bit((OnProd(p))') - Bit(OnProd(p))
                        - (nr_prod_waiting' - nr_prod_waiting)
           /\ cons < Cardinality(ConsWaiters) <=> nr_cons_waiting > 0
           /\ prod < Cardinality(ProdWaiters) <=> nr_prod_waiting > 0
<1>1. at' = [at EXCEPT ![p] = (MonitorAt(p))']
  <2>1. \A q \in Procs : q # p => (MonitorAt(q))' = MonitorAt(q)
    BY DEF Frame, MonitorAt, InWait
  <2>2. at' = [q \in Procs |-> (MonitorAt(q))'] BY DEF at
  <2> QED BY <2>1, <2>2 DEF at
<1>2. ConsWaiters \ {p} = ConsWaiters' \ {p} /\ ProdWaiters \ {p} = ProdWaiters' \ {p}
  BY DEF Frame, ConsWaiters, ProdWaiters, InWait, WaitsAsConsumer, WaitsAsProducer
<1>3. /\ p \in ConsWaiters <=> OnCons(p)
      /\ p \in ConsWaiters' <=> (OnCons(p))'
      /\ p \in ProdWaiters <=> OnProd(p)
      /\ p \in ProdWaiters' <=> (OnProd(p))'
  BY DEF ConsWaiters, ProdWaiters, OnCons, OnProd
<1>4. IsFiniteSet(ConsWaiters') /\ IsFiniteSet(ProdWaiters')
  <2>1. IsFiniteSet(Procs) BY DEF Procs
  <2>2. ConsWaiters' \subseteq Procs /\ ProdWaiters' \subseteq Procs
    BY DEF ConsWaiters, ProdWaiters
  <2> QED BY <2>1, <2>2, FS_Subset
<1>5. /\ Cardinality(ConsWaiters) \in Nat /\ Cardinality(ConsWaiters') \in Nat
      /\ Cardinality(ConsWaiters')
           = Cardinality(ConsWaiters) + Bit(p \in ConsWaiters') - Bit(p \in ConsWaiters)
  BY <1>2, <1>4, FiniteWaiters, OneMoves
<1>6. /\ Cardinality(ProdWaiters) \in Nat /\ Cardinality(ProdWaiters') \in Nat
      /\ Cardinality(ProdWaiters')
           = Cardinality(ProdWaiters) + Bit(p \in ProdWaiters') - Bit(p \in ProdWaiters)
  BY <1>2, <1>4, FiniteWaiters, OneMoves
<1>7. /\ cons = Cardinality(ConsWaiters) - nr_cons_waiting
      /\ prod = Cardinality(ProdWaiters) - nr_prod_waiting
      /\ cons' = Cardinality(ConsWaiters') - nr_cons_waiting'
      /\ prod' = Cardinality(ProdWaiters') - nr_prod_waiting'
  BY DEF cons, prod, ConsWaiters, ProdWaiters
<1>8. /\ nr_cons_waiting \in Int /\ nr_cons_waiting' \in Int
      /\ nr_prod_waiting \in Int /\ nr_prod_waiting' \in Int
  BY DEF TypeOK
<1>9. \A b : Bit(b) \in {0, 1} BY DEF Bit
<1> HIDE DEF cons, prod
<1>10. /\ cons \in Int /\ (cons < Cardinality(ConsWaiters) <=> nr_cons_waiting > 0)
       /\ cons' = cons + Bit((OnCons(p))') - Bit(OnCons(p))
                    - (nr_cons_waiting' - nr_cons_waiting)
  BY <1>3, <1>5, <1>7, <1>8 DEF Bit
<1>11. /\ prod \in Int /\ (prod < Cardinality(ProdWaiters) <=> nr_prod_waiting > 0)
       /\ prod' = prod + Bit((OnProd(p))') - Bit(OnProd(p))
                    - (nr_prod_waiting' - nr_prod_waiting)
  BY <1>3, <1>6, <1>7, <1>8 DEF Bit
<1> QED BY <1>1, <1>10, <1>11

LEMMA SameCardinality == \A S : Monitor!Cardinality(S) = Cardinality(S)
BY DEF Monitor!Cardinality, Cardinality

\* A wake is a signal.
LEMMA WakeIsSignal ==
    ASSUME TypeOK, TypeOK', NEW p \in Procs, Frame(p)
    PROVE  /\ WakeConsumer /\ ~OnCons(p) /\ ~(OnCons(p))' => Monitor!SignalCons
           /\ WakeProducer /\ ~OnProd(p) /\ ~(OnProd(p))' => Monitor!SignalProd
<1>1. nr_cons_waiting \in Int /\ nr_prod_waiting \in Int BY DEF TypeOK
<1>2. ASSUME WakeConsumer, ~OnCons(p), ~(OnCons(p))' PROVE Monitor!SignalCons
  <2>1. nr_cons_waiting' = IF nr_cons_waiting > 0 THEN nr_cons_waiting - 1 ELSE nr_cons_waiting
    BY <1>2 DEF WakeConsumer
  <2>2. cons' = cons - (nr_cons_waiting' - nr_cons_waiting) /\ cons \in Int
    BY <1>1, <1>2, <2>1, MonitorMoves DEF Bit
  <2>3. cons' = IF nr_cons_waiting > 0 THEN cons + 1 ELSE cons BY <1>1, <2>1, <2>2
  <2>4. cons < Cardinality(Monitor!ConsWaiters) <=> nr_cons_waiting > 0
    BY MonitorMoves, MonitorProcs
  <2> QED BY <2>3, <2>4, SameCardinality DEF Monitor!SignalCons
<1>3. ASSUME WakeProducer, ~OnProd(p), ~(OnProd(p))' PROVE Monitor!SignalProd
  <2>1. nr_prod_waiting' = IF nr_prod_waiting > 0 THEN nr_prod_waiting - 1 ELSE nr_prod_waiting
    BY <1>3 DEF WakeProducer
  <2>2. prod' = prod - (nr_prod_waiting' - nr_prod_waiting) /\ prod \in Int
    BY <1>1, <1>3, <2>1, MonitorMoves DEF Bit
  <2>3. prod' = IF nr_prod_waiting > 0 THEN prod + 1 ELSE prod BY <1>1, <2>1, <2>2
  <2>4. prod < Cardinality(Monitor!ProdWaiters) <=> nr_prod_waiting > 0
    BY MonitorMoves, MonitorProcs
  <2> QED BY <2>3, <2>4, SameCardinality DEF Monitor!SignalProd
<1> QED BY <1>2, <1>3

\* Fewer than all who wait: one is not on the queue.
LEMMA OneLess ==
    ASSUME NEW Q, NEW W, IsFiniteSet(W), Q \subseteq W, NEW p \in W, p \notin Q
    PROVE  Cardinality(Q) \in Nat /\ Cardinality(Q) < Cardinality(W)
<1>1. Q \subseteq W \ {p} /\ IsFiniteSet(W \ {p}) BY FS_Subset
<1>2. Cardinality(W \ {p}) = Cardinality(W) - 1 BY FS_RemoveElement
<1>3. Cardinality(Q) <= Cardinality(W \ {p}) /\ IsFiniteSet(Q) BY <1>1, FS_Subset
<1>4. Cardinality(Q) \in Nat /\ Cardinality(W) \in Nat BY <1>3, FS_CardinalityType
<1> QED BY <1>2, <1>3, <1>4

\* Who has the mutex again has been signalled.
LEMMA WokenHasSignal ==
    ASSUME TypeOK, ConsumerQueue, ProducerQueue, \A q \in Procs : pc[q] # "undo",
           NEW p \in Procs, pc[p] = "relock"
    PROVE  /\ WaitsAsConsumer(p) => cons > 0
           /\ WaitsAsProducer(p) => prod > 0
<1>1. ASSUME WaitsAsConsumer(p) PROVE cons > 0
  <2>1. ConsumersQueued \subseteq ConsWaiters
    BY DEF ConsumersQueued, OnQueue, Asleep, ConsWaiters, InWait
  <2>2. p \in ConsWaiters /\ p \notin ConsumersQueued
    BY <1>1 DEF ConsumersQueued, OnQueue, Asleep, ConsWaiters, InWait
  <2>3. /\ Cardinality(ConsumersQueued) < Cardinality(ConsWaiters)
        /\ Cardinality(ConsumersQueued) \in Nat /\ Cardinality(ConsWaiters) \in Nat
    BY <2>1, <2>2, FiniteWaiters, OneLess, FS_CardinalityType
  <2>4. /\ nr_cons_waiting + sem_cons.count = Cardinality(ConsumersQueued)
        /\ nr_cons_waiting \in Int /\ sem_cons.count \in Nat
    BY DEF ConsumerQueue, Accounted, Semaphores
  <2>5. cons = Cardinality(ConsWaiters) - nr_cons_waiting BY DEF cons, ConsWaiters
  <2> QED BY <2>3, <2>4, <2>5
<1>2. ASSUME WaitsAsProducer(p) PROVE prod > 0
  <2>1. ProducersQueued \subseteq ProdWaiters
    BY DEF ProducersQueued, OnQueue, Asleep, ProdWaiters, InWait
  <2>2. p \in ProdWaiters /\ p \notin ProducersQueued
    BY <1>2 DEF ProducersQueued, OnQueue, Asleep, ProdWaiters, InWait
  <2>3. /\ Cardinality(ProducersQueued) < Cardinality(ProdWaiters)
        /\ Cardinality(ProducersQueued) \in Nat /\ Cardinality(ProdWaiters) \in Nat
    BY <2>1, <2>2, FiniteWaiters, OneLess, FS_CardinalityType
  <2>4. /\ nr_prod_waiting + sem_prod.count = Cardinality(ProducersQueued)
        /\ nr_prod_waiting \in Int /\ sem_prod.count \in Nat
    BY DEF ProducerQueue, Accounted, Semaphores
  <2>5. prod = Cardinality(ProdWaiters) - nr_prod_waiting BY DEF prod, ProdWaiters
  <2> QED BY <2>3, <2>4, <2>5
<1> QED BY <1>1, <1>2

-----------------------------------------------------------------------------
(* Every step without a signal is one of the monitor's. *)

NoUndo == \A q \in Procs : pc[q] # "undo"

\* What a step of p from such a state may count on.
Calm(p) ==
    /\ TypeOK /\ TypeOK' /\ ConsumerQueue /\ ProducerQueue /\ NoUndo
    /\ InPlace(p) /\ Frame(p) /\ (InPlace(p))'

\* Signals used up and given, by how p and the counters move.
LEMMA SignalsLeft ==
    ASSUME NEW p \in Procs, Calm(p)
    PROVE  /\ (OnCons(p) <=> (OnCons(p))') /\ nr_cons_waiting' = nr_cons_waiting => cons' = cons
           /\ (OnProd(p) <=> (OnProd(p))') /\ nr_prod_waiting' = nr_prod_waiting => prod' = prod
           /\ (\/ (OnCons(p))' /\ nr_cons_waiting' = nr_cons_waiting + 1
               \/ ~(OnCons(p))' /\ nr_cons_waiting' = nr_cons_waiting)
              => cons' = Monitor!ConsLeft(p)
           /\ (\/ (OnProd(p))' /\ nr_prod_waiting' = nr_prod_waiting + 1
               \/ ~(OnProd(p))' /\ nr_prod_waiting' = nr_prod_waiting)
              => prod' = Monitor!ProdLeft(p)
<1>1. /\ cons \in Int /\ prod \in Int
      /\ cons' = cons + Bit((OnCons(p))') - Bit(OnCons(p)) - (nr_cons_waiting' - nr_cons_waiting)
      /\ prod' = prod + Bit((OnProd(p))') - Bit(OnProd(p)) - (nr_prod_waiting' - nr_prod_waiting)
  BY MonitorMoves DEF Calm
<1>2. /\ nr_cons_waiting \in Int /\ nr_prod_waiting \in Int BY DEF Calm, TypeOK
<1>3. /\ Monitor!ConsLeft(p) = IF OnCons(p) THEN cons - 1 ELSE cons
      /\ Monitor!ProdLeft(p) = IF OnProd(p) THEN prod - 1 ELSE prod
  <2>1. at[p] = "wait" <=> InWait(p)
    BY MonitorProcs DEF Calm, MonitorAt, InWait, TypeOK, PCs
  <2> QED BY <2>1 DEF Monitor!ConsLeft, Monitor!ProdLeft, Monitor!OnCons, Monitor!OnProd,
                      OnCons, OnProd, WaitsAsConsumer, WaitsAsProducer
<1>4. /\ Bit(OnCons(p)) = IF OnCons(p) THEN 1 ELSE 0
      /\ Bit((OnCons(p))') = IF (OnCons(p))' THEN 1 ELSE 0
      /\ Bit(OnProd(p)) = IF OnProd(p) THEN 1 ELSE 0
      /\ Bit((OnProd(p))') = IF (OnProd(p))' THEN 1 ELSE 0
  BY DEF Bit
<1>5. /\ (OnCons(p) <=> (OnCons(p))') /\ nr_cons_waiting' = nr_cons_waiting => cons' = cons
      /\ (\/ (OnCons(p))' /\ nr_cons_waiting' = nr_cons_waiting + 1
          \/ ~(OnCons(p))' /\ nr_cons_waiting' = nr_cons_waiting)
         => cons' = Monitor!ConsLeft(p)
  BY <1>1, <1>2, <1>3, <1>4
<1>6. /\ (OnProd(p) <=> (OnProd(p))') /\ nr_prod_waiting' = nr_prod_waiting => prod' = prod
      /\ (\/ (OnProd(p))' /\ nr_prod_waiting' = nr_prod_waiting + 1
          \/ ~(OnProd(p))' /\ nr_prod_waiting' = nr_prod_waiting)
         => prod' = Monitor!ProdLeft(p)
  BY <1>1, <1>2, <1>3, <1>4
<1> QED BY <1>5, <1>6

\* A handler past its down of mtx is inside the monitor.
LEMMA InMonitor ==
    ASSUME NEW p \in Procs, Calm(p), NEW h, InHandler(p, h)
    PROVE  /\ Monitor!Holds(p, h)
           /\ (at[p] = "enter" <=> FirstPass(p))
           /\ h = "release" => at[p] = "enter"
<1>1. call[p] = h /\ pc[p] \in {"lock", "relock"} BY DEF InHandler
<1>2. at[p] = IF pc[p] = "lock" THEN "enter" ELSE "wait"
  BY <1>1, MonitorProcs DEF Calm, MonitorAt, InWait
<1>3. CASE pc[p] = "lock" BY <1>1, <1>2, <1>3 DEF Monitor!Holds, FirstPass
<1>4. CASE pc[p] = "relock"
  <2>1. call[p] \in {"open", "read", "write"} BY <1>4 DEF Calm, InPlace
  <2>2. (WaitsAsConsumer(p) /\ cons > 0) \/ (WaitsAsProducer(p) /\ prod > 0)
    <3>1. WaitsAsConsumer(p) => cons > 0 BY <1>4, WokenHasSignal DEF Calm, NoUndo
    <3>2. WaitsAsProducer(p) => prod > 0 BY <1>4, WokenHasSignal DEF Calm, NoUndo
    <3>3. WaitsAsConsumer(p) \/ WaitsAsProducer(p)
      BY <2>1 DEF WaitsAsConsumer, WaitsAsProducer
    <3> QED BY <3>1, <3>2, <3>3
  <2> QED BY <1>1, <1>2, <1>4, <2>1, <2>2
          DEF Monitor!Holds, Monitor!OnCons, Monitor!OnProd, WaitsAsConsumer, WaitsAsProducer,
              FirstPass
<1> QED BY <1>1, <1>3, <1>4

\* The ends of a critical section.
LEMMA MonitorEnds ==
    ASSUME NEW p \in Procs, Calm(p)
    PROVE  /\ Block(p) => Monitor!Wait(p)
           /\ \A r : \A st \in {"closed", "opened"} :
                Return(p, st, r) => Monitor!Return(p, st, r) /\ ~(InWait(p))'
<1>1. at' = [at EXCEPT ![p] = (MonitorAt(p))'] BY MonitorMoves DEF Calm
<1>2. pc \in [Procs -> PCs] BY DEF Calm, TypeOK
<1>3. ASSUME Block(p) PROVE Monitor!Wait(p)
  <2>1. pc'[p] = "presleep" BY <1>2, <1>3 DEF Block
  <2>2. (MonitorAt(p))' = "wait" BY <2>1 DEF MonitorAt, InWait
  <2> QED BY <1>1, <1>3, <2>2 DEF Block, Monitor!Wait, locals
<1>4. ASSUME NEW st \in {"closed", "opened"}, NEW r, Return(p, st, r)
      PROVE  Monitor!Return(p, st, r) /\ ~(InWait(p))'
  <2>1. pc'[p] = st BY <1>2, <1>4 DEF Return
  <2>2. (MonitorAt(p))' = st /\ ~(InWait(p))' BY <2>1 DEF MonitorAt, InWait
  <2> QED BY <1>1, <1>4, <2>2 DEF Return, Monitor!Return
<1> QED BY <1>3, <1>4

\* Which condition variable p may be on after its critical section.
LEMMA QueueAfter ==
    ASSUME NEW p \in Procs, Calm(p), NEW h, InHandler(p, h)
    PROVE  /\ Block(p) => /\ ((OnCons(p))' <=> WaitsAsConsumer(p))
                          /\ ((OnProd(p))' <=> WaitsAsProducer(p))
           /\ \A r : \A st \in {"closed", "opened"} :
                Return(p, st, r) => ~(OnCons(p))' /\ ~(OnProd(p))'
           /\ OnCons(p) => WaitsAsConsumer(p)
           /\ OnProd(p) => WaitsAsProducer(p)
<1>1. pc \in [Procs -> PCs] BY DEF Calm, TypeOK
<1>2. ASSUME Block(p)
      PROVE  /\ (OnCons(p))' <=> WaitsAsConsumer(p)
             /\ (OnProd(p))' <=> WaitsAsProducer(p)
  <2>1. pc'[p] = "presleep" /\ call' = call BY <1>1, <1>2 DEF Block
  <2> QED BY <2>1 DEF OnCons, OnProd, InWait, WaitsAsConsumer, WaitsAsProducer
<1> QED BY <1>2, MonitorEnds DEF OnCons, OnProd

\* A section of a consumer ends on the condition variable of the consumers or on
\* none, and a section of a producer likewise.
LEMMA ConsumerSection ==
    ASSUME NEW p \in Procs, Calm(p), NEW h, InHandler(p, h), WaitsAsConsumer(p)
    PROVE  /\ ~OnProd(p)
           /\ BlockConsumer(p)
                => Monitor!Wait(p) /\ cons' = Monitor!ConsLeft(p) /\ ~(OnProd(p))'
           /\ \A r : \A st \in {"closed", "opened"} :
                Return(p, st, r) /\ UNCHANGED nr_cons_waiting
                  => Monitor!Return(p, st, r) /\ cons' = Monitor!ConsLeft(p) /\ ~(OnProd(p))'
<1>1. ~WaitsAsProducer(p) /\ ~OnProd(p) BY OneQueue, QueueAfter
<1> QED BY <1>1, QueueAfter, SignalsLeft, MonitorEnds DEF BlockConsumer

LEMMA ProducerSection ==
    ASSUME NEW p \in Procs, Calm(p), NEW h, InHandler(p, h), WaitsAsProducer(p)
    PROVE  /\ ~OnCons(p)
           /\ BlockProducer(p)
                => Monitor!Wait(p) /\ prod' = Monitor!ProdLeft(p) /\ ~(OnCons(p))'
           /\ \A r : \A st \in {"closed", "opened"} :
                Return(p, st, r) /\ UNCHANGED nr_prod_waiting
                  => Monitor!Return(p, st, r) /\ prod' = Monitor!ProdLeft(p) /\ ~(OnCons(p))'
<1>1. ~WaitsAsConsumer(p) /\ ~OnCons(p) BY OneQueue, QueueAfter
<1> QED BY <1>1, QueueAfter, SignalsLeft, MonitorEnds DEF BlockProducer

\* The wakes of a section, for the process that is on neither side of the queue.
LEMMA Wakes ==
    ASSUME NEW p \in Procs, Calm(p)
    PROVE  /\ ~OnCons(p) /\ ~(OnCons(p))'
                => /\ WakeConsumer => Monitor!SignalCons
                   /\ UNCHANGED nr_cons_waiting => cons' = cons
           /\ ~OnProd(p) /\ ~(OnProd(p))'
                => /\ WakeProducer => Monitor!SignalProd
                   /\ UNCHANGED nr_prod_waiting => prod' = prod
BY WakeIsSignal, SignalsLeft DEF Calm

LEMMA OpenConsumerStep ==
    ASSUME NEW p \in Procs, Calm(p), OpenConsumer(p)
    PROVE  Monitor!OpenRead(p)
<1>1. /\ InHandler(p, "open") /\ p \in Readers
      /\ IF FirstPass(p) THEN cons_count' = cons_count + 1 /\ WakeProducer
         ELSE UNCHANGED <<cons_count, sem_prod, nr_prod_waiting>>
      /\ \/ prod_count = 0 /\ BlockConsumer(p)
         \/ /\ prod_count # 0
            /\ Return(p, "opened", 0)
            /\ UNCHANGED nr_cons_waiting
      /\ UNCHANGED <<prod_count, cbuffer>>
  BY DEF OpenConsumer, UnlockReturn
<1>2. WaitsAsConsumer(p) BY <1>1 DEF InHandler, WaitsAsConsumer
<1>3. /\ Monitor!Holds(p, "open") /\ (at[p] = "enter" <=> FirstPass(p)) BY <1>1, InMonitor
<1>4. ~OnProd(p) BY <1>1, <1>2, ConsumerSection
<1>5. /\ IF prod_count = 0 THEN Monitor!Wait(p) ELSE Monitor!Return(p, "opened", 0)
      /\ cons' = Monitor!ConsLeft(p) /\ ~(OnProd(p))'
  BY <1>1, <1>2, ConsumerSection
<1>6. IF at[p] = "enter" THEN cons_count' = cons_count + 1 /\ Monitor!SignalProd
      ELSE UNCHANGED <<cons_count, prod>>
  BY <1>1, <1>3, <1>4, <1>5, Wakes
<1> QED BY <1>1, <1>3, <1>5, <1>6 DEF Monitor!OpenRead

LEMMA OpenProducerStep ==
    ASSUME NEW p \in Procs, Calm(p), OpenProducer(p)
    PROVE  Monitor!OpenWrite(p)
<1>1. /\ InHandler(p, "open") /\ p \notin Readers
      /\ IF FirstPass(p) THEN prod_count' = prod_count + 1 /\ WakeConsumer
         ELSE UNCHANGED <<prod_count, sem_cons, nr_cons_waiting>>
      /\ \/ cons_count = 0 /\ BlockProducer(p)
         \/ /\ cons_count # 0
            /\ Return(p, "opened", 0)
            /\ UNCHANGED nr_prod_waiting
      /\ UNCHANGED <<cons_count, cbuffer>>
  BY DEF OpenProducer, UnlockReturn
<1>2. WaitsAsProducer(p) BY <1>1 DEF InHandler, WaitsAsProducer
<1>3. /\ Monitor!Holds(p, "open") /\ (at[p] = "enter" <=> FirstPass(p)) BY <1>1, InMonitor
<1>4. ~OnCons(p) BY <1>1, <1>2, ProducerSection
<1>5. /\ IF cons_count = 0 THEN Monitor!Wait(p) ELSE Monitor!Return(p, "opened", 0)
      /\ prod' = Monitor!ProdLeft(p) /\ ~(OnCons(p))'
  BY <1>1, <1>2, ProducerSection
<1>6. IF at[p] = "enter" THEN prod_count' = prod_count + 1 /\ Monitor!SignalCons
      ELSE UNCHANGED <<prod_count, cons>>
  BY <1>1, <1>3, <1>4, <1>5, Wakes
<1> QED BY <1>1, <1>3, <1>5, <1>6 DEF Monitor!OpenWrite

LEMMA ReleaseStep ==
    ASSUME NEW p \in Procs, Calm(p), Release(p)
    PROVE  Monitor!Release(p)
<1>1. /\ InHandler(p, "release")
      /\ IF p \in Readers
         THEN cons_count' = cons_count - 1 /\ WakeProducer /\ UNCHANGED <<prod_count, nr_cons_waiting>>
         ELSE prod_count' = prod_count - 1 /\ WakeConsumer /\ UNCHANGED <<cons_count, nr_prod_waiting>>
      /\ cbuffer' = IF cons_count' = 0 /\ prod_count' = 0 THEN << >> ELSE cbuffer
      /\ Return(p, "closed", 0)
  BY DEF Release, UnlockReturn, LastClose
<1>2. Monitor!Holds(p, "release") BY <1>1, InMonitor
<1>3. ~OnCons(p) /\ ~OnProd(p)
  BY <1>1 DEF InHandler, OnCons, OnProd, WaitsAsConsumer, WaitsAsProducer
<1>4. Monitor!Return(p, "closed", 0) /\ ~(OnCons(p))' /\ ~(OnProd(p))'
  BY <1>1, QueueAfter, MonitorEnds
<1>5. IF p \in Readers
      THEN cons_count' = cons_count - 1 /\ Monitor!SignalProd /\ UNCHANGED <<prod_count, cons>>
      ELSE prod_count' = prod_count - 1 /\ Monitor!SignalCons /\ UNCHANGED <<cons_count, prod>>
  BY <1>1, <1>3, <1>4, Wakes
<1> QED BY <1>1, <1>2, <1>4, <1>5 DEF Monitor!Release

LEMMA ReadSteps ==
    ASSUME NEW p \in Procs, Calm(p), prod_count >= 0,
           ReadWait(p) \/ ReadEOF(p) \/ ReadTake(p)
    PROVE  Monitor!Read(p)
<1>1. /\ InHandler(p, "read") /\ UNCHANGED <<prod_count, cons_count>>
      /\ WaitsAsConsumer(p)
  BY DEF ReadWait, ReadEOF, ReadTake, InHandler, WaitsAsConsumer, counters, shared
<1>2. Monitor!Holds(p, "read") /\ ~OnProd(p) BY <1>1, InMonitor, ConsumerSection
<1>3. /\ prod_count \in Int /\ len[p] \in Nat /\ cbuffer \in Seq(Bytes) /\ Len(cbuffer) \in Nat
      /\ pc \in [Procs -> PCs] /\ call \in [Procs -> Calls]
  BY DEF Calm, TypeOK
<1>4. CASE ReadWait(p)
  <2>1. /\ BlockConsumer(p) /\ Len(cbuffer) < len[p] /\ prod_count > 0
        /\ UNCHANGED <<nr_prod_waiting, cbuffer>>
    BY <1>4 DEF ReadWait, NoData
  <2>2. Monitor!Wait(p) /\ cons' = Monitor!ConsLeft(p) /\ ~(OnProd(p))'
    BY <1>1, <2>1, ConsumerSection
  <2>3. prod' = prod BY <1>2, <2>1, <2>2, Wakes
  <2> QED BY <1>1, <1>2, <2>1, <2>2, <2>3 DEF Monitor!Read
<1>5. CASE ReadEOF(p)
  <2>1. /\ Return(p, "opened", 0) /\ cbuffer = << >> /\ prod_count = 0
        /\ UNCHANGED <<nr_prod_waiting, nr_cons_waiting, cbuffer>>
    BY <1>5 DEF ReadEOF, UnlockReturn, shared, waiting
  <2>2. Monitor!Return(p, "opened", 0) /\ cons' = Monitor!ConsLeft(p) /\ ~(OnProd(p))'
    BY <1>1, <2>1, ConsumerSection
  <2>3. prod' = prod BY <1>2, <2>1, <2>2, Wakes
  <2> QED BY <1>1, <1>2, <2>1, <2>2, <2>3 DEF Monitor!Read
<1>6. CASE ReadTake(p)
  <2> DEFINE r == IF len[p] < Len(cbuffer) THEN len[p] ELSE Len(cbuffer)
  <2>1. /\ ~(Len(cbuffer) < len[p] /\ prod_count > 0) /\ ~(cbuffer = << >> /\ prod_count = 0)
        /\ kbuffer' = [kbuffer EXCEPT ![p] = SubSeq(cbuffer, 1, r)]
        /\ cbuffer' = SubSeq(cbuffer, r + 1, Len(cbuffer))
        /\ WakeProducer
        /\ pc' = [pc EXCEPT ![p] = "copy"]
        /\ UNCHANGED <<nr_cons_waiting, call, len, ret>>
    BY <1>6 DEF ReadTake, NoData
  <2>2. /\ r \in {n \in 0 .. Len(cbuffer) : n = len[p] \/ (n < len[p] /\ n = Len(cbuffer))}
        /\ Len(cbuffer) >= len[p] \/ prod_count = 0
    BY <1>3, <2>1
  <2>3. pc'[p] = "copy" BY <1>3, <2>1
  <2>4. (MonitorAt(p))' = "copy" /\ ~(OnCons(p))' /\ ~(OnProd(p))'
    BY <2>3 DEF MonitorAt, InWait, OnCons, OnProd
  <2>5. at' = [at EXCEPT ![p] = "copy"] BY <2>4, MonitorMoves DEF Calm
  <2>6. Monitor!SignalProd BY <1>2, <2>1, <2>4, Wakes
  <2>7. cons' = Monitor!ConsLeft(p) BY <2>1, <2>4, SignalsLeft
  <2> HIDE DEF r
  <2> QED BY <1>1, <1>2, <2>1, <2>2, <2>5, <2>6, <2>7 DEF Monitor!Read
<1> QED BY <1>4, <1>5, <1>6

LEMMA ReadCopyStep ==
    ASSUME NEW p \in Procs, Calm(p), ReadCopy(p)
    PROVE  Monitor!ReadCopy(p)
<1>1. /\ pc[p] = "copy" /\ Return(p, "opened", len[p])
      /\ UNCHANGED <<prod_count, cons_count, cbuffer, nr_cons_waiting, nr_prod_waiting>>
  BY DEF ReadCopy, shared, counters, waiting
<1>2. at[p] = "copy" /\ ~OnCons(p) /\ ~OnProd(p)
  BY <1>1, MonitorProcs DEF Calm, MonitorAt, InWait, OnCons, OnProd
<1>3. Monitor!Return(p, "opened", len[p]) /\ ~(OnCons(p))' /\ ~(OnProd(p))'
  BY <1>1, MonitorEnds DEF OnCons, OnProd
<1>4. cons' = cons /\ prod' = prod BY <1>1, <1>2, <1>3, Wakes
<1> QED BY <1>1, <1>2, <1>3, <1>4 DEF Monitor!ReadCopy

\* The loop of write() has made room for all of the message.
LEMMA WholeWrite ==
    ASSUME TypeOK, NEW p \in Procs, call[p] = "write", Capacity - Len(cbuffer) >= len[p]
    PROVE  SubSeq(kbuffer[p], 1, Fitting(len[p])) = kbuffer[p]
<1>1. /\ p \in Writers /\ kbuffer[p] = Message(p, len[p]) /\ len[p] \in 0 .. Capacity
      /\ Len(cbuffer) \in Nat
  BY DEF TypeOK
<1>2. kbuffer[p] \in Seq(Bytes) /\ Len(kbuffer[p]) = len[p] BY <1>1, MessageType
<1>3. Fitting(len[p]) = len[p] BY <1>1 DEF Fitting
<1> QED BY <1>2, <1>3

LEMMA WriteSteps ==
    ASSUME NEW p \in Procs, Calm(p), cons_count >= 0,
           WriteWait(p) \/ WriteEPIPE(p) \/ WritePut(p)
    PROVE  Monitor!Write(p)
<1>1. /\ InHandler(p, "write") /\ UNCHANGED <<prod_count, cons_count>>
      /\ WaitsAsProducer(p) /\ call[p] = "write"
  BY DEF WriteWait, WriteEPIPE, WritePut, InHandler, WaitsAsProducer, counters, shared
<1>2. Monitor!Holds(p, "write") /\ ~OnCons(p) BY <1>1, InMonitor, ProducerSection
<1>3. cons_count \in Int /\ len[p] \in Nat /\ Len(cbuffer) \in Nat BY DEF Calm, TypeOK
<1>4. CASE WriteWait(p)
  <2>1. /\ BlockProducer(p) /\ Capacity - Len(cbuffer) < len[p] /\ cons_count > 0
        /\ UNCHANGED <<nr_cons_waiting, cbuffer>>
    BY <1>4 DEF WriteWait, NoSpace
  <2>2. Monitor!Wait(p) /\ prod' = Monitor!ProdLeft(p) /\ ~(OnCons(p))'
    BY <1>1, <2>1, ProducerSection
  <2>3. cons' = cons BY <1>2, <2>1, <2>2, Wakes
  <2> QED BY <1>1, <1>2, <2>1, <2>2, <2>3 DEF Monitor!Write
<1>5. CASE WriteEPIPE(p)
  <2>1. /\ Return(p, "opened", Monitor!EPIPE) /\ cons_count = 0
        /\ UNCHANGED <<nr_prod_waiting, nr_cons_waiting, cbuffer>>
    BY <1>5 DEF WriteEPIPE, UnlockReturn, shared, waiting, EPIPE, Monitor!EPIPE
  <2>2. /\ Monitor!Return(p, "opened", Monitor!EPIPE) /\ prod' = Monitor!ProdLeft(p)
        /\ ~(OnCons(p))'
    BY <1>1, <2>1, ProducerSection
  <2>3. cons' = cons BY <1>2, <2>1, <2>2, Wakes
  <2> QED BY <1>1, <1>2, <2>1, <2>2, <2>3 DEF Monitor!Write
<1>6. CASE WritePut(p)
  <2>1. /\ ~(Capacity - Len(cbuffer) < len[p] /\ cons_count > 0) /\ cons_count # 0
        /\ cbuffer' = cbuffer \o SubSeq(kbuffer[p], 1, Fitting(len[p]))
        /\ WakeConsumer /\ Return(p, "opened", len[p])
        /\ UNCHANGED nr_prod_waiting
    BY <1>6 DEF WritePut, NoSpace, UnlockReturn
  <2>2. Capacity - Len(cbuffer) >= len[p] BY <1>3, <2>1
  <2>3. cbuffer' = cbuffer \o kbuffer[p] BY <1>1, <2>1, <2>2, WholeWrite DEF Calm
  <2>4. Monitor!Return(p, "opened", len[p]) /\ prod' = Monitor!ProdLeft(p) /\ ~(OnCons(p))'
    BY <1>1, <2>1, ProducerSection
  <2>5. Monitor!SignalCons BY <1>2, <2>1, <2>4, Wakes
  <2> QED BY <1>1, <1>2, <2>1, <2>2, <2>3, <2>4, <2>5 DEF Monitor!Write
<1> QED BY <1>4, <1>5, <1>6

\* The way to the sleep and from it is inside one cond_wait of the monitor.
LEMMA SleepSteps ==
    ASSUME NEW p \in Procs, Calm(p), Sleep(p) \/ Woken(p)
    PROVE  UNCHANGED Monitor!vars
<1>1. /\ pc[p] \in {"presleep", "sleep"}
      /\ pc' = [pc EXCEPT ![p] = "sleep"] \/ pc' = [pc EXCEPT ![p] = "relock"]
      /\ UNCHANGED <<prod_count, cons_count, cbuffer, nr_cons_waiting, nr_prod_waiting,
                     call, len, kbuffer, ret>>
  BY DEF Sleep, Woken, shared, counters, waiting, locals
<1>2. pc'[p] \in {"sleep", "relock"} BY <1>1 DEF Calm, TypeOK
<1>3. /\ at[p] = "wait" /\ (MonitorAt(p))' = "wait"
      /\ (OnCons(p) <=> (OnCons(p))') /\ (OnProd(p) <=> (OnProd(p))')
  BY <1>1, <1>2, MonitorProcs
  DEF Calm, MonitorAt, InWait, OnCons, OnProd, WaitsAsConsumer, WaitsAsProducer
<1>4. at' = at
  <2>1. at' = [at EXCEPT ![p] = "wait"] BY <1>3, MonitorMoves DEF Calm
  <2> QED BY <1>3, <2>1 DEF at
<1>5. cons' = cons /\ prod' = prod BY <1>1, <1>3, SignalsLeft
<1> QED BY <1>1, <1>4, <1>5 DEF Monitor!vars

LEMMA CallSteps ==
    ASSUME NEW p \in Procs, Calm(p), Call(p)
    PROVE  Monitor!Call(p)
<1>1. ASSUME NEW h, NEW n, NEW d, Enter(p, h, n, d), pc[p] \in {"closed", "opened"}
      PROVE  Monitor!Enter(p, h, n, d)
  <2>1. pc'[p] = "lock" BY <1>1 DEF Enter, Calm, TypeOK
  <2>2. /\ (MonitorAt(p))' = "enter" /\ ~OnCons(p) /\ ~OnProd(p)
        /\ ~(OnCons(p))' /\ ~(OnProd(p))'
    BY <1>1, <2>1 DEF MonitorAt, InWait, OnCons, OnProd
  <2>3. at' = [at EXCEPT ![p] = "enter"] BY <2>2, MonitorMoves DEF Calm
  <2>4. UNCHANGED <<prod_count, cons_count, cbuffer, nr_cons_waiting, nr_prod_waiting>>
    BY <1>1 DEF Enter, shared, counters, waiting
  <2>5. cons' = cons /\ prod' = prod BY <2>2, <2>4, Wakes
  <2> QED BY <1>1, <2>3, <2>4, <2>5 DEF Enter, Monitor!Enter
<1>2. pc[p] \in {"closed", "opened"} => at[p] = pc[p]
  BY MonitorProcs DEF Calm, MonitorAt, InWait
<1>3. CASE CallOpen(p) BY <1>1, <1>2, <1>3 DEF CallOpen, Monitor!Call
<1>4. CASE CallRelease(p) BY <1>1, <1>2, <1>4 DEF CallRelease, Monitor!Call
<1>5. CASE CallRead(p) BY <1>1, <1>2, <1>5 DEF CallRead, Monitor!Call
<1>6. CASE CallWrite(p)
  <2>1. \A n : Message(p, n) = Monitor!Message(p, n)
    BY DEF Message, Monitor!Message, UserBuffer, Monitor!UserBuffer
  <2> QED BY <1>1, <1>2, <1>6, <2>1 DEF CallWrite, Monitor!Call
<1> QED BY <1>3, <1>4, <1>5, <1>6 DEF Call

\* A wait that is being undone was interrupted.
UndoInv == \A p \in Procs : pc[p] = "undo" => signals > 0

MonitorInv == TypeOK /\ ConsumerQueue /\ ProducerQueue /\ DriftInv /\ UndoInv

LEMMA InitMonitorInv == Init => MonitorInv
<1> SUFFICES ASSUME Init PROVE MonitorInv OBVIOUS
<1>1. TypeOK /\ ConsumerQueue /\ ProducerQueue /\ DriftInv
  BY InitTypeOK, InitQueues, InitDrift
<1> QED BY <1>1 DEF MonitorInv, UndoInv, Init

LEMMA NextMonitorInv == MonitorInv /\ [Next]_vars => MonitorInv'
<1> SUFFICES ASSUME MonitorInv, [Next]_vars PROVE MonitorInv' OBVIOUS
<1> USE DEF MonitorInv
<1>1. TypeOK' /\ ConsumerQueue' /\ ProducerQueue' /\ DriftInv'
  BY NextTypeOK, NextQueues, NextDrift
<1>2. CASE UNCHANGED vars BY <1>1, <1>2 DEF vars, UndoInv
<1>3. CASE Next
  <2>1. PICK p \in Procs : Call(p) \/ Run(p) \/ Interrupt(p) BY <1>3 DEF Next
  <2>2. Frame(p) /\ EndKind(p) BY <2>1, QueueSteps, EndSteps DEF DriftInv
  <2>3. signals \in Nat /\ (signals' = signals \/ signals' = signals + 1)
    BY <2>2 DEF EndKind, Ends, TypeOK
  <2>4. pc'[p] = "undo" => signals' = signals + 1
    <3>1. pc \in [Procs -> PCs] BY DEF TypeOK
    <3>2. CASE InterruptSleep(p) BY <3>2 DEF InterruptSleep
    <3>3. CASE InterruptLock(p) BY <3>3 DEF InterruptLock
    <3>4. CASE Call(p)
      BY <3>1, <3>4 DEF Call, CallOpen, CallRelease, CallRead, CallWrite, Enter
    <3>5. CASE OpenConsumer(p) \/ OpenProducer(p) \/ Release(p) \/ ReadWait(p) \/ WriteWait(p)
      BY <3>1, <3>5
      DEF OpenConsumer, OpenProducer, Release, ReadWait, WriteWait, BlockConsumer, BlockProducer,
          Block, UnlockReturn, Return
    <3>6. CASE ReadEOF(p) \/ ReadTake(p) \/ ReadCopy(p) \/ WriteEPIPE(p) \/ WritePut(p)
      BY <3>1, <3>6
      DEF ReadEOF, ReadTake, ReadCopy, WriteEPIPE, WritePut, UnlockReturn, Return
    <3>7. CASE Sleep(p) \/ Woken(p) BY <3>1, <3>7 DEF Sleep, Woken
    <3>8. CASE Undo(p)
      <4>1. pc' = [pc EXCEPT ![p] = AfterEINTR(p)] BY <3>8 DEF Undo, UnlockReturn, Return
      <4> QED BY <3>1, <4>1 DEF AfterEINTR
    <3> QED BY <2>1, <3>2, <3>3, <3>4, <3>5, <3>6, <3>7, <3>8 DEF Run, Interrupt
  <2>5. ASSUME NEW q \in Procs, pc'[q] = "undo" PROVE signals' > 0
    BY <2>2, <2>3, <2>4, <2>5 DEF Frame, UndoInv
  <2> QED BY <1>1, <2>5 DEF UndoInv
<1> QED BY <1>2, <1>3

\* Without a signal the counts of ends are never negative.
LEMMA CountsAreNat ==
    ASSUME MonitorInv, signals = 0
    PROVE  cons_count \in Nat /\ prod_count \in Nat
<1>1. ReadEnds \subseteq Procs /\ WriteEnds \subseteq Procs /\ Undoings \subseteq Procs
  BY DEF ReadEnds, WriteEnds, Undoings, Procs
<1>2. IsFiniteSet(Procs) BY DEF Procs
<1>3. /\ Cardinality(ReadEnds) \in Nat /\ Cardinality(WriteEnds) \in Nat
      /\ Cardinality(Undoings) \in Nat
  BY <1>1, <1>2, FS_Subset, FS_CardinalityType
<1>4. /\ Distance(cons_count, Cardinality(ReadEnds))
           + Distance(prod_count, Cardinality(WriteEnds)) + Cardinality(Undoings) <= 0
      /\ cons_count \in Int /\ prod_count \in Int
  BY DEF MonitorInv, DriftInv, TypeOK
<1> QED BY <1>3, <1>4 DEF Distance

LEMMA StepIsMonitorStep ==
    ASSUME MonitorInv, MonitorInv', signals' = 0, NEW p \in Procs,
           Call(p) \/ Run(p) \/ Interrupt(p)
    PROVE  Monitor!Call(p) \/ Monitor!Step(p) \/ UNCHANGED Monitor!vars
<1>1. Frame(p) /\ EndKind(p) /\ InPlace(p) /\ (InPlace(p))'
  BY QueueSteps, EndSteps DEF MonitorInv, DriftInv
<1>2. signals = 0 BY <1>1 DEF EndKind, Ends, MonitorInv, TypeOK
<1>3. NoUndo BY <1>2 DEF NoUndo, MonitorInv, UndoInv
<1>4. Calm(p) BY <1>1, <1>3 DEF Calm, MonitorInv
<1>5. cons_count >= 0 /\ prod_count >= 0 BY <1>2, CountsAreNat
<1>6. ~Interrupt(p) /\ ~Undo(p)
  BY <1>2, <1>3 DEF Interrupt, InterruptSleep, InterruptLock, Undo, NoUndo
<1>7. CASE Call(p) BY <1>4, <1>7, CallSteps
<1>8. CASE OpenConsumer(p) \/ OpenProducer(p) \/ Release(p) \/ ReadCopy(p)
  BY <1>4, <1>8, OpenConsumerStep, OpenProducerStep, ReleaseStep, ReadCopyStep DEF Monitor!Step
<1>9. CASE ReadWait(p) \/ ReadEOF(p) \/ ReadTake(p)
  BY <1>4, <1>5, <1>9, ReadSteps DEF Monitor!Step
<1>10. CASE WriteWait(p) \/ WriteEPIPE(p) \/ WritePut(p)
  BY <1>4, <1>5, <1>10, WriteSteps DEF Monitor!Step
<1>11. CASE Sleep(p) \/ Woken(p) BY <1>4, <1>11, SleepSteps
<1> QED BY <1>6, <1>7, <1>8, <1>9, <1>10, <1>11 DEF Run

LEMMA NextFollows ==
    MonitorInv /\ MonitorInv' /\ [Next]_vars
      => [signals' = 0 => [Monitor!Next]_(Monitor!vars)]_vars
<1> SUFFICES ASSUME MonitorInv, MonitorInv', Next, signals' = 0
             PROVE  [Monitor!Next]_(Monitor!vars)
  OBVIOUS
<1>1. PICK p \in Procs : Call(p) \/ Run(p) \/ Interrupt(p) BY DEF Next
<1>2. Monitor!Call(p) \/ Monitor!Step(p) \/ UNCHANGED Monitor!vars
  BY <1>1, StepIsMonitorStep
<1>3. p \in Monitor!Procs BY MonitorProcs DEF MonitorInv
<1> QED BY <1>2, <1>3 DEF Monitor!Next

LEMMA InitFollows == Init => Monitor!Init
<1> SUFFICES ASSUME Init PROVE Monitor!Init OBVIOUS
<1>1. TypeOK BY InitTypeOK
<1>2. Monitor!Procs = Procs /\ Monitor!ConsWaiters = ConsWaiters /\ Monitor!ProdWaiters = ProdWaiters
  BY <1>1, MonitorProcs
<1>3. \A p \in Procs : MonitorAt(p) = "closed" /\ ~InWait(p) BY DEF Init, MonitorAt, InWait
<1>4. at = [p \in Procs |-> "closed"] BY <1>3 DEF at
<1>5. ConsWaiters = {} /\ ProdWaiters = {} BY <1>3 DEF ConsWaiters, ProdWaiters
<1>6. cons = 0 /\ prod = 0
  <2>1. /\ cons = Cardinality(ConsWaiters) - nr_cons_waiting
        /\ prod = Cardinality(ProdWaiters) - nr_prod_waiting
    BY DEF cons, prod, ConsWaiters, ProdWaiters
  <2> QED BY <1>5, <2>1, FS_EmptySet DEF Init
<1> QED BY <1>2, <1>4, <1>6 DEF Init, Monitor!Init

\* The handlers do what the monitor of the pseudocode does, step for step and
\* for any processes, capacity and lengths, until a wait is interrupted.
THEOREM MonitorIsFollowed == Spec => FollowsMonitor
<1>1. Init => MonitorInv /\ Monitor!Init BY InitMonitorInv, InitFollows
<1>2. MonitorInv /\ [Next]_vars => MonitorInv' BY NextMonitorInv
<1>3. MonitorInv /\ MonitorInv' /\ [Next]_vars
        => [signals' = 0 => [Monitor!Next]_(Monitor!vars)]_vars
  BY NextFollows
<1> QED BY <1>1, <1>2, <1>3, PTL DEF Spec, FollowsMonitor

\* And where no wait can be interrupted, they implement it.
THEOREM MonitorIsImplemented ==
    ASSUME MaxSignals = 0
    PROVE  Spec => Monitor!Spec
<1>1. Init => MonitorInv /\ Monitor!Init BY InitMonitorInv, InitFollows
<1>2. MonitorInv /\ [Next]_vars => MonitorInv' BY NextMonitorInv
<1>3. MonitorInv /\ MonitorInv' /\ [Next]_vars => [Monitor!Next]_(Monitor!vars)
  <2> SUFFICES ASSUME MonitorInv, MonitorInv', [Next]_vars
               PROVE  [Monitor!Next]_(Monitor!vars)
    OBVIOUS
  <2>1. CASE UNCHANGED vars
    <3>1. UNCHANGED <<pc, call, nr_cons_waiting, nr_prod_waiting, prod_count, cons_count,
                      cbuffer, len, kbuffer, ret>>
      BY <2>1 DEF vars, shared, counters, waiting, locals
    <3>2. at' = at /\ cons' = cons /\ prod' = prod
      BY <3>1 DEF at, cons, prod, MonitorAt, InWait, WaitsAsConsumer, WaitsAsProducer
    <3> QED BY <3>1, <3>2 DEF Monitor!vars
  <2>2. CASE Next
    <3>1. PICK p \in Procs : Call(p) \/ Run(p) \/ Interrupt(p) BY <2>2 DEF Next
    <3>2. signals' = 0 BY DEF MonitorInv, TypeOK
    <3>3. Monitor!Call(p) \/ Monitor!Step(p) \/ UNCHANGED Monitor!vars
      BY <3>1, <3>2, StepIsMonitorStep
    <3>4. p \in Monitor!Procs BY MonitorProcs DEF MonitorInv
    <3> QED BY <3>3, <3>4 DEF Monitor!Next
  <2> QED BY <2>1, <2>2
<1> QED BY <1>1, <1>2, <1>3, PTL DEF Spec, Monitor!Spec

-----------------------------------------------------------------------------
(* Messages of one size, before the first interrupted wait. *)

\* A pipe that holds messages of L bytes, each whole: it starts with the first
\* byte of one, ends with the last byte of one, and in between the bytes follow
\* each other.
Follows(L, b, c) == IF b[2] = L THEN c[2] = 1 ELSE c = <<b[1], b[2] + 1>>

InMessages(s, L) ==
    /\ s \in Seq(Writers \X (1 .. L))
    /\ s # << >> => s[1][2] = 1 /\ s[Len(s)][2] = L
    /\ \A i \in 1 .. Len(s) - 1 : Follows(L, s[i], s[i + 1])

LEMMA FirstNat ==
    ASSUME NEW S \in SUBSET Nat, S # {}
    PROVE  \E n \in S : \A m \in S : ~(m < n)
<1>1. PICK n \in S : \A m \in S : <<m, n>> \notin OpToRel(<, Nat)
  BY NatLessThanWellFounded, WFMin
<1> QED BY <1>1 DEF OpToRel

\* The bytes of a message.
LEMMA MessageBytes ==
    ASSUME NEW w \in Writers, NEW n \in 0 .. Capacity
    PROVE  /\ Message(w, n) = [i \in 1 .. n |-> <<w, i>>]
           /\ InMessages(Message(w, n), n)
<1>1. Message(w, n) = [i \in 1 .. n |-> <<w, i>>]
  BY DEF Message, UserBuffer
<1>2. \A i \in 1 .. n : <<w, i>> \in Writers \X (1 .. n) OBVIOUS
<1>3. Message(w, n) \in Seq(Writers \X (1 .. n)) /\ Len(Message(w, n)) = n
  BY <1>1, <1>2, MessageType
<1> DEFINE m == Message(w, n)
<1>4. \A i \in 1 .. n : m[i] = <<w, i>> BY <1>1
<1>5. m # << >> => n >= 1 /\ m[1][2] = 1 /\ m[n][2] = n
  BY <1>3, <1>4
<1>6. \A i \in 1 .. n - 1 : Follows(n, m[i], m[i + 1]) BY <1>4 DEF Follows
<1> HIDE DEF m
<1>7. InMessages(m, n) BY <1>3, <1>5, <1>6 DEF InMessages, m
<1> QED BY <1>1, <1>7 DEF m

\* What is in front is a whole message.
LEMMA FirstMessage ==
    ASSUME NEW L \in 0 .. Capacity, NEW s, InMessages(s, L), s # << >>
    PROVE  /\ L <= Len(s) /\ s[1] \in Writers \X (1 .. L)
           /\ \A i \in 1 .. L : s[i] = <<s[1][1], i>>
<1>1. PICK n \in Nat : n = Len(s) /\ n # 0 /\ s \in [1 .. n -> Writers \X (1 .. L)]
  BY DEF InMessages
<1>2. /\ s[1] \in Writers \X (1 .. L) /\ s[1][2] = 1 /\ s[n][2] = L
      /\ \A i \in 1 .. n - 1 : Follows(L, s[i], s[i + 1])
  BY <1>1 DEF InMessages
<1> DEFINE bad == {i \in 1 .. L : ~(i <= n /\ s[i] = <<s[1][1], i>>)}
<1>3. bad = {}
  <2> SUFFICES ASSUME bad # {} PROVE FALSE OBVIOUS
  <2>1. bad \in SUBSET Nat OBVIOUS
  <2>2. \A i \in 1 .. L : i \in bad <=> ~(i <= n /\ s[i] = <<s[1][1], i>>) OBVIOUS
  <2>3. bad \subseteq 1 .. L OBVIOUS
  <2> HIDE DEF bad
  <2>4. PICK i \in bad : \A j \in bad : ~(j < i) BY <2>1, FirstNat
  <2>5. i \in 1 .. L BY <2>3
  <2>6. i # 1
    <3>1. s[1] = <<s[1][1], s[1][2]>> BY <1>2
    <3> QED BY <1>1, <1>2, <2>2, <2>5, <3>1
  <2>7. i - 1 \in 1 .. L /\ i - 1 < i BY <2>5, <2>6
  <2>8. i - 1 \notin bad BY <2>4, <2>7
  <2>9. i - 1 <= n /\ s[i - 1] = <<s[1][1], i - 1>> BY <2>2, <2>7, <2>8
  <2>10. i - 1 # n BY <1>2, <2>5, <2>9
  <2>11. i - 1 \in 1 .. n - 1 /\ (i - 1) + 1 = i BY <1>1, <2>5, <2>7, <2>9, <2>10
  <2>12. Follows(L, s[i - 1], s[i]) BY <1>2, <2>11
  <2>13. s[i] = <<s[1][1], i>> BY <2>5, <2>9, <2>12, <2>11 DEF Follows
  <2>14. i <= n BY <1>1, <2>11
  <2> QED BY <2>2, <2>4, <2>5, <2>13, <2>14
<1>4. \A i \in 1 .. L : i <= n /\ s[i] = <<s[1][1], i>> BY <1>3
<1>5. L >= 1 BY <1>2
<1> QED BY <1>1, <1>2, <1>4, <1>5

\* What is left behind it is whole messages again.
LEMMA MessageTaken ==
    ASSUME NEW L \in 0 .. Capacity, NEW s, InMessages(s, L), s # << >>
    PROVE  /\ \E w \in Writers : SubSeq(s, 1, L) = Message(w, L)
           /\ InMessages(SubSeq(s, L + 1, Len(s)), L)
<1>1. PICK n \in Nat : n = Len(s) /\ n # 0 /\ s \in [1 .. n -> Writers \X (1 .. L)]
  BY DEF InMessages
<1>2. /\ L <= n /\ s[1] \in Writers \X (1 .. L) /\ L >= 1
      /\ \A i \in 1 .. L : s[i] = <<s[1][1], i>>
  BY <1>1, FirstMessage
<1>3. /\ s[n][2] = L /\ s \in Seq(Writers \X (1 .. L))
      /\ \A i \in 1 .. n - 1 : Follows(L, s[i], s[i + 1])
  BY <1>1 DEF InMessages
<1>4. \E w \in Writers : SubSeq(s, 1, L) = Message(w, L)
  <2>1. s[1][1] \in Writers BY <1>2
  <2>2. SubSeq(s, 1, L) = [i \in 1 .. L |-> <<s[1][1], i>>] BY <1>1, <1>2, <1>3
  <2> QED BY <2>1, <2>2, MessageBytes
<1> DEFINE t == SubSeq(s, L + 1, n)
<1>5. /\ t \in Seq(Writers \X (1 .. L)) /\ Len(t) = n - L
      /\ \A i \in 1 .. n - L : t[i] = s[L + i]
  <2>1. /\ L + 1 \in 1 .. n + 1 /\ n \in L .. n /\ n = Len(s)
        /\ n - (L + 1) + 1 = n - L /\ L + 1 - 1 = L
    BY <1>1, <1>2
  <2>2. /\ \A i \in L + 1 .. n : s[i] \in Writers \X (1 .. L)
        /\ \A i \in 1 .. n - L : (L + 1) + i - 1 = L + i
    BY <1>1
  <2>3. /\ SubSeq(s, L + 1, n) \in Seq(Writers \X (1 .. L))
        /\ Len(SubSeq(s, L + 1, n)) = n - L
        /\ \A i \in 1 .. n - L : SubSeq(s, L + 1, n)[i] = s[(L + 1) + i - 1]
    <3>1. /\ SubSeq(s, L + 1, n) \in Seq(Writers \X (1 .. L))
          /\ Len(SubSeq(s, L + 1, n)) = IF L + 1 <= n THEN n - (L + 1) + 1 ELSE 0
          /\ \A i \in 1 .. n - (L + 1) + 1 : SubSeq(s, L + 1, n)[i] = s[(L + 1) + i - 1]
      <4>1. L + 1 \in Int /\ n \in Int BY <2>1
      <4> QED BY <2>2, <4>1, SubSeqProperties
    <3>2. (IF L + 1 <= n THEN n - (L + 1) + 1 ELSE 0) = n - L
      <4>1. L <= n BY <1>2
      <4> QED BY <4>1
    <3> QED BY <2>1, <3>1, <3>2
  <2> QED BY <2>2, <2>3
<1> HIDE DEF t
<1>6. ASSUME t # << >> PROVE t[1][2] = 1 /\ t[Len(t)][2] = L
  <2>1. n - L >= 1 BY <1>1, <1>2, <1>5, <1>6
  <2>2. t[1] = s[L + 1] /\ t[n - L] = s[n]
    <3>1. L + (n - L) = n /\ n - L \in 1 .. n - L /\ 1 \in 1 .. n - L BY <1>1, <1>2, <2>1
    <3> QED BY <1>5, <3>1
  <2>3. L \in 1 .. n - 1 BY <1>1, <1>2, <2>1
  <2>4. Follows(L, s[L], s[L + 1]) BY <1>3, <2>3
  <2>5. s[L][2] = L BY <1>2, <2>3
  <2> QED BY <1>3, <1>5, <2>2, <2>4, <2>5 DEF Follows
<1>7. ASSUME NEW i \in 1 .. Len(t) - 1 PROVE Follows(L, t[i], t[i + 1])
  <2>1. i \in 1 .. n - L /\ i + 1 \in 1 .. n - L /\ L + i \in 1 .. n - 1 /\ (L + i) + 1 = L + (i + 1)
    BY <1>1, <1>2, <1>5
  <2>2. t[i] = s[L + i] /\ t[i + 1] = s[(L + i) + 1] BY <1>5, <2>1
  <2> QED BY <1>3, <2>1, <2>2
<1>8. InMessages(t, L) BY <1>5, <1>6, <1>7 DEF InMessages
<1> QED BY <1>1, <1>4, <1>8 DEF t

\* A message behind whole messages.
LEMMA MessagePut ==
    ASSUME NEW L \in 0 .. Capacity, NEW s, InMessages(s, L), NEW w \in Writers
    PROVE  InMessages(s \o Message(w, L), L)
<1>1. PICK n \in Nat : n = Len(s) BY DEF InMessages
<1> DEFINE m == Message(w, L)
           t == s \o m
<1>2. /\ m = [i \in 1 .. L |-> <<w, i>>] /\ InMessages(m, L) /\ Len(m) = L
  BY MessageBytes, MessageType
<1>3. \A i \in 1 .. L : m[i] = <<w, i>> BY <1>2
<1> HIDE DEF m
<1>4. /\ s \in Seq(Writers \X (1 .. L)) /\ m \in Seq(Writers \X (1 .. L))
      /\ \A i \in 1 .. n - 1 : Follows(L, s[i], s[i + 1])
      /\ \A i \in 1 .. L - 1 : Follows(L, m[i], m[i + 1])
  BY <1>1, <1>2 DEF InMessages
<1>5. /\ t \in Seq(Writers \X (1 .. L)) /\ Len(t) = n + L
      /\ \A i \in 1 .. n : t[i] = s[i]
      /\ \A i \in 1 .. L : t[n + i] = m[i]
  BY <1>1, <1>2, <1>4
<1> HIDE DEF t
<1>6. CASE L = 0
  <2>1. t = s BY <1>2, <1>4, <1>6 DEF t
  <2> QED BY <2>1 DEF t, m
<1>7. CASE L # 0
  <2>1. t[1][2] = 1
    <3>1. CASE n = 0 
      <4>1. 0 + 1 = 1 /\ 1 \in 1 .. L BY <1>7
      <4> QED BY <1>3, <1>5, <3>1, <4>1
    <3>2. CASE n # 0 
      <4>1. s # << >> /\ 1 \in 1 .. n BY <1>1, <3>2
      <4> QED BY <1>5, <4>1 DEF InMessages
    <3> QED BY <3>1, <3>2
  <2>2. t[Len(t)][2] = L
    <3>1. L \in 1 .. L BY <1>7
    <3> QED BY <1>3, <1>5, <3>1
  <2>3. ASSUME NEW i \in 1 .. Len(t) - 1 PROVE Follows(L, t[i], t[i + 1])
    <3>1. CASE i < n
      <4>1. i \in 1 .. n - 1 /\ i \in 1 .. n /\ i + 1 \in 1 .. n BY <3>1
      <4> QED BY <1>4, <1>5, <4>1
    <3>2. CASE i = n
      <4>1. n \in 1 .. n /\ 1 \in 1 .. L /\ s # << >> BY <1>1, <1>7, <3>2
      <4>2. t[i] = s[n] /\ t[i + 1] = <<w, 1>> BY <1>3, <1>5, <3>2, <4>1
      <4>3. s[n][2] = L BY <1>1, <4>1 DEF InMessages
      <4> QED BY <4>2, <4>3 DEF Follows
    <3>3. CASE i > n
      <4>1. PICK j \in 1 .. L - 1 : i = n + j
        <5>1. i - n \in 1 .. L - 1 /\ i = n + (i - n) BY <1>5, <3>3
        <5> QED BY <5>1
      <4>2. j \in 1 .. L /\ j + 1 \in 1 .. L /\ (n + j) + 1 = n + (j + 1) OBVIOUS
      <4>3. t[n + j] = m[j] /\ t[(n + j) + 1] = m[j + 1] BY <1>5, <4>2
      <4> QED BY <1>4, <4>1, <4>3
    <3> QED BY <3>1, <3>2, <3>3
  <2>4. InMessages(t, L) BY <1>5, <2>1, <2>2, <2>3 DEF InMessages
  <2> QED BY <2>4 DEF t, m
<1> QED BY <1>6, <1>7

\* What holds of the pipe until a signal is delivered.
WholeInv(L) ==
    /\ \A p \in Procs : call[p] \in {"read", "write"} => len[p] = L
    /\ signals = 0 => InMessages(cbuffer, L) /\ WholeMessages

\* An end opened for writing was opened by a writer.
LEMMA SomeWriter ==
    ASSUME MonitorInv, signals = 0, prod_count # 0
    PROVE  Writers # {}
<1>1. WriteEnds = {} => Cardinality(WriteEnds) = 0 BY FS_EmptySet
<1>2. IsFiniteSet(WriteEnds) /\ IsFiniteSet(ReadEnds) /\ IsFiniteSet(Undoings)
  <2>1. ReadEnds \subseteq Procs /\ WriteEnds \subseteq Procs /\ Undoings \subseteq Procs
    BY DEF ReadEnds, WriteEnds, Undoings, Procs
  <2>2. IsFiniteSet(Procs) BY DEF Procs
  <2> QED BY <2>1, <2>2, FS_Subset
<1>3. /\ Cardinality(ReadEnds) \in Nat /\ Cardinality(WriteEnds) \in Nat
      /\ Cardinality(Undoings) \in Nat
  BY <1>2, FS_CardinalityType
<1>4. /\ Distance(cons_count, Cardinality(ReadEnds))
           + Distance(prod_count, Cardinality(WriteEnds)) + Cardinality(Undoings) <= 0
      /\ cons_count \in Int /\ prod_count \in Int
  BY DEF MonitorInv, DriftInv, TypeOK
<1>5. ASSUME NEW r \in Nat, NEW w \in Nat, NEW u \in Nat,
             Distance(cons_count, r) + Distance(prod_count, w) + u <= 0
      PROVE  prod_count = w
  BY <1>4, <1>5 DEF Distance
<1>6. WriteEnds # {} BY <1>1, <1>3, <1>4, <1>5
<1> QED BY <1>6 DEF WriteEnds

\* What a step of p that takes nothing and puts nothing leaves as it was.
Plain(p) ==
    /\ pc'[p] # "copy"
    /\ cbuffer' = cbuffer \/ cbuffer' = << >>

\* The locals of the others.
LEMMA LocalsFrame ==
    ASSUME TypeOK, NEW p \in Procs, Call(p) \/ Run(p) \/ Interrupt(p)
    PROVE  \A q \in Procs : q # p => len'[q] = len[q] /\ kbuffer'[q] = kbuffer[q]
<1>1. len \in [Procs -> 0 .. Capacity] /\ kbuffer \in [Procs -> Seq(Bytes)] BY DEF TypeOK
<1>2. CASE Call(p)
  BY <1>1, <1>2 DEF Call, CallOpen, CallRelease, CallRead, CallWrite, Enter
<1>3. CASE OpenConsumer(p) \/ OpenProducer(p) \/ Release(p) \/ ReadWait(p) \/ WriteWait(p)
  BY <1>1, <1>3
  DEF OpenConsumer, OpenProducer, Release, ReadWait, WriteWait, BlockConsumer, BlockProducer,
      Block, UnlockReturn, Return, locals
<1>4. CASE ReadEOF(p) \/ ReadTake(p) \/ ReadCopy(p) \/ WriteEPIPE(p) \/ WritePut(p)
  BY <1>1, <1>4 DEF ReadEOF, ReadTake, ReadCopy, WriteEPIPE, WritePut, UnlockReturn, Return
<1>5. CASE Sleep(p) \/ Woken(p) BY <1>5 DEF Sleep, Woken, locals
<1>6. CASE Undo(p) BY <1>1, <1>6 DEF Undo, UnlockReturn, Return
<1>7. CASE Interrupt(p)
  BY <1>1, <1>7 DEF Interrupt, InterruptSleep, InterruptLock, Return, locals
<1> QED BY <1>2, <1>3, <1>4, <1>5, <1>6, <1>7 DEF Run

\* The lengths asked of the handlers.
LEMMA SizeStep ==
    ASSUME NEW L, ReadLens \subseteq {L}, WriteLens \subseteq {L}, TypeOK,
           NEW p \in Procs, call[p] \in {"read", "write"} => len[p] = L,
           Call(p) \/ Run(p) \/ Interrupt(p)
    PROVE  call'[p] \in {"read", "write"} => len'[p] = L
<1>1. len \in [Procs -> 0 .. Capacity] /\ call \in [Procs -> Calls] BY DEF TypeOK
<1>2. CASE Call(p)
  BY <1>1, <1>2 DEF Call, CallOpen, CallRelease, CallRead, CallWrite, Enter
<1>3. CASE OpenConsumer(p) \/ OpenProducer(p) \/ Release(p) \/ ReadWait(p) \/ WriteWait(p)
  BY <1>1, <1>3
  DEF OpenConsumer, OpenProducer, Release, ReadWait, WriteWait, BlockConsumer, BlockProducer,
      Block, UnlockReturn, Return, locals
<1>4. CASE ReadEOF(p) \/ ReadTake(p) \/ ReadCopy(p) \/ WriteEPIPE(p) \/ WritePut(p)
  BY <1>1, <1>4 DEF ReadEOF, ReadTake, ReadCopy, WriteEPIPE, WritePut, UnlockReturn, Return
<1>5. CASE Sleep(p) \/ Woken(p) BY <1>5 DEF Sleep, Woken, locals
<1>6. CASE Undo(p) BY <1>1, <1>6 DEF Undo, UnlockReturn, Return
<1>7. CASE Interrupt(p)
  BY <1>1, <1>7 DEF Interrupt, InterruptSleep, InterruptLock, Return, locals
<1> QED BY <1>2, <1>3, <1>4, <1>5, <1>6, <1>7 DEF Run

\* Only ReadTake and WritePut touch the messages.
LEMMA PlainSteps ==
    ASSUME TypeOK, NEW p \in Procs, Call(p) \/ Run(p) \/ Interrupt(p),
           ~ReadTake(p), ~WritePut(p)
    PROVE  Plain(p)
<1>1. pc \in [Procs -> PCs] BY DEF TypeOK
<1> USE DEF Plain
<1>2. CASE Call(p)
  BY <1>1, <1>2 DEF Call, CallOpen, CallRelease, CallRead, CallWrite, Enter, shared
<1>3. CASE OpenConsumer(p) \/ OpenProducer(p) \/ Release(p) \/ ReadWait(p) \/ WriteWait(p)
  BY <1>1, <1>3
  DEF OpenConsumer, OpenProducer, Release, ReadWait, WriteWait, BlockConsumer, BlockProducer,
      Block, UnlockReturn, Return
<1>4. CASE ReadEOF(p) \/ ReadCopy(p) \/ WriteEPIPE(p)
  BY <1>1, <1>4 DEF ReadEOF, ReadCopy, WriteEPIPE, UnlockReturn, Return, shared
<1>5. CASE Sleep(p) \/ Woken(p) BY <1>1, <1>5 DEF Sleep, Woken, shared
<1>6. CASE Undo(p)
  <2>1. pc' = [pc EXCEPT ![p] = AfterEINTR(p)] /\ cbuffer' = cbuffer
    BY <1>6 DEF Undo, UnlockReturn, Return
  <2> QED BY <1>1, <2>1 DEF AfterEINTR
<1>7. CASE InterruptSleep(p) BY <1>1, <1>7 DEF InterruptSleep
<1>8. CASE InterruptLock(p)
  <2>1. pc' = [pc EXCEPT ![p] = AfterEINTR(p)] /\ cbuffer' = cbuffer
    BY <1>8 DEF InterruptLock, Return, shared
  <2> QED BY <1>1, <2>1 DEF AfterEINTR
<1> QED BY <1>2, <1>3, <1>4, <1>5, <1>6, <1>7, <1>8 DEF Run, Interrupt

LEMMA TakeStep ==
    ASSUME NEW L \in 0 .. Capacity, MonitorInv, signals = 0, InMessages(cbuffer, L),
           NEW p \in Procs, call[p] \in {"read", "write"} => len[p] = L, ReadTake(p)
    PROVE  /\ InMessages(cbuffer', L)
           /\ len'[p] = L /\ \E w \in Writers : kbuffer'[p] = Message(w, L)
<1> DEFINE r == IF len[p] < Len(cbuffer) THEN len[p] ELSE Len(cbuffer)
<1>1. /\ call[p] = "read" /\ ~NoData(p)
      /\ ~(cbuffer = << >> /\ prod_count = 0)
      /\ kbuffer' = [kbuffer EXCEPT ![p] = SubSeq(cbuffer, 1, r)]
      /\ cbuffer' = SubSeq(cbuffer, r + 1, Len(cbuffer))
      /\ len' = len
  BY DEF ReadTake, InHandler
<1>2. len[p] = L BY <1>1
<1>3. /\ kbuffer \in [Procs -> Seq(Bytes)] /\ cbuffer \in Seq(Bytes) /\ Len(cbuffer) \in Nat
      /\ Len(cbuffer) = 0 => cbuffer = << >>
  BY DEF MonitorInv, TypeOK
<1>4. prod_count \in Nat BY CountsAreNat
<1>5. r = L /\ (cbuffer = << >> => L = 0 /\ prod_count # 0)
  <2>1. CASE cbuffer = << >>
    <3>1. Len(cbuffer) = 0 /\ prod_count # 0 BY <1>1, <2>1
    <3>2. prod_count > 0 BY <1>4, <3>1
    <3>3. ~(0 < L) BY <1>1, <1>2, <3>1, <3>2 DEF NoData
    <3>4. L = 0 BY <3>3
    <3> QED BY <1>2, <3>1, <3>4
  <2>2. CASE cbuffer # << >>
    <3>1. L <= Len(cbuffer) BY <2>2, FirstMessage
    <3> QED BY <1>2, <1>3, <2>2, <3>1
  <2> QED BY <2>1, <2>2
<1> HIDE DEF r
<1>6. kbuffer'[p] = SubSeq(cbuffer, 1, L) /\ cbuffer' = SubSeq(cbuffer, L + 1, Len(cbuffer))
  BY <1>1, <1>3, <1>5
<1>7. CASE cbuffer # << >> BY <1>1, <1>2, <1>6, <1>7, MessageTaken
<1>8. CASE cbuffer = << >>
  <2>1. L = 0 /\ Len(cbuffer) = 0 BY <1>5, <1>8
  <2>2. PICK w \in Writers : TRUE BY <1>5, <1>8, SomeWriter
  <2>3. kbuffer'[p] = << >> /\ cbuffer' = << >> BY <1>6, <1>8, <2>1
  <2>4. Message(w, 0) = << >>
    <3>1. Message(w, 0) \in Seq(Bytes) /\ Len(Message(w, 0)) = 0 BY MessageType
    <3> QED BY <3>1
  <2> QED BY <1>1, <1>2, <1>8, <2>1, <2>3, <2>4
<1> QED BY <1>7, <1>8

LEMMA PutStep ==
    ASSUME NEW L \in 0 .. Capacity, MonitorInv, signals = 0, InMessages(cbuffer, L),
           NEW p \in Procs, call[p] \in {"read", "write"} => len[p] = L, WritePut(p)
    PROVE  InMessages(cbuffer', L) /\ pc'[p] # "copy"
<1>1. /\ call[p] = "write" /\ ~NoSpace(p) /\ cons_count # 0
      /\ cbuffer' = cbuffer \o SubSeq(kbuffer[p], 1, Fitting(len[p]))
      /\ pc' = [pc EXCEPT ![p] = "opened"]
  BY DEF WritePut, InHandler, UnlockReturn, Return
<1>2. /\ len[p] = L /\ p \in Writers /\ kbuffer[p] = Message(p, L) /\ Len(cbuffer) \in Nat
      /\ pc \in [Procs -> PCs] /\ len[p] \in Nat
  BY <1>1 DEF MonitorInv, TypeOK
<1>3. cons_count > 0
  <2>1. cons_count \in Nat BY CountsAreNat
  <2> QED BY <1>1, <2>1
<1>4. Capacity - Len(cbuffer) >= len[p] BY <1>1, <1>2, <1>3 DEF NoSpace
<1>5. cbuffer' = cbuffer \o Message(p, L) BY <1>1, <1>2, <1>4, WholeWrite DEF MonitorInv
<1>6. InMessages(cbuffer', L) BY <1>2, <1>5, MessagePut
<1>7. pc'[p] = "opened" BY <1>1, <1>2
<1> QED BY <1>6, <1>7

LEMMA NextWholeInv ==
    ASSUME NEW L \in 0 .. Capacity, ReadLens \subseteq {L}, WriteLens \subseteq {L}
    PROVE  MonitorInv /\ WholeInv(L) /\ [Next]_vars => (WholeInv(L))'
<1> SUFFICES ASSUME MonitorInv, WholeInv(L), [Next]_vars PROVE (WholeInv(L))' OBVIOUS
<1>1. CASE UNCHANGED vars
  BY <1>1 DEF vars, shared, locals, WholeInv, WholeMessages
<1>2. CASE Next
  <2>1. PICK p \in Procs : Call(p) \/ Run(p) \/ Interrupt(p) BY <1>2 DEF Next
  <2>2. /\ TypeOK /\ Frame(p) /\ EndKind(p)
        /\ \A q \in Procs : q # p => len'[q] = len[q] /\ kbuffer'[q] = kbuffer[q]
    BY <2>1, QueueSteps, EndSteps, LocalsFrame DEF MonitorInv, DriftInv
  <2>3. \A q \in Procs : call'[q] \in {"read", "write"} => len'[q] = L
    <3>1. call'[p] \in {"read", "write"} => len'[p] = L
      BY <2>1, <2>2, SizeStep DEF WholeInv
    <3> QED BY <2>2, <3>1 DEF Frame, WholeInv
  <2>4. ASSUME signals' = 0 PROVE InMessages(cbuffer', L) /\ WholeMessages'
    <3>1. signals = 0 BY <2>2, <2>4 DEF EndKind, Ends, TypeOK
    <3>2. InMessages(cbuffer, L) /\ WholeMessages BY <3>1 DEF WholeInv
    <3>3. ASSUME NEW q \in Procs, q # p, pc'[q] = "copy"
          PROVE  \E w \in Writers : kbuffer'[q] = Message(w, len'[q])
      BY <2>2, <3>2, <3>3 DEF Frame, WholeMessages
    <3>4. SUFFICES /\ InMessages(cbuffer', L)
                   /\ pc'[p] = "copy" => \E w \in Writers : kbuffer'[p] = Message(w, len'[p])
      BY <3>3 DEF WholeMessages
    <3>5. CASE ReadTake(p) BY <3>1, <3>2, <3>5, TakeStep DEF WholeInv
    <3>6. CASE WritePut(p) BY <3>1, <3>2, <3>6, PutStep DEF WholeInv
    <3>7. CASE ~ReadTake(p) /\ ~WritePut(p)
      <4>1. Plain(p) BY <2>1, <2>2, <3>7, PlainSteps
      <4>2. InMessages(<< >>, L) BY EmptySeq DEF InMessages
      <4> QED BY <3>2, <4>1, <4>2 DEF Plain
    <3> QED BY <3>5, <3>6, <3>7
  <2> QED BY <2>3, <2>4 DEF WholeInv
<1> QED BY <1>1, <1>2

LEMMA InitWholeInv ==
    ASSUME NEW L \in 0 .. Capacity
    PROVE  Init => WholeInv(L)
<1>1. InMessages(<< >>, L) BY EmptySeq DEF InMessages
<1> QED BY <1>1 DEF Init, WholeInv, WholeMessages

\* With messages of one size, and until a wait is interrupted, a read returns a
\* message of one writer and the whole of it, for any number of readers and
\* writers and whether or not the size divides the capacity.
THEOREM MessagesAreWholeUntilASignal ==
    ASSUME NEW L \in 0 .. Capacity, ReadLens \subseteq {L}, WriteLens \subseteq {L}
    PROVE  Spec => [](signals = 0 => WholeMessages)
<1>1. Init => MonitorInv /\ WholeInv(L) BY InitMonitorInv, InitWholeInv
<1>2. MonitorInv /\ WholeInv(L) /\ [Next]_vars => (MonitorInv /\ WholeInv(L))'
  BY NextMonitorInv, NextWholeInv
<1>3. WholeInv(L) => (signals = 0 => WholeMessages) BY DEF WholeInv
<1> QED BY <1>1, <1>2, <1>3, PTL DEF Spec

\* And always, where no wait can be interrupted.
THEOREM MessagesAreWhole ==
    ASSUME MaxSignals = 0,
           NEW L \in 0 .. Capacity, ReadLens \subseteq {L}, WriteLens \subseteq {L}
    PROVE  Spec => []WholeMessages
<1>1. Spec => [](signals = 0 => WholeMessages) BY MessagesAreWholeUntilASignal
<1>2. TypeOK => signals = 0 BY DEF TypeOK
<1> QED BY <1>1, <1>2, TypeCorrect, PTL

-----------------------------------------------------------------------------
(* One reader and one writer. *)

InLoop(p) == pc[p] \in {"presleep", "sleep", "undo"}

\* As long as its counter stands, who is in a loop is there for a reason.
ReadBlocked(p) ==
    call[p] = "read" /\ InLoop(p) /\ nr_cons_waiting > 0 => Len(cbuffer) < len[p]
WriteBlocked(p) ==
    call[p] = "write" /\ InLoop(p) /\ nr_prod_waiting > 0 => Capacity - Len(cbuffer) < len[p]

Asked(p) ==
    /\ call[p] = "read" => p \in Readers /\ len[p] \in ReadLens
    /\ call[p] = "write" => p \in Writers /\ len[p] \in WriteLens

PairInv == \A p \in Procs : Asked(p) /\ ReadBlocked(p) /\ WriteBlocked(p)

\* What a step of p does for itself.
LEMMA OwnBlock ==
    ASSUME TypeOK, NEW p \in Procs, Asked(p), ReadBlocked(p), WriteBlocked(p),
           Call(p) \/ Run(p) \/ Interrupt(p)
    PROVE  (Asked(p))' /\ (ReadBlocked(p))' /\ (WriteBlocked(p))'
<1>1. /\ pc \in [Procs -> PCs] /\ call \in [Procs -> Calls] /\ len \in [Procs -> 0 .. Capacity]
  BY DEF TypeOK
<1> USE DEF Asked, ReadBlocked, WriteBlocked, InLoop
<1>2. CASE Call(p)
  <2>1. CASE CallOpen(p) \/ CallRelease(p)
    BY <1>1, <2>1 DEF CallOpen, CallRelease, Enter
  <2>2. CASE CallRead(p) BY <1>1, <2>2 DEF CallRead, Enter
  <2>3. CASE CallWrite(p) BY <1>1, <2>3 DEF CallWrite, Enter
  <2> QED BY <1>2, <2>1, <2>2, <2>3 DEF Call
<1>3. CASE OpenConsumer(p) \/ OpenProducer(p)
  <2>1. call[p] = "open" /\ (call' = call \/ call' = [call EXCEPT ![p] = "none"])
    BY <1>3 DEF OpenConsumer, OpenProducer, InHandler, BlockConsumer, BlockProducer, Block,
                UnlockReturn, Return
  <2>2. call'[p] \in {"open", "none"} BY <1>1, <2>1
  <2> QED BY <2>2
<1>4. CASE \/ Release(p) \/ ReadEOF(p) \/ ReadCopy(p) \/ WriteEPIPE(p) \/ WritePut(p)
           \/ Undo(p) \/ InterruptLock(p)
  <2>1. call' = [call EXCEPT ![p] = "none"]
    BY <1>4 DEF Release, ReadEOF, ReadCopy, WriteEPIPE, WritePut, Undo, InterruptLock,
                UnlockReturn, Return
  <2>2. call'[p] = "none" BY <1>1, <2>1
  <2> QED BY <2>2
<1>5. CASE ReadTake(p)
  <2>1. call' = call /\ len' = len /\ pc' = [pc EXCEPT ![p] = "copy"] BY <1>5 DEF ReadTake
  <2> QED BY <1>1, <2>1
<1>6. CASE ReadWait(p)
  <2>1. /\ call[p] = "read" /\ call' = call /\ len' = len /\ cbuffer' = cbuffer
        /\ Len(cbuffer) < len[p]
    BY <1>6 DEF ReadWait, InHandler, NoData, BlockConsumer, Block, locals
  <2> QED BY <2>1
<1>7. CASE WriteWait(p)
  <2>1. /\ call[p] = "write" /\ call' = call /\ len' = len /\ cbuffer' = cbuffer
        /\ Capacity - Len(cbuffer) < len[p]
    BY <1>7 DEF WriteWait, InHandler, NoSpace, BlockProducer, Block, locals
  <2> QED BY <2>1
<1>8. CASE Sleep(p) \/ InterruptSleep(p)
  <2>1. /\ pc[p] \in {"presleep", "sleep"} /\ UNCHANGED <<call, len, cbuffer, waiting>>
    BY <1>8 DEF Sleep, InterruptSleep, Asleep, locals
  <2> QED BY <2>1 DEF waiting
<1>9. CASE Woken(p)
  <2>1. UNCHANGED <<call, len>> /\ pc' = [pc EXCEPT ![p] = "relock"]
    BY <1>9 DEF Woken, locals
  <2> QED BY <1>1, <2>1
<1> QED BY <1>2, <1>3, <1>4, <1>5, <1>6, <1>7, <1>8, <1>9 DEF Run, Interrupt

\* What a step of p does for the consumers when it is no consumer, and for the
\* producers when it is no producer.
LEMMA OtherEnd ==
    ASSUME TypeOK, NEW p \in Procs, Asked(p), Call(p) \/ Run(p) \/ Interrupt(p)
    PROVE  /\ p \notin Readers /\ nr_cons_waiting <= 1
                => \/ cbuffer' = cbuffer /\ nr_cons_waiting' = nr_cons_waiting
                   \/ nr_cons_waiting' <= 0
           /\ p \notin Writers /\ nr_prod_waiting <= 1
                => \/ cbuffer' = cbuffer /\ nr_prod_waiting' = nr_prod_waiting
                   \/ nr_prod_waiting' <= 0
<1>1. nr_cons_waiting \in Int /\ nr_prod_waiting \in Int /\ p \in Readers \cup Writers
  BY DEF TypeOK, Procs
<1>2. /\ WakeConsumer /\ nr_cons_waiting <= 1 => nr_cons_waiting' <= 0
      /\ WakeProducer /\ nr_prod_waiting <= 1 => nr_prod_waiting' <= 0
  BY <1>1 DEF WakeConsumer, WakeProducer
<1> DEFINE Kept == /\ p \notin Readers => UNCHANGED <<cbuffer, nr_cons_waiting>>
                   /\ p \notin Writers => UNCHANGED <<cbuffer, nr_prod_waiting>>
<1>3. CASE Kept BY <1>3
<1>4. CASE Call(p)
  <2>1. Kept BY <1>4 DEF Call, CallOpen, CallRelease, CallRead, CallWrite, Enter, shared, waiting
  <2> QED BY <1>3, <2>1
<1>5. CASE OpenConsumer(p)
  <2>1. p \in Readers /\ cbuffer' = cbuffer /\ (WakeProducer \/ UNCHANGED nr_prod_waiting)
    BY <1>5 DEF OpenConsumer
  <2> QED BY <1>2, <2>1
<1>6. CASE OpenProducer(p)
  <2>1. p \notin Readers /\ cbuffer' = cbuffer /\ (WakeConsumer \/ UNCHANGED nr_cons_waiting)
    BY <1>6 DEF OpenProducer
  <2> QED BY <1>1, <1>2, <2>1
<1>7. CASE Release(p)
  <2>1. \/ p \in Readers /\ WakeProducer
        \/ p \notin Readers /\ WakeConsumer
    BY <1>7 DEF Release
  <2> QED BY <1>1, <1>2, <2>1
<1>8. CASE ReadTake(p)
  <2>1. p \in Readers /\ WakeProducer BY <1>8 DEF ReadTake, InHandler, Asked
  <2> QED BY <1>2, <2>1
<1>9. CASE WritePut(p)
  <2>1. p \in Writers /\ WakeConsumer BY <1>9 DEF WritePut, InHandler, Asked
  <2> QED BY <1>2, <2>1
<1>10. CASE ReadWait(p)
  <2>1. p \in Readers /\ UNCHANGED <<cbuffer, nr_prod_waiting>>
    BY <1>10 DEF ReadWait, InHandler, Asked
  <2> QED BY <2>1
<1>11. CASE WriteWait(p)
  <2>1. p \in Writers /\ UNCHANGED <<cbuffer, nr_cons_waiting>>
    BY <1>11 DEF WriteWait, InHandler, Asked
  <2> QED BY <2>1
<1>12. CASE ReadEOF(p) \/ ReadCopy(p) \/ WriteEPIPE(p) \/ Sleep(p) \/ Woken(p) \/ Interrupt(p)
  <2>1. Kept
    BY <1>12 DEF ReadEOF, ReadCopy, WriteEPIPE, Sleep, Woken, Interrupt, InterruptSleep,
                 InterruptLock, shared, waiting
  <2> QED BY <1>3, <2>1
<1>13. CASE Undo(p)
  <2>1. /\ cbuffer' = cbuffer
        /\ \/ WaitsAsConsumer(p) /\ nr_prod_waiting' = nr_prod_waiting
           \/ WaitsAsProducer(p) /\ nr_cons_waiting' = nr_cons_waiting
    BY <1>13 DEF Undo
  <2>2. (WaitsAsConsumer(p) => p \in Readers) /\ (WaitsAsProducer(p) => p \in Writers)
    BY <1>1 DEF WaitsAsConsumer, WaitsAsProducer, Asked
  <2> QED BY <2>1, <2>2
<1> QED BY <1>4, <1>5, <1>6, <1>7, <1>8, <1>9, <1>10, <1>11, <1>12, <1>13 DEF Run

\* A lone process makes a count of one at most.
LEMMA LoneCount ==
    ASSUME TypeOK, ConsumerQueue, ProducerQueue, PairInv
    PROVE  /\ (\A p, q \in Readers : p = q) => nr_cons_waiting <= 1
           /\ (\A p, q \in Writers : p = q) => nr_prod_waiting <= 1
<1>1. ASSUME NEW Q, NEW S, Q \subseteq S, \A p, q \in S : p = q
      PROVE  Cardinality(Q) \in {0, 1}
  <2>1. CASE Q = {} BY <2>1, FS_EmptySet
  <2>2. CASE Q # {}
    <3>1. PICK p \in Q : TRUE BY <2>2
    <3>2. Q = {p} BY <1>1, <3>1
    <3> QED BY <3>2, FS_Singleton
  <2> QED BY <2>1, <2>2
<1>2. ConsumersQueued \subseteq Readers /\ ProducersQueued \subseteq Writers
  BY DEF ConsumersQueued, ProducersQueued, WaitsAsConsumer, WaitsAsProducer, PairInv, Asked, Procs
<1>3. /\ nr_cons_waiting + sem_cons.count = Cardinality(ConsumersQueued)
      /\ nr_prod_waiting + sem_prod.count = Cardinality(ProducersQueued)
      /\ nr_cons_waiting \in Int /\ sem_cons.count \in Nat
      /\ nr_prod_waiting \in Int /\ sem_prod.count \in Nat
  BY DEF ConsumerQueue, ProducerQueue, Accounted, Semaphores
<1>4. ASSUME \A p, q \in Readers : p = q PROVE nr_cons_waiting <= 1
  <2>1. Cardinality(ConsumersQueued) \in {0, 1} BY <1>1, <1>2, <1>4
  <2> QED BY <1>3, <2>1
<1>5. ASSUME \A p, q \in Writers : p = q PROVE nr_prod_waiting <= 1
  <2>1. Cardinality(ProducersQueued) \in {0, 1} BY <1>1, <1>2, <1>5
  <2> QED BY <1>3, <2>1
<1> QED BY <1>4, <1>5

LEMMA NextPairInv ==
    ASSUME \A p, q \in Readers : p = q, \A p, q \in Writers : p = q
    PROVE  TypeOK /\ ConsumerQueue /\ ProducerQueue /\ PairInv /\ [Next]_vars => PairInv'
<1> SUFFICES ASSUME TypeOK, ConsumerQueue, ProducerQueue, PairInv, [Next]_vars PROVE PairInv'
  OBVIOUS
<1>1. CASE UNCHANGED vars
  BY <1>1
  DEF vars, shared, locals, waiting, PairInv, Asked, ReadBlocked, WriteBlocked, InLoop
<1>2. CASE Next
  <2>1. PICK p \in Procs : Call(p) \/ Run(p) \/ Interrupt(p) BY <1>2 DEF Next
  <2>2. (Asked(p))' /\ (ReadBlocked(p))' /\ (WriteBlocked(p))'
    BY <2>1, OwnBlock DEF PairInv
  <2>3. Frame(p) /\ \A q \in Procs : q # p => len'[q] = len[q]
    BY <2>1, QueueSteps, LocalsFrame
  <2>4. nr_cons_waiting <= 1 /\ nr_prod_waiting <= 1 BY LoneCount
  <2>5. /\ p \notin Readers
             => \/ cbuffer' = cbuffer /\ nr_cons_waiting' = nr_cons_waiting
                \/ nr_cons_waiting' <= 0
        /\ p \notin Writers
             => \/ cbuffer' = cbuffer /\ nr_prod_waiting' = nr_prod_waiting
                \/ nr_prod_waiting' <= 0
    BY <2>1, <2>4, OtherEnd DEF PairInv
  <2>6. TypeOK' BY NextTypeOK
  <2>7. nr_cons_waiting' \in Int /\ nr_prod_waiting' \in Int BY <2>6 DEF TypeOK
  <2>8. ASSUME NEW q \in Procs, q # p
        PROVE  (Asked(q))' /\ (ReadBlocked(q))' /\ (WriteBlocked(q))'
    <3>1. pc'[q] = pc[q] /\ call'[q] = call[q] /\ len'[q] = len[q] BY <2>3, <2>8 DEF Frame
    <3>2. Asked(q) /\ ReadBlocked(q) /\ WriteBlocked(q) BY DEF PairInv
    <3>3. (Asked(q))' BY <3>1, <3>2 DEF Asked
    <3>4. (ReadBlocked(q))'
      <4>1. SUFFICES ASSUME call[q] = "read", InLoop(q), nr_cons_waiting' > 0
                     PROVE  Len(cbuffer') < len[q]
        BY <3>1 DEF ReadBlocked, InLoop
      <4>2. q \in Readers /\ p \notin Readers BY <2>8, <3>2, <4>1 DEF Asked
      <4>3. cbuffer' = cbuffer /\ nr_cons_waiting' = nr_cons_waiting
        BY <2>5, <2>7, <4>1, <4>2
      <4> QED BY <3>2, <4>1, <4>3 DEF ReadBlocked
    <3>5. (WriteBlocked(q))'
      <4>1. SUFFICES ASSUME call[q] = "write", InLoop(q), nr_prod_waiting' > 0
                     PROVE  Capacity - Len(cbuffer') < len[q]
        BY <3>1 DEF WriteBlocked, InLoop
      <4>2. q \in Writers /\ p \notin Writers BY <2>8, <3>2, <4>1 DEF Asked
      <4>3. cbuffer' = cbuffer /\ nr_prod_waiting' = nr_prod_waiting
        BY <2>5, <2>7, <4>1, <4>2
      <4> QED BY <3>2, <4>1, <4>3 DEF WriteBlocked
    <3> QED BY <3>3, <3>4, <3>5
  <2> QED BY <2>2, <2>8 DEF PairInv
<1> QED BY <1>1, <1>2

\* One reader and one writer never wait for each other, for any capacity and any
\* lengths of which no two exceed the capacity by more than one, and whatever
\* waits are interrupted.
THEOREM ReaderAndWriterDoNotBlock ==
    ASSUME \A p, q \in Readers : p = q, \A p, q \in Writers : p = q,
           \A m \in ReadLens, n \in WriteLens : m + n <= Capacity + 1
    PROVE  Spec => []NoMutualBlock
<1> DEFINE IInv == TypeOK /\ ConsumerQueue /\ ProducerQueue /\ PairInv
<1>1. Init => IInv
  <2>1. Init => PairInv BY DEF Init, PairInv, Asked, ReadBlocked, WriteBlocked
  <2> QED BY <2>1, InitTypeOK, InitQueues
<1>2. IInv /\ [Next]_vars => IInv' BY NextTypeOK, NextQueues, NextPairInv
<1>3. IInv => NoMutualBlock
  <2> SUFFICES ASSUME IInv, NEW p \in Procs, NEW q \in Procs, Asleep(p), Asleep(q),
                      call[p] = "read", call[q] = "write"
               PROVE  FALSE
    BY DEF NoMutualBlock
  <2>1. SleepersAreCounted
    BY AccountedSleepers DEF ConsumerQueue, ProducerQueue, Accounted, SleepersAreCounted
  <2>2. Waiting(sem_cons, p) /\ Waiting(sem_prod, q) /\ InLoop(p) /\ InLoop(q)
    BY DEF Asleep, WaitsAsConsumer, WaitsAsProducer, InLoop
  <2>3. ASSUME NEW s \in Semaphores(Procs), NEW x, Waiting(s, x)
        PROVE  s.waiters # << >> /\ Len(s.waiters) \in Nat /\ Len(s.waiters) > 0
    BY <2>3 DEF Waiting, Semaphores
  <2>4. /\ sem_cons \in Semaphores(Procs) /\ sem_prod \in Semaphores(Procs)
        /\ nr_cons_waiting \in Int /\ nr_prod_waiting \in Int
    BY DEF TypeOK
  <2>5. /\ Len(sem_cons.waiters) \in Nat /\ Len(sem_cons.waiters) > 0
        /\ Len(sem_cons.waiters) <= nr_cons_waiting
        /\ Len(sem_prod.waiters) \in Nat /\ Len(sem_prod.waiters) > 0
        /\ Len(sem_prod.waiters) <= nr_prod_waiting
    BY <2>1, <2>2, <2>3, <2>4 DEF SleepersAreCounted
  <2>6. nr_cons_waiting > 0 /\ nr_prod_waiting > 0 BY <2>4, <2>5
  <2>7. Len(cbuffer) < len[p] /\ Capacity - Len(cbuffer) < len[q]
    BY <2>2, <2>6 DEF PairInv, ReadBlocked, WriteBlocked
  <2>8. len[p] \in ReadLens /\ len[q] \in WriteLens BY DEF PairInv, Asked
  <2>9. len[p] + len[q] <= Capacity + 1 BY <2>8
  <2>10. Len(cbuffer) \in Nat /\ len[p] \in Nat /\ len[q] \in Nat BY DEF TypeOK
  <2> QED BY <2>7, <2>9, <2>10
<1>4. QED BY <1>1, <1>2, <1>3, PTL DEF Spec
=============================================================================
