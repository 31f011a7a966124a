------------------------------ MODULE FifoPipe ------------------------------
(***************************************************************************)
(* The FIFO pipe of "mod4 - FIFO pipes and syncronization/Submission":     *)
(* ParteB/fifoproc.c (a /proc entry) and Opcional/fifodev.c (a character   *)
(* device), whose four handlers are the same.                              *)
(*                                                                         *)
(* A process is one open file of the pipe at a time.  Readers are the ones *)
(* that open it with FMODE_READ, Writers the ones with FMODE_WRITE; one in *)
(* both sets opens it O_RDWR, and then the code takes it for a consumer.   *)
(*                                                                         *)
(* A handler runs between two waits without being observed: mtx is held.   *)
(* So one action is one critical section, from the grant of mtx to the     *)
(* up(&mtx) that ends it, and the points where other processes may run     *)
(* are the values of pc:                                                   *)
(*   closed    the process has no open file                                *)
(*   opened    it has one and is in no handler                             *)
(*   lock      in the first down_interruptible(&mtx) of a handler          *)
(*   presleep  counted as waiting, mtx released, semaphore not taken yet   *)
(*   sleep     in down_interruptible(&sem_prod) or (&sem_cons)             *)
(*   relock    in the down_interruptible(&mtx) that follows the sleep      *)
(*   undo      in the down(&mtx) that follows an interrupted sleep         *)
(*   copy      in the copy_to_user() that ends read()                      *)
(* The -ENOSPC and -EFAULT returns before the first down change nothing    *)
(* and are not steps.                                                      *)
(***************************************************************************)
EXTENDS Integers, Sequences, FiniteSets, Semaphore

CONSTANTS Readers,      \* processes whose open has FMODE_READ
          Writers,      \* processes whose open has FMODE_WRITE
          Capacity,     \* MAX_ITEMS_CBUF, the bytes cbuffer holds
          ReadLens,     \* lengths asked of read()
          WriteLens,    \* lengths asked of write()
          MaxSignals    \* bound on the signals that interrupt a wait

ASSUME PipeAssumption ==
    /\ Capacity \in Nat \ {0}
    /\ ReadLens \subseteq 0 .. Capacity
    /\ WriteLens \subseteq 0 .. Capacity
    /\ MaxSignals \in Nat
    /\ IsFiniteSet(Readers \cup Writers)

Procs == Readers \cup Writers

EINTR == -4
EPIPE == -32

VARIABLES
    mtx, sem_prod, sem_cons,            \* the three semaphores
    prod_count, cons_count,             \* ends opened for writing, for reading
    nr_prod_waiting, nr_cons_waiting,   \* waiting producers, consumers
    cbuffer,                            \* the kfifo: a sequence of bytes
    pc, call,                           \* where each process is, in which handler
    len, kbuffer,                       \* locals of read() and write()
    ret,                                \* what the last read() or write() returned
    signals                             \* interruptions so far

counters  == <<prod_count, cons_count>>
waiting   == <<nr_prod_waiting, nr_cons_waiting>>
queues    == <<sem_prod, sem_cons>>
locals    == <<len, kbuffer, ret>>
shared    == <<queues, counters, waiting, cbuffer>>
vars      == <<mtx, shared, pc, call, locals, signals>>

PCs   == {"closed", "opened", "lock", "presleep", "sleep", "relock", "undo", "copy"}
Calls == {"none", "open", "release", "read", "write"}

\* A byte of the pipe: who wrote it, and its position in the message.
Bytes == Writers \X (1 .. Capacity)

\* copy_from_user(kbuffer, buff, n): the first n bytes of the user's buffer.
UserBuffer(p) == [i \in 1 .. Capacity |-> <<p, i>>]
Message(p, n) == SubSeq(UserBuffer(p), 1, n)

Init ==
    /\ mtx = SemInit(1) /\ sem_prod = SemInit(0) /\ sem_cons = SemInit(0)
    /\ prod_count = 0 /\ cons_count = 0
    /\ nr_prod_waiting = 0 /\ nr_cons_waiting = 0
    /\ cbuffer = << >>
    /\ pc = [p \in Procs |-> "closed"]
    /\ call = [p \in Procs |-> "none"]
    /\ len = [p \in Procs |-> 0]
    /\ kbuffer = [p \in Procs |-> << >>]
    /\ ret = [p \in Procs |-> 0]
    /\ signals = 0
-----------------------------------------------------------------------------
(* Entering a handler: everything up to the first down_interruptible(&mtx). *)

Enter(p, handler, n, data) ==
    /\ mtx' = Down(mtx, p)
    /\ pc' = [pc EXCEPT ![p] = "lock"]
    /\ call' = [call EXCEPT ![p] = handler]
    /\ len' = [len EXCEPT ![p] = n]
    /\ kbuffer' = [kbuffer EXCEPT ![p] = data]
    /\ ret' = [ret EXCEPT ![p] = 0]
    /\ UNCHANGED <<shared, signals>>

CallOpen(p)    == pc[p] = "closed" /\ Enter(p, "open", 0, << >>)
CallRelease(p) == pc[p] = "opened" /\ Enter(p, "release", 0, << >>)

CallRead(p) ==
    /\ pc[p] = "opened" /\ p \in Readers
    /\ \E n \in ReadLens : Enter(p, "read", n, << >>)

CallWrite(p) ==
    /\ pc[p] = "opened" /\ p \in Writers
    /\ \E n \in WriteLens : Enter(p, "write", n, Message(p, n))
-----------------------------------------------------------------------------
(* The pieces of a critical section. *)

\* p holds mtx: one of its downs has been granted and the up has not come.
Owns(p) == pc[p] \in {"lock", "relock", "undo"} /\ ~Waiting(mtx, p)

InHandler(p, handler) ==
    call[p] = handler /\ pc[p] \in {"lock", "relock"} /\ Owns(p)

\* Mutant: a wake that needs two waiters.
WakeProducerLate ==
    IF nr_prod_waiting > 1
    THEN sem_prod' = Up(sem_prod) /\ nr_prod_waiting' = nr_prod_waiting - 1
    ELSE UNCHANGED <<sem_prod, nr_prod_waiting>>

\* "Wakes up one of the blocked producer threads", and the consumers' twin.
WakeProducer ==
    IF nr_prod_waiting > 0
    THEN sem_prod' = Up(sem_prod) /\ nr_prod_waiting' = nr_prod_waiting - 1
    ELSE UNCHANGED <<sem_prod, nr_prod_waiting>>

WakeConsumer ==
    IF nr_cons_waiting > 0
    THEN sem_cons' = Up(sem_cons) /\ nr_cons_waiting' = nr_cons_waiting - 1
    ELSE UNCHANGED <<sem_cons, nr_cons_waiting>>

Unlock == mtx' = Up(mtx)

\* The loop body up to the sleep: count the waiter, free the mutex.
Block(p) ==
    /\ Unlock
    /\ pc' = [pc EXCEPT ![p] = "presleep"]
    /\ UNCHANGED <<call, locals, signals>>

\* Mutant: the reader sleeps without being counted.
BlockConsumerUncounted(p) == UNCHANGED nr_cons_waiting /\ Block(p)

BlockConsumer(p) == nr_cons_waiting' = nr_cons_waiting + 1 /\ Block(p)
BlockProducer(p) == nr_prod_waiting' = nr_prod_waiting + 1 /\ Block(p)

\* A handler ends: the process is back in user space with result r.
Return(p, state, r) ==
    /\ pc' = [pc EXCEPT ![p] = state]
    /\ call' = [call EXCEPT ![p] = "none"]
    /\ len' = [len EXCEPT ![p] = 0]
    /\ kbuffer' = [kbuffer EXCEPT ![p] = << >>]
    /\ ret' = [ret EXCEPT ![p] = r]

UnlockReturn(p, state, r) == Unlock /\ Return(p, state, r) /\ UNCHANGED signals

\* Which of the two queues the current handler of p waits on.
WaitsAsConsumer(p) == call[p] = "read" \/ (call[p] = "open" /\ p \in Readers)
WaitsAsProducer(p) == call[p] = "write" \/ (call[p] = "open" /\ p \notin Readers)
-----------------------------------------------------------------------------
(* open *)

\* Mutant: the count is inside the loop.
EveryPass(p) == TRUE

\* The end is counted, and the other side woken, before the loop.
FirstPass(p) == pc[p] = "lock"

OpenConsumer(p) ==
    /\ InHandler(p, "open") /\ p \in Readers
    /\ IF FirstPass(p)
       THEN cons_count' = cons_count + 1 /\ WakeProducer
       ELSE UNCHANGED <<cons_count, sem_prod, nr_prod_waiting>>
    /\ \/ prod_count = 0 /\ BlockConsumer(p)
       \/ /\ prod_count # 0
          /\ UnlockReturn(p, "opened", 0)
          /\ UNCHANGED nr_cons_waiting
    /\ UNCHANGED <<sem_cons, prod_count, cbuffer>>

OpenProducer(p) ==
    /\ InHandler(p, "open") /\ p \notin Readers
    /\ IF FirstPass(p)
       THEN prod_count' = prod_count + 1 /\ WakeConsumer
       ELSE UNCHANGED <<prod_count, sem_cons, nr_cons_waiting>>
    /\ \/ cons_count = 0 /\ BlockProducer(p)
       \/ /\ cons_count # 0
          /\ UnlockReturn(p, "opened", 0)
          /\ UNCHANGED nr_prod_waiting
    /\ UNCHANGED <<sem_prod, cons_count, cbuffer>>

(* release *)

LastClose == cons_count' = 0 /\ prod_count' = 0

Release(p) ==
    /\ InHandler(p, "release")
    /\ \/ /\ p \in Readers
          /\ cons_count' = cons_count - 1
          /\ WakeProducer
          /\ UNCHANGED <<prod_count, sem_cons, nr_cons_waiting>>
       \/ /\ p \notin Readers
          /\ prod_count' = prod_count - 1
          /\ WakeConsumer
          /\ UNCHANGED <<cons_count, sem_prod, nr_prod_waiting>>
    /\ cbuffer' = IF LastClose THEN << >> ELSE cbuffer
    /\ UnlockReturn(p, "closed", 0)

(* read *)

NoData(p) == Len(cbuffer) < len[p] /\ prod_count > 0

ReadWait(p) ==
    /\ InHandler(p, "read") /\ NoData(p)
    /\ BlockConsumer(p)
    /\ UNCHANGED <<queues, counters, nr_prod_waiting, cbuffer>>

ReadEOF(p) ==
    /\ InHandler(p, "read") /\ ~NoData(p)
    /\ cbuffer = << >> /\ prod_count = 0
    /\ UnlockReturn(p, "opened", 0)
    /\ UNCHANGED shared

\* kfifo_out takes what there is, at most len bytes.
ReadTake(p) ==
    LET r == IF len[p] < Len(cbuffer) THEN len[p] ELSE Len(cbuffer)
    IN  /\ InHandler(p, "read") /\ ~NoData(p)
        /\ ~(cbuffer = << >> /\ prod_count = 0)
        /\ kbuffer' = [kbuffer EXCEPT ![p] = SubSeq(cbuffer, 1, r)]
        /\ cbuffer' = SubSeq(cbuffer, r + 1, Len(cbuffer))
        /\ WakeProducer
        /\ Unlock
        /\ pc' = [pc EXCEPT ![p] = "copy"]
        /\ UNCHANGED <<sem_cons, counters, nr_cons_waiting, call, len, ret, signals>>

\* copy_to_user(), which does not fail here; the result is len, whatever kfifo_out
\* returned.
ReadCopy(p) ==
    /\ pc[p] = "copy"
    /\ Return(p, "opened", len[p])
    /\ UNCHANGED <<mtx, shared, signals>>

(* write *)

\* Mutants: waits for one more byte than it needs; waits for any room at all.
NoSpaceOffByOne(p) == Capacity - Len(cbuffer) <= len[p] /\ cons_count > 0
NoSpaceFull(p)     == Capacity = Len(cbuffer) /\ cons_count > 0

NoSpace(p) == Capacity - Len(cbuffer) < len[p] /\ cons_count > 0

WriteWait(p) ==
    /\ InHandler(p, "write") /\ NoSpace(p)
    /\ BlockProducer(p)
    /\ UNCHANGED <<queues, counters, nr_cons_waiting, cbuffer>>

\* Mutant: the error path forgets up(&mtx).
WriteEPIPEKeepsMutex(p) ==
    /\ InHandler(p, "write") /\ ~NoSpace(p)
    /\ cons_count = 0
    /\ Return(p, "opened", EPIPE)
    /\ UNCHANGED <<mtx, shared, signals>>

WriteEPIPE(p) ==
    /\ InHandler(p, "write") /\ ~NoSpace(p)
    /\ cons_count = 0
    /\ UnlockReturn(p, "opened", EPIPE)
    /\ UNCHANGED shared

\* kfifo_in stores what fits.
Fitting(n) == IF n < Capacity - Len(cbuffer) THEN n ELSE Capacity - Len(cbuffer)

WritePut(p) ==
    LET r == Fitting(len[p])
    IN  /\ InHandler(p, "write") /\ ~NoSpace(p)
        /\ cons_count # 0
        /\ cbuffer' = cbuffer \o SubSeq(kbuffer[p], 1, r)
        /\ WakeConsumer
        /\ UnlockReturn(p, "opened", len[p])
        /\ UNCHANGED <<sem_prod, counters, nr_prod_waiting>>
-----------------------------------------------------------------------------
(* The wait common to open, read and write. *)

Sleep(p) ==
    /\ pc[p] = "presleep"
    /\ pc' = [pc EXCEPT ![p] = "sleep"]
    /\ \/ WaitsAsConsumer(p) /\ sem_cons' = Down(sem_cons, p) /\ UNCHANGED sem_prod
       \/ WaitsAsProducer(p) /\ sem_prod' = Down(sem_prod, p) /\ UNCHANGED sem_cons
    /\ UNCHANGED <<mtx, counters, waiting, cbuffer, call, locals, signals>>

\* p is in the list of the semaphore its handler sleeps on.
Asleep(p) ==
    /\ pc[p] = "sleep"
    /\ \/ WaitsAsConsumer(p) /\ Waiting(sem_cons, p)
       \/ WaitsAsProducer(p) /\ Waiting(sem_prod, p)

Woken(p) ==
    /\ pc[p] = "sleep" /\ ~Asleep(p)
    /\ mtx' = Down(mtx, p)
    /\ pc' = [pc EXCEPT ![p] = "relock"]
    /\ UNCHANGED <<shared, call, locals, signals>>

\* A signal ends the sleep: the handler goes for mtx to take back its marks.
InterruptSleep(p) ==
    /\ Asleep(p) /\ signals < MaxSignals
    /\ signals' = signals + 1
    /\ \/ WaitsAsConsumer(p) /\ sem_cons' = Cancel(sem_cons, p) /\ UNCHANGED sem_prod
       \/ WaitsAsProducer(p) /\ sem_prod' = Cancel(sem_prod, p) /\ UNCHANGED sem_cons
    /\ mtx' = Down(mtx, p)
    /\ pc' = [pc EXCEPT ![p] = "undo"]
    /\ UNCHANGED <<counters, waiting, cbuffer, call, locals>>

\* Where a handler that failed with -EINTR leaves the process.
AfterEINTR(p) == IF call[p] \in {"open", "release"} THEN "closed" ELSE "opened"

Undo(p) ==
    /\ pc[p] = "undo" /\ Owns(p)
    /\ \/ /\ WaitsAsConsumer(p)
          /\ nr_cons_waiting' = nr_cons_waiting - 1
          /\ cons_count' = cons_count - 1
          /\ UNCHANGED <<nr_prod_waiting, prod_count>>
       \/ /\ WaitsAsProducer(p)
          /\ nr_prod_waiting' = nr_prod_waiting - 1
          /\ prod_count' = prod_count - 1
          /\ UNCHANGED <<nr_cons_waiting, cons_count>>
    /\ UnlockReturn(p, AfterEINTR(p), EINTR)
    /\ UNCHANGED <<queues, cbuffer>>

\* A signal ends a wait for mtx: the handler returns at once.
InterruptLock(p) ==
    /\ pc[p] \in {"lock", "relock"} /\ Waiting(mtx, p)
    /\ signals < MaxSignals
    /\ signals' = signals + 1
    /\ mtx' = Cancel(mtx, p)
    /\ Return(p, AfterEINTR(p), EINTR)
    /\ UNCHANGED shared
-----------------------------------------------------------------------------
Call(p) == CallOpen(p) \/ CallRelease(p) \/ CallRead(p) \/ CallWrite(p)

Run(p) ==
    \/ OpenConsumer(p) \/ OpenProducer(p) \/ Release(p)
    \/ ReadWait(p) \/ ReadEOF(p) \/ ReadTake(p) \/ ReadCopy(p)
    \/ WriteWait(p) \/ WriteEPIPE(p) \/ WritePut(p)
    \/ Sleep(p) \/ Woken(p) \/ Undo(p)

Interrupt(p) == InterruptSleep(p) \/ InterruptLock(p)

Next == \E p \in Procs : Call(p) \/ Run(p) \/ Interrupt(p)

Spec == Init /\ [][Next]_vars

\* The scheduler runs every runnable process; nobody is bound to make a call.
Fairness == \A p \in Procs : WF_vars(Run(p))

FairSpec == Spec /\ Fairness
-----------------------------------------------------------------------------
(* Properties. *)

\* The values each variable may take, signals or not.
TypeOK ==
    /\ mtx \in Semaphores(Procs)
    /\ sem_prod \in Semaphores(Procs)
    /\ sem_cons \in Semaphores(Procs)
    /\ prod_count \in Int /\ cons_count \in Int
    /\ nr_prod_waiting \in Int /\ nr_cons_waiting \in Int
    /\ cbuffer \in Seq(Bytes) /\ Len(cbuffer) <= Capacity
    /\ pc \in [Procs -> PCs]
    /\ call \in [Procs -> Calls]
    /\ len \in [Procs -> 0 .. Capacity]
    /\ kbuffer \in [Procs -> Seq(Bytes)]
    /\ ret \in [Procs -> Int]
    /\ signals \in 0 .. MaxSignals
    /\ \A p \in Procs : call[p] = "write" => p \in Writers /\ kbuffer[p] = Message(p, len[p])

\* mtx is free or has one owner, never both and never neither, on every path
\* through the handlers: no path forgets the up(&mtx), none does it twice, and
\* an interrupted wait neither drops the mutex nor takes it twice.
MutexConserved ==
    /\ mtx.count \in {0, 1}
    /\ mtx.count = 1 => \A p \in Procs : ~Owns(p)
    /\ mtx.count = 0 => \E p \in Procs : Owns(p)
    /\ \A p, q \in Procs : Owns(p) /\ Owns(q) => p = q

\* The processes nr_cons_waiting (nr_prod_waiting) still answers for: counted
\* by Block, and neither granted the queue's semaphore nor through with Undo.
OnQueue(p) == pc[p] \in {"presleep", "undo"} \/ Asleep(p)
ConsumersQueued == {p \in Procs : OnQueue(p) /\ WaitsAsConsumer(p)}
ProducersQueued == {p \in Procs : OnQueue(p) /\ WaitsAsProducer(p)}

\* A process in the list of a queue can be woken: "if (nr_cons_waiting > 0)"
\* sees it, even when interrupted waits made the counter disagree with the
\* number of waiting processes.
SleepersAreCounted ==
    /\ sem_cons.waiters # << >> => Len(sem_cons.waiters) <= nr_cons_waiting
    /\ sem_prod.waiters # << >> => Len(sem_prod.waiters) <= nr_prod_waiting

\* The wait counters against the queues: each differs from the number of
\* processes it answers for by the ups nobody has consumed yet, through
\* interrupted waits too, so that whoever sleeps can be woken.
WaitAccounting ==
    /\ nr_cons_waiting + sem_cons.count = Cardinality(ConsumersQueued)
    /\ nr_prod_waiting + sem_prod.count = Cardinality(ProducersQueued)
    /\ SleepersAreCounted

\* The process has the pipe open: in no handler, in one of an open file, or
\* past the count in open().
Counted(p) ==
    \/ pc[p] = "opened"
    \/ call[p] \in {"read", "write", "release"}
    \/ call[p] = "open" /\ pc[p] # "lock"

\* cons_count and prod_count are, as their declarations say, the number of
\* processes that opened the entry for reading and for writing; an interrupted
\* wait (in open(), read(), write() or release()) can put one of them off by one
\* and nothing else can.
Distance(m, n) == IF m < n THEN n - m ELSE m - n
CountsDriftBySignals ==
    Distance(cons_count, Cardinality({p \in Readers : Counted(p)}))
        + Distance(prod_count, Cardinality({p \in Writers \ Readers : Counted(p)})) <= signals

\* With messages of one size, as fifotest sends them, no read ever returns the
\* end of a message with the start of another, or only a part of one, however
\* many writers there are and whether or not the size divides the capacity.
WholeMessages ==
    \A p \in Procs : pc[p] = "copy" =>
        \E w \in Writers : kbuffer[p] = Message(w, len[p])

\* read() returns the number of bytes it hands over (fifotest tells a short
\* read from a whole one by the result).
ReadReportsWhatItGot ==
    [][\A p \in Procs : pc[p] = "copy" /\ pc'[p] = "opened"
        => ret'[p] = Len(kbuffer[p])]_vars

\* The condition of the loop p sleeps in no longer holds.
MayProceed(p) ==
    \/ call[p] = "open" /\ p \in Readers /\ prod_count # 0
    \/ call[p] = "open" /\ p \notin Readers /\ cons_count # 0
    \/ call[p] = "read" /\ ~NoData(p)
    \/ call[p] = "write" /\ ~NoSpace(p)

\* A reader and a writer do not wait for each other: holds as long as the two
\* lengths together do not exceed Capacity + 1.
NoMutualBlock ==
    \A p, q \in Procs :
        Asleep(p) /\ Asleep(q) => ~(call[p] = "read" /\ call[q] = "write")

\* No wake is lost: whoever sleeps in a loop whose condition stays false gets out
\* of it.
SleeperIsWoken == \A p \in Procs : ~ <>[](Asleep(p) /\ MayProceed(p))
=============================================================================
