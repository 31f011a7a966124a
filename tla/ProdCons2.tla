------------------------------ MODULE ProdCons2 ------------------------------
(***************************************************************************)
(* The bounded buffer of "ProdCons2/prodcons2.c": a mutex, and for each    *)
(* side a semaphore used as a wait queue with a counter of who is in it.   *)
(*                                                                         *)
(* A process is one open file of /proc/prodcons and an action is one       *)
(* critical section, from the grant of mtx to its up(); pc and call tell   *)
(* where a process is:                                                     *)
(*   idle      in no call, *off = 0      used    in no call, *off > 0      *)
(*   lock      in the first down_interruptible(&mtx)                       *)
(*   presleep  counted as waiting, mtx released, queue not taken yet       *)
(*   sleep     in down_interruptible(&prod_queue) or (&cons_queue)         *)
(*   relock    in the down_interruptible(&mtx) that follows the sleep      *)
(*   undo      in the down(&mtx) that follows an interrupted sleep         *)
(*   leave     past the last up(&mtx), before the return                   *)
(* As in ProdCons, the returns before the first down change nothing.       *)
(***************************************************************************)
EXTENDS Integers, Sequences, FiniteSets, Semaphore

CONSTANTS Producers, Consumers,    \* processes that write, that read
          Values, NoValue,         \* the integers they exchange; no integer
          Capacity,                \* MAX_ITEMS_CBUF
          MaxSignals               \* bound on the interrupted waits

ASSUME ProdCons2Assumption ==
    /\ Capacity \in Nat \ {0}
    /\ MaxSignals \in Nat
    /\ NoValue \notin Values
    /\ IsFiniteSet(Producers \cup Consumers)

Procs == Producers \cup Consumers

VARIABLES mtx, prod_queue, cons_queue,          \* the three semaphores
          nr_prod_waiting, nr_cons_waiting,     \* waiting writers, readers
          cbuf,                                 \* the kfifo of integers
          pc, call, val,                        \* place, handler and val
          signals                               \* interruptions so far

queues  == <<prod_queue, cons_queue>>
waiting == <<nr_prod_waiting, nr_cons_waiting>>
vars    == <<mtx, queues, waiting, cbuf, pc, call, val, signals>>

PCs == {"idle", "used", "lock", "presleep", "sleep", "relock", "undo", "leave"}

Init ==
    /\ mtx = SemInit(1) /\ prod_queue = SemInit(0) /\ cons_queue = SemInit(0)
    /\ nr_prod_waiting = 0 /\ nr_cons_waiting = 0
    /\ cbuf = << >>
    /\ pc = [p \in Procs |-> "idle"]
    /\ call = [p \in Procs |-> "none"]
    /\ val = [p \in Procs |-> NoValue]
    /\ signals = 0

Goto(p, place) == pc' = [pc EXCEPT ![p] = place]

Enter(p, handler, v) ==
    /\ pc[p] = "idle"
    /\ mtx' = Down(mtx, p)
    /\ Goto(p, "lock")
    /\ call' = [call EXCEPT ![p] = handler]
    /\ val' = [val EXCEPT ![p] = v]
    /\ UNCHANGED <<queues, waiting, cbuf, signals>>

CallWrite(p) == p \in Producers /\ \E v \in Values : Enter(p, "write", v)
CallRead(p)  == p \in Consumers /\ Enter(p, "read", NoValue)

\* p holds mtx: one of its downs has been granted and the up has not come.
Owns(p) == pc[p] \in {"lock", "relock", "undo"} /\ ~Waiting(mtx, p)
InHandler(p, handler) == call[p] = handler /\ Owns(p) /\ pc[p] # "undo"

\* The call of p ends without success.
Fail(p) ==
    /\ Goto(p, "idle")
    /\ call' = [call EXCEPT ![p] = "none"]
    /\ val' = [val EXCEPT ![p] = NoValue]
-----------------------------------------------------------------------------
(* prodcons_write *)

\* Mutant: a full buffer is not noticed.
IsFullOffByOne == Len(cbuf) > Capacity

IsFull  == Len(cbuf) = Capacity
IsEmpty == cbuf = << >>

\* One more process waits.
Count(n) == n + 1

WriteWait(p) ==
    /\ InHandler(p, "write") /\ IsFull
    /\ nr_prod_waiting' = Count(nr_prod_waiting)
    /\ mtx' = Up(mtx)
    /\ Goto(p, "presleep")
    /\ UNCHANGED <<queues, nr_cons_waiting, cbuf, call, val, signals>>

\* Mutant: the wake does not take the reader off the count.
WakeConsumerKeepsCount ==
    IF nr_cons_waiting > 0
    THEN cons_queue' = Up(cons_queue) /\ UNCHANGED nr_cons_waiting
    ELSE UNCHANGED <<cons_queue, nr_cons_waiting>>

WakeConsumer ==
    IF nr_cons_waiting > 0
    THEN cons_queue' = Up(cons_queue) /\ nr_cons_waiting' = nr_cons_waiting - 1
    ELSE UNCHANGED <<cons_queue, nr_cons_waiting>>

\* Mutant: writers are woken by the removal that ends a full buffer only.
WakeProducerWhenFull ==
    IF nr_prod_waiting > 0 /\ IsFull
    THEN prod_queue' = Up(prod_queue) /\ nr_prod_waiting' = nr_prod_waiting - 1
    ELSE UNCHANGED <<prod_queue, nr_prod_waiting>>

WakeProducer ==
    IF nr_prod_waiting > 0
    THEN prod_queue' = Up(prod_queue) /\ nr_prod_waiting' = nr_prod_waiting - 1
    ELSE UNCHANGED <<prod_queue, nr_prod_waiting>>

WritePut(p) ==
    /\ InHandler(p, "write") /\ ~IsFull
    /\ cbuf' = Append(cbuf, val[p])
    /\ WakeConsumer
    /\ mtx' = Up(mtx)
    /\ Goto(p, "leave")
    /\ UNCHANGED <<prod_queue, nr_prod_waiting, call, val, signals>>

(* prodcons_read *)

ReadWait(p) ==
    /\ InHandler(p, "read") /\ IsEmpty
    /\ nr_cons_waiting' = Count(nr_cons_waiting)
    /\ mtx' = Up(mtx)
    /\ Goto(p, "presleep")
    /\ UNCHANGED <<queues, nr_prod_waiting, cbuf, call, val, signals>>

ReadTake(p) ==
    /\ InHandler(p, "read") /\ ~IsEmpty
    /\ val' = [val EXCEPT ![p] = Head(cbuf)]
    /\ cbuf' = Tail(cbuf)
    /\ WakeProducer
    /\ mtx' = Up(mtx)
    /\ Goto(p, "leave")
    /\ UNCHANGED <<cons_queue, nr_cons_waiting, call, signals>>

\* The call returns; a read may still fail and lose its value, when len is too
\* short for the text (-ENOSPC) or copy_to_user() fails (-EFAULT).
Leave(p) ==
    /\ pc[p] = "leave"
    /\ \/ /\ Goto(p, "used")
          /\ call' = [call EXCEPT ![p] = "none"]
          /\ UNCHANGED val
       \/ call[p] = "read" /\ Fail(p)
    /\ UNCHANGED <<mtx, queues, waiting, cbuf, signals>>
-----------------------------------------------------------------------------
(* The wait common to both handlers. *)

Sleep(p) ==
    /\ pc[p] = "presleep"
    /\ Goto(p, "sleep")
    /\ \/ call[p] = "write" /\ prod_queue' = Down(prod_queue, p) /\ UNCHANGED cons_queue
       \/ call[p] = "read"  /\ cons_queue' = Down(cons_queue, p) /\ UNCHANGED prod_queue
    /\ UNCHANGED <<mtx, waiting, cbuf, call, val, signals>>

\* p is in the list of the queue its handler sleeps on.
Asleep(p) ==
    /\ pc[p] = "sleep"
    /\ \/ call[p] = "write" /\ Waiting(prod_queue, p)
       \/ call[p] = "read"  /\ Waiting(cons_queue, p)

Woken(p) ==
    /\ pc[p] = "sleep" /\ ~Asleep(p)
    /\ mtx' = Down(mtx, p)
    /\ Goto(p, "relock")
    /\ UNCHANGED <<queues, waiting, cbuf, call, val, signals>>

\* A signal ends the sleep: the handler goes for mtx to take back its mark.
InterruptSleep(p) ==
    /\ Asleep(p)
    /\ signals < MaxSignals /\ signals' = signals + 1
    /\ \/ call[p] = "write" /\ prod_queue' = Cancel(prod_queue, p) /\ UNCHANGED cons_queue
       \/ call[p] = "read"  /\ cons_queue' = Cancel(cons_queue, p) /\ UNCHANGED prod_queue
    /\ mtx' = Down(mtx, p)
    /\ Goto(p, "undo")
    /\ UNCHANGED <<waiting, cbuf, call, val>>

Undo(p) ==
    /\ pc[p] = "undo" /\ Owns(p)
    /\ \/ call[p] = "write" /\ nr_prod_waiting' = nr_prod_waiting - 1 /\ UNCHANGED nr_cons_waiting
       \/ call[p] = "read"  /\ nr_cons_waiting' = nr_cons_waiting - 1 /\ UNCHANGED nr_prod_waiting
    /\ mtx' = Up(mtx)
    /\ Fail(p)
    /\ UNCHANGED <<queues, cbuf, signals>>

\* A signal ends a wait for mtx: the call returns at once.
InterruptLock(p) ==
    /\ pc[p] \in {"lock", "relock"} /\ Waiting(mtx, p)
    /\ signals < MaxSignals /\ signals' = signals + 1
    /\ mtx' = Cancel(mtx, p)
    /\ Fail(p)
    /\ UNCHANGED <<queues, waiting, cbuf>>

Reopen(p) ==
    /\ pc[p] = "used"
    /\ Fail(p)
    /\ UNCHANGED <<mtx, queues, waiting, cbuf, signals>>

Call(p) == CallWrite(p) \/ CallRead(p) \/ Reopen(p)

Run(p) ==
    \/ WriteWait(p) \/ WritePut(p) \/ ReadWait(p) \/ ReadTake(p)
    \/ Sleep(p) \/ Woken(p) \/ Undo(p) \/ Leave(p)

Interrupt(p) == InterruptSleep(p) \/ InterruptLock(p)

Next == \E p \in Procs : Call(p) \/ Run(p) \/ Interrupt(p)

Spec == Init /\ [][Next]_vars

\* The scheduler runs every runnable process; nobody is bound to make a call.
Fairness == \A p \in Procs : WF_vars(Run(p))

FairSpec == Spec /\ Fairness
-----------------------------------------------------------------------------
(* Properties. *)

TypeOK ==
    /\ mtx \in Semaphores(Procs)
    /\ prod_queue \in Semaphores(Procs)
    /\ cons_queue \in Semaphores(Procs)
    /\ nr_prod_waiting \in Int /\ nr_cons_waiting \in Int
    /\ cbuf \in Seq(Values) /\ Len(cbuf) <= Capacity
    /\ pc \in [Procs -> PCs]
    /\ call \in [Procs -> {"none", "write", "read"}]
    /\ val \in [Procs -> Values \cup {NoValue}]
    /\ signals \in 0 .. MaxSignals

\* mtx is free or has one owner, on every path through the handlers.
MutexConserved ==
    /\ mtx.count \in {0, 1}
    /\ mtx.count = 1 <=> \A p \in Procs : ~Owns(p)
    /\ \A p, q \in Procs : Owns(p) /\ Owns(q) => p = q

OnQueue(p) == pc[p] \in {"presleep", "undo"} \/ Asleep(p)
Queued(handler) == {p \in Procs : OnQueue(p) /\ call[p] = handler}

\* Each counter differs from the processes it answers for by the ups nobody
\* has consumed yet, through interrupted waits too.
WaitAccounting ==
    /\ nr_prod_waiting + prod_queue.count = Cardinality(Queued("write"))
    /\ nr_cons_waiting + cons_queue.count = Cardinality(Queued("read"))

\* What the mutex and the two queues hold is accounted for, in every step of the
\* handlers and of a signal.
Consistent == TypeOK /\ MutexConserved /\ WaitAccounting

\* No process that will take a step on its own.
Quiet == \A p \in Procs : pc[p] \in {"idle", "used"} \/ Asleep(p)

\* No wake is lost: when nothing runs, a sleeping writer has found the buffer
\* full, a sleeping reader has found it empty, and it still is.
NoStall ==
    Quiet => \A p \in Procs : Asleep(p) =>
        IF call[p] = "write" THEN IsFull ELSE IsEmpty

\* Where the bounded buffer sees a process.
Phase(p) ==
    CASE pc[p] \in {"idle", "used"} -> pc[p]
      [] pc[p] = "leave" -> IF call[p] = "write" THEN "stored" ELSE "taken"
      [] OTHER -> IF call[p] = "write" THEN "put" ELSE "get"

Buffer == INSTANCE BoundedBuffer WITH
    buffer <- cbuf, phase <- [p \in Procs |-> Phase(p)], item <- val

\* The two handlers are the same FIFO buffer as those of prodcons1.c: no value
\* is stored twice, overwritten or invented, whatever is interrupted.
ImplementsBuffer == Buffer!Spec

\* Without signals a wait ends once its condition stays true.  (A writer that
\* comes later may take the place another one was woken for, so this buffer
\* does not have the stronger fairness of prodcons1.c.)
FairUnlessInterrupted == [](signals = 0) => Buffer!WeakFairness
=============================================================================
