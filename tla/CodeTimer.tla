----------------------------- MODULE CodeTimer -----------------------------
(***************************************************************************)
(* "mod5 - Interrupts/Submission/Codetimer/codetimer.c": a kernel timer    *)
(* puts random codes into a circular buffer; when the buffer reaches a     *)
(* threshold it queues a work item, which moves them to a linked list;     *)
(* read() on /proc/codetimer sleeps until the list has codes, returns all  *)
(* of them and empties it.  The module is written for several lists, of    *)
(* which codetimer.c has one (the first): CodeTimerEvenOdd adds the other. *)
(*                                                                         *)
(* A code is its characters and a NUL.  All characters of a code are the   *)
(* number it was made with, modulo Numbers; NUL is 0. The timer function  *)
(* runs in three steps, with the buffer's spin lock held in the first.     *)
(* The work item does not run concurrently with itself.                    *)
(* pc tells where a process that calls read() is:                          *)
(*   idle      in no call                                                  *)
(*   test      in down_interruptible(&sem_list), list to be tested         *)
(*   count     mutex held, waiting loaded, before the store of waiting++   *)
(*   presleep  before down_interruptible(&queue)                           *)
(*   sleep     in it                                                       *)
(*   undo      interrupted, in down(&sem_list)                             *)
(*   uncount   mutex held, waiting loaded, before the store of waiting--   *)
(*   clean     codes copied and mutex free, before cleanup()               *)
(*   cleaning  in down_interruptible(&sem_list) of cleanup()               *)
(* One file is open at a time; the processes that use it inherited it.     *)
(***************************************************************************)
EXTENDS Integers, Sequences, FiniteSets, Semaphore

CONSTANTS Procs,             \* processes that use the file
          Worker,            \* the kernel thread that runs the work item
          NLists,            \* how many lists there are
          Capacity,          \* CBUF_SIZE, in characters
          Lens, Thresholds,  \* lengths of code_format and thresholds that are set
          Numbers,           \* bound: codes are numbered modulo this
          MaxListed,         \* bound: a list shows its last MaxListed codes
          MaxSignals         \* bound on the interrupted waits

ASSUME CodeTimerAssumption ==
    /\ Worker \notin Procs /\ IsFiniteSet(Procs) /\ Procs # {}
    /\ NLists \in Nat \ {0} /\ Capacity \in Nat \ {0} /\ MaxListed \in Nat \ {0}
    /\ Numbers \in Nat \ {0}
    /\ Lens \subseteq Nat \ {0} /\ Lens # {} /\ Thresholds \subseteq Nat /\ Thresholds # {}
    /\ MaxSignals \in Nat

Lists == 1 .. NLists

VARIABLES
    cbuffer,     \* the circular buffer
    mylist,      \* the lists of codes
    sem_list,    \* their mutexes
    queue,       \* where readers of an empty list sleep
    waiting,     \* how many do, as the code counts them
    timer,       \* off, armed, or running and about to: test, queue
    work,        \* the work item
    jobFinished,
    threshold, code_length,       \* what is set through /proc/codeconfig
    file,        \* the list behind the open file of each process, 0 if none
    pc, reg,     \* where each process is, and its register
    signals,     \* interruptions so far
    made,        \* the number of the last code stored
    copied,      \* how many codes of each list have been copied to a reader
    raced,       \* an update of waiting has been lost
    unlocked     \* a signal has hit a wait for sem_list that ignores it

lists  == <<mylist, sem_list, copied>>
sleepq == <<queue, waiting, raced>>
config == <<threshold, code_length>>
procs  == <<file, pc, reg, signals, unlocked>>
clock  == <<timer, jobFinished, made>>
vars   == <<cbuffer, lists, sleepq, config, procs, clock, work>>

\* buffer: what is left to copy.  taken: nr_bytes.  l, reg: the list in use and
\* what was loaded from its waiting.
NoWork == [state |-> "idle", buffer |-> << >>, taken |-> 0, l |-> 1, reg |-> 0]

Init ==
    /\ cbuffer = << >>
    /\ mylist = [l \in Lists |-> << >>] /\ sem_list = [l \in Lists |-> SemInit(1)]
    /\ queue = [l \in Lists |-> SemInit(0)] /\ waiting = [l \in Lists |-> 0]
    /\ timer = "off" /\ work = NoWork /\ jobFinished = TRUE
    /\ threshold \in Thresholds /\ code_length \in Lens
    /\ file = [p \in Procs |-> 0]
    /\ pc = [p \in Procs |-> "idle"] /\ reg = [p \in Procs |-> 0]
    /\ signals = 0 /\ made = 0
    /\ copied = [l \in Lists |-> 0] /\ raced = FALSE /\ unlocked = FALSE

Goto(p, place) == pc' = [pc EXCEPT ![p] = place]
Granted(p, place, sem) == pc[p] = place /\ ~Waiting(sem, p)

\* Who is in a critical section of list l, by a grant or by an ignored -EINTR
\* ("wiping": in release() of CodeTimerEvenOdd).
Owners(l) ==
    {p \in Procs : /\ file[p] = l
                   /\ \/ pc[p] \in {"count", "uncount"}
                      \/ /\ pc[p] \in {"test", "undo", "cleaning", "wiping"}
                         /\ ~Waiting(sem_list[l], p)}
    \cup {w \in {Worker} : work.state = "append" /\ work.l = l /\ ~Waiting(sem_list[l], w)}
-----------------------------------------------------------------------------
(* The timer function. *)

NextNumber(k) == 1 + (k % Numbers)
Code(k, n)    == [i \in 1 .. n + 1 |-> IF i <= n THEN k ELSE 0]

\* kfifo_in() stores what fits of s.
Room   == Capacity - Len(cbuffer)
Put(s) == IF Len(s) <= Room THEN s ELSE SubSeq(s, 1, Room)

\* A code of n characters is made and stored under the spin lock.
FirePut(n) ==
    LET stored == Put(Code(NextNumber(made), n))
    IN  /\ timer = "armed"
        /\ cbuffer' = cbuffer \o stored
        /\ made' = IF stored = << >> THEN made ELSE NextNumber(made)
        /\ timer' = "test"
        /\ UNCHANGED <<lists, sleepq, config, procs, work, jobFinished>>

\* kfifo_len() is read without the lock.
FireTest ==
    /\ timer = "test"
    /\ timer' = IF threshold <= Len(cbuffer) THEN "queue" ELSE "armed"
    /\ UNCHANGED <<cbuffer, lists, sleepq, config, procs, work, jobFinished, made>>

FireQueue ==
    /\ timer = "queue"
    /\ IF jobFinished THEN jobFinished' = FALSE /\ work' = [work EXCEPT !.state = "queued"]
                   ELSE UNCHANGED <<jobFinished, work>>
    /\ timer' = "armed"
    /\ UNCHANGED <<cbuffer, lists, sleepq, config, procs, made>>
-----------------------------------------------------------------------------
(* copy_items_into_list *)

\* The wakes done, list l comes next, or the item is finished.
ToWake(l) == IF l \in Lists THEN [NoWork EXCEPT !.state = "wake", !.l = l]
                            ELSE [NoWork EXCEPT !.state = "finish"]

\* The loop test: what is left of the buffer w.buffer, or the wakes.
CopyNext(w) == IF w.buffer # << >> THEN [w EXCEPT !.state = "copy"] ELSE ToWake(1)

WorkTake ==
    /\ work.state = "queued"
    /\ work' = CopyNext([NoWork EXCEPT !.buffer = cbuffer, !.taken = Len(cbuffer)])
    /\ cbuffer' = << >>
    /\ UNCHANGED <<lists, sleepq, config, procs, clock>>

\* The code at the front of b, up to its NUL or the end; and the rest.
CodeEnd(b)   == LET i == SelectInSeq(b, LAMBDA c : c = 0) IN IF i = 0 THEN Len(b) + 1 ELSE i
FirstCode(b) == SubSeq(b, 1, CodeEnd(b) - 1)
RestOf(b)    == SubSeq(b, CodeEnd(b) + 1, Len(b))

WorkCopy(l) ==
    /\ work.state = "copy"
    /\ sem_list' = [sem_list EXCEPT ![l] = Down(@, Worker)]
    /\ work' = [work EXCEPT !.state = "append", !.l = l]
    /\ UNCHANGED <<cbuffer, mylist, copied, sleepq, config, procs, clock>>

\* Mutant: list_add() for list_add_tail().
LinkFirst(s, code) == <<code>> \o s

Link(s, code) == Append(s, code)
Forgotten(s)  == IF Len(s) > MaxListed THEN 1 ELSE 0

WorkAppend ==
    LET l == work.l
        s == Link(mylist[l], FirstCode(work.buffer))
    IN  /\ work.state = "append" /\ ~Waiting(sem_list[l], Worker)
        /\ mylist' = [mylist EXCEPT ![l] = SubSeq(s, 1 + Forgotten(s), Len(s))]
        /\ copied' = [copied EXCEPT ![l] = IF @ = 0 THEN 0 ELSE @ - Forgotten(s)]
        /\ sem_list' = [sem_list EXCEPT ![l] = Up(@)]
        /\ work' = CopyNext([work EXCEPT !.buffer = RestOf(@)])
        /\ UNCHANGED <<cbuffer, sleepq, config, procs, clock>>

\* Mutant: an off-by-one.
ManyWait(l) == waiting[l] > 1

SomeoneWaits(l) == waiting[l] > 0

\* waiting is tested and loaded without the mutex.
WorkWake ==
    /\ work.state = "wake"
    /\ work' = IF SomeoneWaits(work.l)
               THEN [work EXCEPT !.state = "up", !.reg = waiting[work.l]]
               ELSE ToWake(work.l + 1)
    /\ UNCHANGED <<cbuffer, lists, sleepq, config, procs, clock>>

\* A register r, loaded from waiting[l], is stored back with d added.
StoreWaiting(l, r, d) ==
    /\ waiting' = [waiting EXCEPT ![l] = r + d]
    /\ raced' = (raced \/ waiting[l] # r)

WorkUp ==
    /\ work.state = "up"
    /\ StoreWaiting(work.l, work.reg, -1)
    /\ queue' = [queue EXCEPT ![work.l] = Up(@)]
    /\ work' = ToWake(work.l + 1)
    /\ UNCHANGED <<cbuffer, lists, config, procs, clock>>

WorkDone ==
    /\ work.state = "finish"
    /\ jobFinished' = TRUE
    /\ work' = NoWork
    /\ UNCHANGED <<cbuffer, lists, sleepq, config, procs, timer, made>>
-----------------------------------------------------------------------------
(* timerproc_read *)

LockList(p, place) ==
    /\ sem_list' = [sem_list EXCEPT ![file[p]] = Down(@, p)]
    /\ Goto(p, place)
UnlockList(p) == sem_list' = [sem_list EXCEPT ![file[p]] = Up(@)]

CallRead(p) ==
    /\ pc[p] = "idle" /\ file[p] # 0
    /\ LockList(p, "test")
    /\ UNCHANGED <<cbuffer, mylist, copied, sleepq, config, file, reg, signals, unlocked, clock, work>>

\* waiting++
Count(p) ==
    /\ Granted(p, "test", sem_list[file[p]])
    /\ mylist[file[p]] = << >>
    /\ reg' = [reg EXCEPT ![p] = waiting[file[p]]]
    /\ Goto(p, "count")
    /\ UNCHANGED <<cbuffer, lists, sleepq, config, file, signals, unlocked, clock, work>>

Counted(p) ==
    /\ pc[p] = "count"
    /\ StoreWaiting(file[p], reg[p], 1)
    /\ UnlockList(p)
    /\ Goto(p, "presleep") /\ reg' = [reg EXCEPT ![p] = 0]
    /\ UNCHANGED <<cbuffer, mylist, copied, queue, config, file, signals, unlocked, clock, work>>

Sleep(p) ==
    /\ pc[p] = "presleep"
    /\ queue' = [queue EXCEPT ![file[p]] = Down(@, p)]
    /\ Goto(p, "sleep")
    /\ UNCHANGED <<cbuffer, lists, waiting, raced, config, file, reg, signals, unlocked, clock, work>>

WakeUp(p) ==
    /\ Granted(p, "sleep", queue[file[p]])
    /\ LockList(p, "test")
    /\ UNCHANGED <<cbuffer, mylist, copied, sleepq, config, file, reg, signals, unlocked, clock, work>>

Copy(p) ==
    /\ Granted(p, "test", sem_list[file[p]])
    /\ mylist[file[p]] # << >>
    /\ copied' = [copied EXCEPT ![file[p]] = Len(mylist[file[p]])]
    /\ UnlockList(p)
    /\ Goto(p, "clean")
    /\ UNCHANGED <<cbuffer, mylist, sleepq, config, file, reg, signals, unlocked, clock, work>>

CleanLock(p) ==
    /\ pc[p] = "clean"
    /\ LockList(p, "cleaning")
    /\ UNCHANGED <<cbuffer, mylist, copied, sleepq, config, file, reg, signals, unlocked, clock, work>>

\* Mutant: the last node stays.
AllButLast(s) == SubSeq(s, Len(s), Len(s))

\* What cleanup() leaves of a list, whatever was read of it.
Cleaned(s) == << >>

Clean(p) ==
    /\ Granted(p, "cleaning", sem_list[file[p]])
    /\ mylist' = [mylist EXCEPT ![file[p]] = Cleaned(@)]
    /\ copied' = [copied EXCEPT ![file[p]] = Len(Cleaned(mylist[file[p]]))]
    /\ UnlockList(p)
    /\ Goto(p, "idle")
    /\ UNCHANGED <<cbuffer, sleepq, config, file, reg, signals, unlocked, clock, work>>

\* The sleep was interrupted: waiting--
Uncount(p) ==
    /\ Granted(p, "undo", sem_list[file[p]])
    /\ reg' = [reg EXCEPT ![p] = waiting[file[p]]]
    /\ Goto(p, "uncount")
    /\ UNCHANGED <<cbuffer, lists, sleepq, config, file, signals, unlocked, clock, work>>

Uncounted(p) ==
    /\ pc[p] = "uncount"
    /\ StoreWaiting(file[p], reg[p], -1)
    /\ UnlockList(p)
    /\ Goto(p, "idle") /\ reg' = [reg EXCEPT ![p] = 0]
    /\ UNCHANGED <<cbuffer, mylist, copied, queue, config, file, signals, unlocked, clock, work>>
-----------------------------------------------------------------------------
(* Signals: every wait ends with -EINTR but the one in undo. *)

\* Mutant: the -EINTR is ignored, as it is in cleanup().
InterruptTestIgnored(p) ==
    /\ pc[p] = "test" /\ Waiting(sem_list[file[p]], p)
    /\ sem_list' = [sem_list EXCEPT ![file[p]] = Cancel(@, p)]
    /\ UNCHANGED <<mylist, copied, queue, pc, unlocked>>

InterruptTest(p) ==
    /\ pc[p] = "test" /\ Waiting(sem_list[file[p]], p)
    /\ sem_list' = [sem_list EXCEPT ![file[p]] = Cancel(@, p)]
    /\ Goto(p, "idle")
    /\ UNCHANGED <<mylist, copied, queue, unlocked>>

\* Mutant: -EINTR at once, without waiting--.
InterruptSleepAtOnce(p) ==
    /\ pc[p] = "sleep" /\ Waiting(queue[file[p]], p)
    /\ queue' = [queue EXCEPT ![file[p]] = Cancel(@, p)]
    /\ Goto(p, "idle")
    /\ UNCHANGED <<lists, unlocked>>

InterruptSleep(p) ==
    /\ pc[p] = "sleep" /\ Waiting(queue[file[p]], p)
    /\ queue' = [queue EXCEPT ![file[p]] = Cancel(@, p)]
    /\ LockList(p, "undo")
    /\ UNCHANGED <<mylist, copied, unlocked>>

\* cleanup() ignores it.
InterruptClean(p) ==
    /\ pc[p] = "cleaning" /\ Waiting(sem_list[file[p]], p)
    /\ sem_list' = [sem_list EXCEPT ![file[p]] = Cancel(@, p)]
    /\ unlocked' = TRUE
    /\ UNCHANGED <<mylist, copied, queue, pc>>

Interrupt(p) ==
    /\ signals < MaxSignals /\ signals' = signals + 1
    /\ InterruptTest(p) \/ InterruptSleep(p) \/ InterruptClean(p)
    /\ UNCHANGED <<cbuffer, waiting, raced, config, file, reg, clock, work>>
-----------------------------------------------------------------------------
(* timerproc_open, timerproc_release, configproc_write *)

Open ==
    /\ \A p \in Procs : file[p] = 0
    /\ file' = [p \in Procs |-> 1]
    /\ timer' = "armed"
    /\ UNCHANGED <<cbuffer, lists, sleepq, config, pc, reg, signals, unlocked, jobFinished, made, work>>

\* The last close.  del_timer_sync() waits for the timer function.
CloseTimer ==
    /\ \A p \in Procs : file[p] # 0 /\ pc[p] = "idle"
    /\ timer = "armed" /\ timer' = "off"
    /\ UNCHANGED <<cbuffer, lists, sleepq, config, procs, jobFinished, made, work>>

\* Mutant: nobody waits for the work item.
NotFlushed == TRUE

\* flush_workqueue() waits for the work item.
Flushed == work.state = "idle"

\* The buffer and the list are emptied.
Close ==
    /\ timer = "off" /\ Flushed
    /\ \A p \in Procs : file[p] # 0 /\ pc[p] = "idle"
    /\ cbuffer' = << >>
    /\ mylist' = [l \in Lists |-> << >>] /\ copied' = [l \in Lists |-> 0]
    /\ file' = [p \in Procs |-> 0]
    /\ UNCHANGED <<sem_list, sleepq, config, pc, reg, signals, unlocked, clock, work>>

ConfigThreshold ==
    /\ threshold' \in Thresholds \ {threshold}
    /\ UNCHANGED <<code_length, cbuffer, lists, sleepq, procs, clock, work>>

ConfigFormat ==
    /\ code_length' \in Lens \ {code_length}
    /\ UNCHANGED <<threshold, cbuffer, lists, sleepq, procs, clock, work>>
-----------------------------------------------------------------------------
\* What happens to a list that two use at once is undefined.
Exclusive == \A l \in Lists : Cardinality(Owners(l)) <= 1

Fire == Exclusive /\ (FirePut(code_length) \/ FireTest \/ FireQueue)
WorkStep == WorkTake \/ WorkAppend \/ WorkWake \/ WorkUp \/ WorkDone
Work == Exclusive /\ (WorkStep \/ WorkCopy(1))
ReadStep(p) == \/ Count(p) \/ Counted(p) \/ Sleep(p) \/ WakeUp(p) \/ Copy(p)
               \/ CleanLock(p) \/ Clean(p) \/ Uncount(p) \/ Uncounted(p)
Run(p) == Exclusive /\ ReadStep(p)
Users  == Exclusive /\ \E p \in Procs : (timer # "off" /\ CallRead(p)) \/ Interrupt(p)
Files  == Exclusive /\ (Open \/ CloseTimer \/ Close \/ ConfigThreshold \/ ConfigFormat)
Next == Fire \/ Work \/ Users \/ Files \/ \E p \in Procs : Run(p)

\* The timer expires, the work item and the processes run; nobody has to read.
Fairness == WF_vars(Fire) /\ WF_vars(Work) /\ \A p \in Procs : WF_vars(Run(p))
Spec == Init /\ [][Next]_vars /\ Fairness
-----------------------------------------------------------------------------
(* Properties. *)

Chars == 0 .. Numbers
Codes(s) == \A i \in DOMAIN s : s[i] # << >> /\ \A j \in DOMAIN s[i] : s[i][j] \in Chars \ {0}

TypeOK ==
    /\ cbuffer \in Seq(Chars) /\ Len(cbuffer) <= Capacity
    /\ \A l \in Lists :
        /\ Len(mylist[l]) <= MaxListed /\ Codes(mylist[l]) /\ copied[l] \in 0 .. Len(mylist[l])
        /\ sem_list[l] \in Semaphores(Procs \cup {Worker})
        /\ queue[l] \in Semaphores(Procs)
    /\ waiting \in [Lists -> Int] /\ reg \in [Procs -> Int]
    /\ timer \in {"off", "armed", "test", "queue"}
    /\ work.state \in {"idle", "queued", "copy", "append", "wake", "up", "finish"}
    /\ work.buffer \in Seq(Chars) /\ work.taken \in 0 .. Capacity
    /\ work.l \in Lists /\ work.reg \in Int
    /\ {jobFinished, raced, unlocked} \subseteq BOOLEAN
    /\ threshold \in Thresholds /\ code_length \in Lens
    /\ file \in [Procs -> 0 .. NLists] /\ made \in Chars /\ signals \in 0 .. MaxSignals
    /\ pc \in [Procs -> {"idle", "test", "count", "presleep", "sleep", "undo", "uncount",
                         "clean", "cleaning"}]

\* A code without a NUL was cut by a full buffer, which is then taken as a whole:
\* no code is ever joined to the next one.
Unterminated(b) == b # << >> /\ Last(b) # 0
WholeCodes ==
    /\ Unterminated(cbuffer) => Len(cbuffer) = Capacity
    /\ Unterminated(work.buffer) => work.taken = Capacity

\* What is in the list, then in the hands of the work item, then in the buffer
\* are consecutive codes, up to the last one made: none is lost, made twice,
\* overtaken or joined on the way, whatever timer, work item and readers do.
Terminated(b) == IF Unterminated(b) THEN Append(b, 0) ELSE b
Stream == FlattenSeq([i \in DOMAIN mylist[1] |-> Append(mylist[1][i], 0)])
             \o Terminated(work.buffer) \o Terminated(cbuffer)
CodesInOrder ==
    LET s == Stream
    IN  /\ \A i \in 1 .. Len(s) - 1 :
             IF s[i] = 0 THEN s[i + 1] = NextNumber(s[i - 1]) ELSE s[i + 1] \in {0, s[i]}
        /\ s # << >> => s[Len(s) - 1] = made

\* As long as no update is lost, waiting and the wakes not used yet are as many
\* as the readers that counted themselves and have not been woken or given up.
Registered(l) == {p \in Procs : /\ file[p] = l
                                /\ \/ pc[p] \in {"presleep", "undo", "uncount"}
                                   \/ pc[p] = "sleep" /\ Waiting(queue[l], p)}
WaitAccounting ==
    \A l \in Lists : ~raced => waiting[l] + queue[l].count = Cardinality(Registered(l))

\* Every code is whole where it waits, and so is the count of those who wait for it.
Consistent == TypeOK /\ WholeCodes /\ WaitAccounting

\* Two are in the critical section of a list only after a signal has hit a wait
\* whose result is ignored.
MutualExclusion == \A l \in Lists : Cardinality(Owners(l)) > 1 => unlocked

\* Codes that a read() has copied stay in the list only until that read() has
\* emptied it: two calls return the same code only if they overlap there.
CopiedStayBriefly ==
    \A l \in Lists : copied[l] > 0 =>
        \E p \in Procs : file[p] = l /\ pc[p] \in {"clean", "cleaning"}

\* Once the file is closed, no timer and no work item is left, the buffer and
\* the list are empty, and the next open() finds the work item free.
ClosedIsQuiet ==
    (\A p \in Procs : file[p] = 0) =>
        /\ timer = "off" /\ work.state = "idle" /\ jobFinished
        /\ cbuffer = << >> /\ \A l \in Lists : mylist[l] = << >>

\* A reader that sleeps is woken, if no update of waiting is lost, no signal has
\* broken the mutex, and the thresholds are within reach.
Sleeps(p) == pc[p] = "sleep" /\ Waiting(queue[file[p]], p)
SleeperIsWoken ==
    \A p \in Procs : ~ <>[](Sleeps(p) /\ ~raced /\ ~unlocked /\ threshold <= Capacity)
=============================================================================
