-------------------------- MODULE CodeTimerEvenOdd --------------------------
(***************************************************************************)
(* "mod5 - Interrupts/Submission/Opcional/codetimer.c": the code timer with*)
(* two lists, one (1) for the codes of even length, one (2) for those of   *)
(* odd length.  The first file opened reads the even list, the next one the*)
(* odd list.  open() waits for the other file, and starts the timer, with  *)
(* the semaphore and the counter on which readers of the odd list sleep.   *)
(* Every process opens a file of its own.  Timer, work item and read() are *)
(* those of CodeTimer; what differs is here.  More places of pc:           *)
(*   claim     in open(), private_data set, before the test of even        *)
(*   addeven   even found 0, before the store of even++                    *)
(*   loadodd, addodd     before the load and the store of odd++            *)
(*   init      before INIT_WORK() and init_timer()                         *)
(*   meet      before the test of waiting_odd                              *)
(*   join, joining       before the load and the store of waiting_odd++    *)
(*   premeet   before down_interruptible(&queue_odd)                       *)
(*   meeting   in it                                                       *)
(*   unmeet, unmeeting   interrupted, before the load and the store of     *)
(*             waiting_odd--                                               *)
(*   answer    before the load of waiting_odd--                            *)
(*   answering before its store and up(&queue_odd)                         *)
(*   flush     in release(), the timer deleted, before and in              *)
(*             flush_scheduled_work()                                      *)
(*   reset     before kfifo_reset()                                        *)
(*   drop, dropping      before the load and the store of even-- or odd--  *)
(*   wipe, wiping        before and in down_interruptible(&sem_list_...)   *)
(*             of cleanup()                                                *)
(***************************************************************************)
EXTENDS CodeTimer

CONSTANT MaxOpens            \* bound on the calls of open()

ASSUME EvenOddAssumption == NLists = 2 /\ MaxOpens \in Nat

VARIABLES
    users,       \* even and odd: the readers of each list, as the code counts them
    sorted,      \* the list that the work item has chosen for its next code, or 0
    opens,       \* calls of open() so far
    stolen,      \* a reader has taken the unit that was for an opener
    crossed,     \* two openers have found nobody waiting before either has counted itself
    leaked,      \* an open() has failed after it counted its reader
    miscounted,  \* an update of even or odd was lost, or was not of the list that is read
    overtaken    \* the last reader of a list left it while a code was on its way there

history == <<stolen, crossed, leaked, miscounted, overtaken>>
opening == <<users, sorted, opens, history>>
allvars == <<vars, opening>>

EvenOddInit ==
    /\ Init /\ code_length = CHOOSE n \in Lens : TRUE
    /\ users = [l \in Lists |-> 0] /\ sorted = 0 /\ opens = 0
    /\ stolen = FALSE /\ crossed = FALSE /\ leaked = FALSE
    /\ miscounted = FALSE /\ overtaken = FALSE

Odd == 2
-----------------------------------------------------------------------------
(* fire_timer, copy_items_into_list *)

\* The length of a code is random.
FireRandom == \E n \in Lens : FirePut(n)

\* Mutant: a code is listed whether its list has a reader or not.
ListedAnyway(l) == TRUE

HasUsers(l) == users[l] # 0

\* A code goes to the list of its length, if that has a reader, or is dropped.
WorkSort ==
    LET l == IF Len(FirstCode(work.buffer)) % 2 = 0 THEN 1 ELSE Odd
    IN  /\ work.state = "copy" /\ sorted = 0
        /\ IF HasUsers(l)
           THEN sorted' = l /\ UNCHANGED work
           ELSE work' = CopyNext([work EXCEPT !.buffer = RestOf(@)]) /\ UNCHANGED sorted
        /\ UNCHANGED <<cbuffer, lists, sleepq, config, procs, clock, users, opens, history>>

\* Only then is the mutex of that list asked for.
WorkList ==
    /\ sorted # 0 /\ sorted' = 0
    /\ WorkCopy(sorted)
    /\ UNCHANGED <<users, opens, history>>
-----------------------------------------------------------------------------
(* timerproc_open *)

\* private_data.
OpenLook(p) ==
    /\ pc[p] = "idle" /\ file[p] = 0 /\ opens < MaxOpens
    /\ opens' = opens + 1
    /\ file' = [file EXCEPT ![p] = IF users[1] = 0 THEN 1 ELSE Odd]
    /\ Goto(p, "claim")
    /\ UNCHANGED <<cbuffer, lists, sleepq, config, reg, signals, unlocked, clock, work,
                   users, sorted, history>>

\* even is read again to choose the counter.
OpenTest(p) ==
    /\ pc[p] = "claim"
    /\ reg' = [reg EXCEPT ![p] = users[1]]
    /\ Goto(p, IF users[1] = 0 THEN "addeven" ELSE "loadodd")
    /\ UNCHANGED <<cbuffer, lists, sleepq, config, file, signals, unlocked, clock, work, opening>>

\* A register r, loaded from even or odd, is stored back with d added.
StoreUsers(l, r, d) == users' = [users EXCEPT ![l] = r + d]
Miscounts(p, l)     == users[l] # reg[p] \/ file[p] # l

LoadUsers(p) ==
    /\ pc[p] \in {"loadodd", "drop"}
    /\ reg' = [reg EXCEPT ![p] = users[IF pc[p] = "drop" THEN file[p] ELSE Odd]]
    /\ Goto(p, IF pc[p] = "drop" THEN "dropping" ELSE "addodd")
    /\ UNCHANGED <<cbuffer, lists, sleepq, config, file, signals, unlocked, clock, work, opening>>

OpenCount(p) ==
    LET l == IF pc[p] = "addeven" THEN 1 ELSE Odd
    IN  /\ pc[p] \in {"addeven", "addodd"}
        /\ StoreUsers(l, reg[p], 1)
        /\ miscounted' = (miscounted \/ Miscounts(p, l))
        /\ Goto(p, "init") /\ reg' = [reg EXCEPT ![p] = 0]
        /\ UNCHANGED <<cbuffer, lists, sleepq, config, file, signals, unlocked, clock, work,
                       sorted, opens, stolen, crossed, leaked, overtaken>>

\* Nothing is said of a timer that is initialised, or started, while it runs, or
\* of a work item that is initialised while it is queued.
OpenInit(p) ==
    /\ pc[p] = "init" /\ timer = "off" /\ work.state # "queued"
    /\ Goto(p, "meet")
    /\ UNCHANGED <<cbuffer, lists, sleepq, config, file, reg, signals, unlocked, clock, work,
                   opening>>

\* Mutant: the test is the wrong way round.
SomeoneCame == waiting[Odd] <= 0

SomeoneMeets == waiting[Odd] > 0

\* Another opener has found nobody either, and is not counted yet.
Crosses(p) == ~SomeoneMeets /\ \E q \in Procs \ {p} : pc[q] \in {"join", "joining"}

Meet(p) ==
    /\ pc[p] = "meet"
    /\ Goto(p, IF SomeoneMeets THEN "answer" ELSE "join")
    /\ crossed' = (crossed \/ Crosses(p))
    /\ UNCHANGED <<cbuffer, lists, sleepq, config, file, reg, signals, unlocked, clock, work,
                   users, sorted, opens, stolen, leaked, miscounted, overtaken>>

\* waiting_odd is read again to be counted up or down.
LoadWaiting(p) ==
    /\ pc[p] \in {"join", "answer", "unmeet"}
    /\ reg' = [reg EXCEPT ![p] = waiting[Odd]]
    /\ Goto(p, CASE pc[p] = "join" -> "joining" [] pc[p] = "answer" -> "answering"
                 [] OTHER -> "unmeeting")
    /\ UNCHANGED <<cbuffer, lists, sleepq, config, file, signals, unlocked, clock, work, opening>>

Join(p) ==
    /\ pc[p] = "joining"
    /\ StoreWaiting(Odd, reg[p], 1)
    /\ Goto(p, "premeet") /\ reg' = [reg EXCEPT ![p] = 0]
    /\ UNCHANGED <<cbuffer, lists, queue, config, file, signals, unlocked, clock, work, opening>>

MeetSleep(p) ==
    /\ pc[p] = "premeet"
    /\ queue' = [queue EXCEPT ![Odd] = Down(@, p)]
    /\ Goto(p, "meeting")
    /\ UNCHANGED <<cbuffer, lists, waiting, raced, config, file, reg, signals, unlocked,
                   clock, work, opening>>

\* add_timer()
Met(p) ==
    /\ Granted(p, "meeting", queue[Odd])
    /\ timer = "off" /\ timer' = "armed"
    /\ Goto(p, "idle")
    /\ UNCHANGED <<cbuffer, lists, sleepq, config, file, reg, signals, unlocked,
                   jobFinished, made, work, opening>>

Answer(p) ==
    /\ pc[p] = "answering"
    /\ StoreWaiting(Odd, reg[p], -1)
    /\ queue' = [queue EXCEPT ![Odd] = Up(@)]
    /\ Goto(p, "idle") /\ reg' = [reg EXCEPT ![p] = 0]
    /\ UNCHANGED <<cbuffer, lists, config, file, signals, unlocked, clock, work, opening>>

\* Mutant: the opener leaves itself counted.
NotWithdrawn == 0

\* What an interrupted opener adds to waiting_odd.
Withdrawn == -1

\* -EINTR: waiting_odd--, and nothing else is undone.
InterruptMeet(p) ==
    /\ pc[p] = "meeting" /\ Waiting(queue[Odd], p)
    /\ signals < MaxSignals /\ signals' = signals + 1
    /\ queue' = [queue EXCEPT ![Odd] = Cancel(@, p)]
    /\ Goto(p, "unmeet")
    /\ UNCHANGED <<cbuffer, lists, waiting, raced, config, file, reg, unlocked, clock, work,
                   opening>>

Unmeet(p) ==
    /\ pc[p] = "unmeeting"
    /\ StoreWaiting(Odd, reg[p], Withdrawn)
    /\ file' = [file EXCEPT ![p] = 0] /\ leaked' = TRUE
    /\ Goto(p, "idle") /\ reg' = [reg EXCEPT ![p] = 0]
    /\ UNCHANGED <<cbuffer, lists, queue, config, signals, unlocked, clock, work,
                   users, sorted, opens, stolen, crossed, miscounted, overtaken>>
-----------------------------------------------------------------------------
(* timerproc_release of one file: the timer is deleted for both, and the other *)
(* file, or one that is opened meanwhile, goes on.                             *)

ReleaseTimer(p) ==
    /\ pc[p] = "idle" /\ file[p] # 0
    /\ timer \in {"off", "armed"} /\ timer' = "off"
    /\ Goto(p, "flush")
    /\ UNCHANGED <<cbuffer, lists, sleepq, config, file, reg, signals, unlocked,
                   jobFinished, made, work, opening>>

ReleaseFlush(p) ==
    /\ pc[p] = "flush" /\ Flushed
    /\ Goto(p, "reset")
    /\ UNCHANGED <<cbuffer, lists, sleepq, config, file, reg, signals, unlocked, clock, work,
                   opening>>

ReleaseReset(p) ==
    /\ pc[p] = "reset"
    /\ cbuffer' = << >>
    /\ Goto(p, "drop")
    /\ UNCHANGED <<lists, sleepq, config, file, reg, signals, unlocked, clock, work, opening>>

\* A code is on its way to list l.
Underway(l) == sorted = l \/ (work.state = "append" /\ work.l = l)

ReleaseCount(p) ==
    LET l == file[p]
    IN  /\ pc[p] = "dropping"
        /\ StoreUsers(l, reg[p], -1)
        /\ miscounted' = (miscounted \/ Miscounts(p, l))
        /\ overtaken' = (overtaken \/ (reg[p] = 1 /\ Underway(l)))
        /\ Goto(p, "wipe") /\ reg' = [reg EXCEPT ![p] = 0]
        /\ UNCHANGED <<cbuffer, lists, sleepq, config, file, signals, unlocked, clock, work,
                       sorted, opens, stolen, crossed, leaked>>

\* cleanup().
ReleaseLock(p) ==
    /\ pc[p] = "wipe"
    /\ LockList(p, "wiping")
    /\ UNCHANGED <<cbuffer, mylist, copied, sleepq, config, file, reg, signals, unlocked, clock,
                   work, opening>>

Release(p) ==
    LET l == file[p]
    IN  /\ Granted(p, "wiping", sem_list[l])
        /\ mylist' = [mylist EXCEPT ![l] = Cleaned(@)] /\ copied' = [copied EXCEPT ![l] = 0]
        /\ UnlockList(p)
        /\ file' = [file EXCEPT ![p] = 0]
        /\ Goto(p, "idle")
        /\ UNCHANGED <<cbuffer, sleepq, config, reg, signals, unlocked, clock, work, opening>>

\* -EINTR from its wait: ignored.
InterruptRelease(p) ==
    /\ pc[p] = "wiping" /\ Waiting(sem_list[file[p]], p)
    /\ signals < MaxSignals /\ signals' = signals + 1
    /\ sem_list' = [sem_list EXCEPT ![file[p]] = Cancel(@, p)]
    /\ unlocked' = TRUE
    /\ UNCHANGED <<cbuffer, mylist, copied, sleepq, config, file, pc, reg, clock, work, opening>>
-----------------------------------------------------------------------------
\* timerproc_read() of either list.  A reader of the odd list may find the unit
\* raised for an opener that has counted itself and not slept yet.
Steals(p) == /\ file[p] = Odd /\ queue[Odd].count > 0
             /\ \E q \in Procs : pc[q] = "premeet"
ReadOwn(p) ==
    /\ \/ CallRead(p) \/ Count(p) \/ Counted(p) \/ WakeUp(p) \/ Copy(p)
       \/ CleanLock(p) \/ Clean(p) \/ Uncount(p) \/ Uncounted(p) \/ Interrupt(p)
    /\ UNCHANGED opening
SleepOwn(p) == /\ Sleep(p)
               /\ stolen' = (stolen \/ Steals(p))
               /\ UNCHANGED <<users, sorted, opens, crossed, leaked, miscounted, overtaken>>

FireOrWork == \/ FireRandom \/ FireTest \/ FireQueue
              \/ WorkTake \/ WorkAppend \/ WorkWake \/ WorkUp \/ WorkDone
OpenStep(p) == \/ OpenLook(p) \/ OpenTest(p) \/ LoadUsers(p) \/ OpenCount(p) \/ OpenInit(p)
               \/ Meet(p) \/ LoadWaiting(p) \/ Join(p) \/ MeetSleep(p) \/ Met(p)
               \/ Answer(p) \/ InterruptMeet(p) \/ Unmeet(p)
ReleaseStep(p) == \/ ReleaseTimer(p) \/ ReleaseFlush(p) \/ ReleaseReset(p) \/ ReleaseCount(p)
                  \/ ReleaseLock(p) \/ Release(p) \/ InterruptRelease(p)

EvenOddNext ==
    /\ Exclusive
    /\ \/ (FireOrWork \/ ConfigThreshold) /\ UNCHANGED opening
       \/ WorkSort \/ WorkList
       \/ \E p \in Procs : OpenStep(p) \/ ReleaseStep(p) \/ ReadOwn(p) \/ SleepOwn(p)

EvenOddSpec == EvenOddInit /\ [][EvenOddNext]_allvars
-----------------------------------------------------------------------------
(* Properties. *)

\* waiting_odd counts the readers of the odd list and the openers that wait for
\* the other file, although both use it, and its units, for different ends.
Openers == {p \in Procs : \/ pc[p] \in {"premeet", "unmeet", "unmeeting"}
                          \/ pc[p] = "meeting" /\ Waiting(queue[Odd], p)}
OddWaitAccounting ==
    ~raced => waiting[Odd] + queue[Odd].count = Cardinality(Registered(Odd)) + Cardinality(Openers)

\* Two files that are open, neither on its way through open() or release(): the
\* timer runs, so neither waits for the other, unless both openers found nobody
\* waiting before either had counted itself, a reader has taken an opener's unit,
\* a wait was interrupted or a file was closed since.
OnTheWay == {"claim", "addeven", "loadodd", "addodd", "init", "meet", "join", "joining", "premeet",
             "answer", "answering", "unmeet", "unmeeting",
             "flush", "reset", "drop", "dropping", "wipe", "wiping"}
Settled(p) ==
    /\ file[p] # 0 /\ pc[p] \notin OnTheWay
    /\ pc[p] = "meeting" => Waiting(queue[Odd], p)
FirstMeeting == opens = Cardinality(Procs) /\ ~stolen /\ ~crossed /\ signals = 0
TimerRuns == FirstMeeting /\ (\A p \in Procs : Settled(p)) => timer # "off"

\* A list has codes only while a file that reads it is open, with three exceptions:
\* an open() failed after it had counted its reader; open() or release() of two
\* files overlapped in even or odd, so that a reader is counted for the other
\* list or an update is lost; the last reader of the list left it while a code
\* was on its way there, the other file having started the timer after the flush.
ListHasReader ==
    \A l \in Lists : mylist[l] # << >> =>
        leaked \/ miscounted \/ overtaken \/ \E p \in Procs : file[p] = l
=============================================================================
