------------------------------ MODULE MultiPC ------------------------------
(***************************************************************************)
(* "mod6 - Final/Submission/ParteA/multipc.c": a directory of bounded      *)
(* buffers, /proc/multipc.  Writing "new <name> <type>" to its admin entry *)
(* adds a buffer, "delete <name>" removes one; the buffers are written and *)
(* read as in prodcons1.c.  What the values are is left to ProdCons: here a*)
(* buffer is the number of values it stores, and the heap the number of    *)
(* strings allocated.                                                      *)
(*                                                                         *)
(* A process opens the entry for every call, as user.c does, so *off is 0. *)
(* pc tells where a process is:                                            *)
(*   idle      in no call                                                  *)
(*   exists    in down_interruptible(&sem_list) of exists()                *)
(*   create    name tested, before vmalloc() and proc_create_data()        *)
(*   add, append     before and in down_interruptible(&sem_list), addProc()*)
(*   load, count     before the load and the store of ++entries            *)
(*   remove, walk    before and in the first one of removeProc()           *)
(*   drain     at the loop test over the strings of the node found         *)
(*   drainlock in down_interruptible(&mtx) of that loop                    *)
(*   drainup   string taken and mutex free, before up(&gaps)               *)
(*   drained   that loop has ended, before kfifo_free()                    *)
(*   unlink    kfifo freed, before remove_proc_entry()                     *)
(*   rundown   in remove_proc_entry(), waiting for the calls in progress   *)
(*   unlist    in the second down_interruptible(&sem_list) of removeProc() *)
(*   gap, wlock, wundo, post     in prodcons_write(), as in ProdCons       *)
(*   elem, rlock, rundo, free    in prodcons_read(), as in ProdCons        *)
(*   print     in the message with which either of them ends               *)
(***************************************************************************)
EXTENDS Integers, Sequences, FiniteSets, Semaphore

CONSTANTS Admins,            \* processes that use admin
          Producers, Consumers,    \* processes that write to, read the buffers
          Names, Test,       \* the names in use, and "test"
          Types,             \* the types asked for: integers (TRUE), strings
          MaxEntries,        \* max_entries
          MaxSize,           \* max_size
          UINT_MAX,          \* the largest value of entries, which is unsigned
          MaxBuffers,        \* bound on the buffers allocated at a time
          MaxUps,            \* bound on gaps + elements, which an endless drain raises
          MaxSignals         \* bound on the interrupted waits

ASSUME MultiPCAssumption ==
    /\ Test \in Names /\ Types \subseteq BOOLEAN
    /\ MaxEntries \in Nat \ {0} /\ MaxSize \in Nat \ {0}
    /\ MaxBuffers \in Nat \ {0} /\ MaxUps \in Nat \ {0} /\ MaxSignals \in Nat
    /\ IsFiniteSet(Admins \cup Producers \cup Consumers)
    /\ Admins # {} /\ Admins \cap (Producers \cup Consumers) = {}
    /\ UINT_MAX \in Nat \ {0} /\ MaxEntries + Cardinality(Admins) - 1 <= UINT_MAX

Users   == Producers \cup Consumers
Procs   == Admins \cup Users
Buffers == 1 .. MaxBuffers
None    == 0                 \* no buffer, NULL, the head of the list

VARIABLES
    list,        \* procDataList: the buffers of its nodes, in order
    sem_list,    \* the mutex of the list
    entries,     \* how many entries there are
    proc,        \* /proc/multipc: the buffer behind each name
    buf,         \* the prodcons structures
    heap,        \* strings allocated that are not freed, nor lost for ever
    pc, loc,     \* where each process is, and its local variables
    signals,     \* interruptions so far
    unlocked,    \* a signal has hit a wait for the list
    raced,       \* two increments of entries have overlapped
    overlapped,  \* names in whose deletion a call on the entry took part
    stale,       \* writers whose string may be freed, and is yet to be printed
    misuse       \* a freed kfifo or node, or a list in change, was used, or a
                 \* string was freed twice

admin == <<list, sem_list, entries, proc>>
ghost == <<unlocked, raced, overlapped, stale>>
vars  == <<admin, buf, heap, pc, loc, signals, ghost, misuse>>

PCs == {"idle", "exists", "create", "add", "append", "load", "count",
        "remove", "walk", "drain", "drainlock", "drainup", "drained", "unlink",
        "rundown", "unlist",
        "gap", "wlock", "wundo", "post", "elem", "rlock", "rundo", "free", "print"}

\* name: the argument.  node: the buffer in use.  next: aux of the walk, or the
\* entry remove_proc_entry() waits for.  got: what freestr or str points to.
Locals == [op : {"none", "new", "delete"}, name : Names, node : Buffers \cup {None},
           next : Buffers \cup {None}, got : {"null", "string", "dangling"}, reg : Nat]

NoLocals == [op |-> "none", name |-> Test, node |-> None, next |-> None,
             got |-> "null", reg |-> 0]

\* vfree(data).  state: not allocated; in use; its kfifo freed.
Freed == [state |-> "freed", name |-> Test, isInt |-> TRUE, stored |-> 0,
          elements |-> SemInit(0), gaps |-> SemInit(0), mtx |-> SemInit(0)]

\* initializeProdcons()
NewBuffer(n, isInteger) ==
    [state |-> "live", name |-> n, isInt |-> isInteger, stored |-> 0,
     elements |-> SemInit(0), gaps |-> SemInit(MaxSize), mtx |-> SemInit(1)]

\* The module is loaded: one buffer of integers, "test".
Init ==
    /\ list = <<1>> /\ sem_list = SemInit(1) /\ entries = 1
    /\ proc = [n \in Names |-> IF n = Test THEN 1 ELSE None]
    /\ buf = [d \in Buffers |-> IF d = 1 THEN NewBuffer(Test, TRUE) ELSE Freed]
    /\ heap = 0
    /\ pc = [p \in Procs |-> "idle"]
    /\ loc = [p \in Procs |-> NoLocals]
    /\ signals = 0 /\ misuse = FALSE
    /\ unlocked = FALSE /\ raced = FALSE /\ overlapped = {} /\ stale = {}

Goto(p, place) == pc' = [pc EXCEPT ![p] = place]
Return(p) == Goto(p, "idle") /\ loc' = [loc EXCEPT ![p] = NoLocals]
Granted(p, place, sem) == pc[p] = place /\ ~Waiting(sem, p)

\* p is in a critical section of the list, by a grant or by an ignored -EINTR.
OwnsList(p) == pc[p] \in {"exists", "append", "walk", "unlist"} /\ ~Waiting(sem_list, p)
Alone(p)    == \A q \in Procs \ {p} : ~OwnsList(q)

\* A walk of the list by p touches freed memory or a list in change.
BadWalk(p) == ~Alone(p) \/ \E i \in DOMAIN list : buf[list[i]].state = "freed"

\* Mutant: the structure is freed first, whoever is in a call.
UsingNobody(d) == {}

\* Calls in progress on d, and on a buffer called n; deletions of n past exists().
Using(d)    == {u \in Users : pc[u] # "idle" /\ loc[u].node = d}
Busy(n)     == \E d \in Buffers : buf[d].name = n /\ Using(d) # {}
Deleting(n) == \E p \in Admins :
    /\ pc[p] \in {"walk", "drain", "drainlock", "drainup", "drained", "unlink",
                  "rundown", "unlist"}
    /\ loc[p].op = "delete" /\ loc[p].name = n
OwnsBuffer(d) == {p \in Procs : /\ pc[p] \in {"wlock", "rlock", "drainlock"}
                                /\ loc[p].node = d /\ ~Waiting(buf[d].mtx, p)}
-----------------------------------------------------------------------------
(* admin_write: "new" *)

\* The client's discipline: one process administers while it deletes.
AdminIdle(p) == \A q \in Admins \ {p} : pc[q] = "idle"
NobodyDeletes == \A q \in Admins : loc[q].op # "delete"

EnterAdmin(p, op, n) ==
    /\ sem_list' = Down(sem_list, p)
    /\ Goto(p, "exists")
    /\ loc' = [loc EXCEPT ![p] = [NoLocals EXCEPT !.op = op, !.name = n]]
    /\ UNCHANGED <<list, entries, proc, buf, heap, signals, ghost, misuse>>

\* Mutant: the limit itself is let through.
FullTooLate == entries > MaxEntries
Full        == entries >= MaxEntries

CallNew(p) ==
    /\ pc[p] = "idle" /\ NobodyDeletes
    /\ ~Full
    /\ \E n \in Names : EnterAdmin(p, "new", n)

CallDelete(p) ==
    /\ pc[p] = "idle" /\ AdminIdle(p)
    /\ \E n \in Names : EnterAdmin(p, "delete", n)

Listed(n) == \E i \in DOMAIN list : buf[list[i]].name = n

\* exists(): the call goes on if the name is new, or to be deleted.
Exists(p) ==
    LET go == Listed(loc[p].name) <=> loc[p].op = "delete"
    IN  /\ Granted(p, "exists", sem_list)
        /\ sem_list' = Up(sem_list)
        /\ misuse' = (misuse \/ BadWalk(p))
        /\ IF go THEN /\ Goto(p, IF loc[p].op = "new" THEN "create" ELSE "remove")
                      /\ UNCHANGED loc
                 ELSE Return(p)
        /\ UNCHANGED <<list, entries, proc, buf, heap, signals, ghost>>

\* proc_create_data() refuses a name that is registered; nobody looks.  The type
\* may be none of the two, and memory may be short.
Create(p) ==
    /\ pc[p] = "create"
    /\ \/ Return(p) /\ UNCHANGED <<proc, buf>>
       \/ \E isInteger \in Types, d \in Buffers :
            /\ buf[d].state = "freed" /\ \A e \in 1 .. d - 1 : buf[e].state # "freed"
            /\ buf' = [buf EXCEPT ![d] = NewBuffer(loc[p].name, isInteger)]
            /\ proc' = [proc EXCEPT ![loc[p].name] = IF @ = None THEN d ELSE @]
            /\ loc' = [loc EXCEPT ![p].node = d]
            /\ Goto(p, "add")
    /\ UNCHANGED <<list, sem_list, entries, heap, signals, ghost, misuse>>

\* Mutant: the node is linked without the mutex.
AddLockForgotten(p) ==
    /\ pc[p] = "add"
    /\ Goto(p, "append")
    /\ UNCHANGED <<admin, buf, heap, loc, signals, ghost, misuse>>

AddLock(p) ==
    /\ pc[p] = "add"
    /\ sem_list' = Down(sem_list, p)
    /\ Goto(p, "append")
    /\ UNCHANGED <<list, entries, proc, buf, heap, loc, signals, ghost, misuse>>

AddAppend(p) ==
    /\ Granted(p, "append", sem_list)
    /\ list' = Append(list, loc[p].node)
    /\ sem_list' = Up(sem_list)
    /\ misuse' = (misuse \/ ~Alone(p))
    /\ Goto(p, "load")
    /\ UNCHANGED <<entries, proc, buf, heap, loc, signals, ghost>>

\* ++entries is not atomic, and outside the mutex.
AddLoad(p) ==
    /\ pc[p] = "load"
    /\ loc' = [loc EXCEPT ![p].reg = entries]
    /\ Goto(p, "count")
    /\ raced' = (raced \/ \E q \in Admins : pc[q] = "count")
    /\ UNCHANGED <<admin, buf, heap, signals, unlocked, overlapped, stale, misuse>>

AddStore(p) ==
    /\ pc[p] = "count"
    /\ entries' = (loc[p].reg + 1) % (UINT_MAX + 1)
    /\ Return(p)
    /\ UNCHANGED <<list, sem_list, proc, buf, heap, signals, ghost, misuse>>
-----------------------------------------------------------------------------
(* admin_write: "delete" *)

RemoveLock(p) ==
    /\ pc[p] = "remove"
    /\ sem_list' = Down(sem_list, p)
    /\ Goto(p, "walk")
    /\ UNCHANGED <<list, entries, proc, buf, heap, loc, signals, ghost, misuse>>

\* The walk over rest, the nodes left: it stops at the next one of that name,
\* with the node after it in aux, or returns; the mutex is freed either way.
WalkOn(p, rest) ==
    LET hits == {i \in DOMAIN rest : buf[rest[i]].name = loc[p].name}
        i    == CHOOSE j \in hits : \A k \in hits : j <= k
    IN  /\ sem_list' = Up(sem_list)
        /\ IF hits = {}
           THEN Return(p) /\ overlapped' = overlapped \ {loc[p].name}
           ELSE /\ loc' = [loc EXCEPT ![p].node = rest[i],
                                      ![p].next = IF i < Len(rest) THEN rest[i + 1] ELSE None]
                /\ overlapped' = IF Busy(loc[p].name) THEN overlapped \cup {loc[p].name}
                                                     ELSE overlapped
                /\ Goto(p, "drain")

Walk(p) ==
    /\ Granted(p, "walk", sem_list)
    /\ misuse' = (misuse \/ BadWalk(p))
    /\ WalkOn(p, list)
    /\ UNCHANGED <<list, entries, proc, buf, heap, signals, unlocked, raced, stale>>

DrainLock(p) ==
    LET d == loc[p].node
    IN  /\ pc[p] = "drain" /\ ~buf[d].isInt /\ buf[d].stored > 0
        /\ buf' = [buf EXCEPT ![d].mtx = Down(@, p)]
        /\ Goto(p, "drainlock")
        /\ UNCHANGED <<admin, heap, loc, signals, ghost, misuse>>

DrainTake(p) ==
    LET d == loc[p].node
    IN  /\ Granted(p, "drainlock", buf[d].mtx)
        /\ buf' = [buf EXCEPT ![d].mtx = Up(@),
                              ![d].stored = IF @ > 0 THEN @ - 1 ELSE @]
        /\ loc' = [loc EXCEPT ![p].got = IF buf[d].stored > 0 THEN "string" ELSE @]
        /\ Goto(p, "drainup")
        /\ UNCHANGED <<admin, heap, signals, ghost, misuse>>

\* Mutant: the gap is not given back.
DrainedKept(d) == buf[d].gaps

\* vfree(freestr) or vfree(str), of a string it has; up(&gaps) of the drain.
HeapFreed(p) == IF loc[p].got = "string" THEN heap - 1 ELSE heap
Drained(d)   == Up(buf[d].gaps)

\* The writers that have added a string to d and not printed it yet: the string
\* that p has taken and frees may be that of any of them.
MayPrint(d) == {u \in Producers : /\ pc[u] \in {"post", "print"} /\ loc[u].node = d
                                  /\ loc[u].got = "null"}
StaleNow(p) == IF loc[p].got = "string" THEN stale \cup MayPrint(loc[p].node) ELSE stale

\* up(&gaps); vfree(freestr), again if kfifo_out() found nothing new.
DrainFree(p) ==
    LET d == loc[p].node
    IN  /\ pc[p] = "drainup"
        /\ buf' = [buf EXCEPT ![d].gaps = Drained(d)]
        /\ heap' = HeapFreed(p)
        /\ misuse' = (misuse \/ loc[p].got = "dangling")
        /\ loc' = [loc EXCEPT ![p].got = IF @ = "null" THEN @ ELSE "dangling"]
        /\ stale' = StaleNow(p)
        /\ Goto(p, "drain")
        /\ UNCHANGED <<admin, signals, unlocked, raced, overlapped>>

\* The loop is left, or skipped.
DrainDone(p) ==
    LET d == loc[p].node
    IN  /\ pc[p] = "drain" /\ (buf[d].isInt \/ buf[d].stored = 0)
        /\ Goto(p, "drained")
        /\ UNCHANGED <<admin, buf, heap, loc, signals, ghost, misuse>>

\* kfifo_free(): the strings that came since the loop test are lost.
FreeBuffer(p) ==
    LET d == loc[p].node
    IN  /\ pc[p] = "drained"
        /\ buf' = [buf EXCEPT ![d].state = "nofifo", ![d].stored = 0]
        /\ heap' = IF buf[d].isInt THEN heap ELSE heap - buf[d].stored
        /\ misuse' = (misuse \/ OwnsBuffer(d) # {})
        /\ Goto(p, "unlink")
        /\ UNCHANGED <<admin, loc, signals, ghost>>

\* remove_proc_entry(): the name is free, and no new call gets in ...
Unlink(p) ==
    LET n == buf[loc[p].node].name
    IN  /\ pc[p] = "unlink"
        /\ proc' = [proc EXCEPT ![n] = None]
        /\ loc' = [loc EXCEPT ![p].reg = proc[n]]
        /\ Goto(p, "rundown")
        /\ UNCHANGED <<list, sem_list, entries, buf, heap, signals, ghost, misuse>>

\* ... and those in progress have ended; then vfree(node->data).
Rundown(p) ==
    /\ pc[p] = "rundown"
    /\ Using(loc[p].reg) = {}
    /\ buf' = [buf EXCEPT ![loc[p].node] = Freed]
    /\ loc' = [loc EXCEPT ![p].reg = None]
    /\ sem_list' = Down(sem_list, p)
    /\ Goto(p, "unlist")
    /\ UNCHANGED <<list, entries, proc, heap, signals, ghost, misuse>>

\* The place of the node of d.
At(d) == CHOOSE i \in DOMAIN list : list[i] = d

\* Mutant: the walk ends with the first buffer of that name.
NoRest(p) == << >>

\* The nodes from aux on.
Rest(p) ==
    IF loc[p].next = None THEN << >>
    ELSE SubSeq(list, At(loc[p].next), Len(list))

\* list_del(pos), vfree(node), --entries; the walk goes on at aux.
Unlist(p) ==
    /\ Granted(p, "unlist", sem_list)
    /\ misuse' = (misuse \/ ~Alone(p))
    /\ list' = RemoveAt(list, At(loc[p].node))
    /\ entries' = (entries - 1) % (UINT_MAX + 1)
    /\ WalkOn(p, Rest(p))
    /\ UNCHANGED <<proc, buf, heap, signals, unlocked, raced, stale>>
-----------------------------------------------------------------------------
(* prodcons_write, prodcons_read *)

\* A call on an entry, between use_pde() and its return.
EnterBuffer(u, d, place) ==
    /\ loc' = [loc EXCEPT ![u].node = d]
    /\ overlapped' = IF Deleting(buf[d].name) THEN overlapped \cup {buf[d].name}
                                             ELSE overlapped
    /\ Goto(u, place)
    /\ UNCHANGED <<admin, signals, unlocked, raced, stale, misuse>>

CallWrite(u) ==
    /\ pc[u] = "idle"
    /\ \E n \in Names : LET d == proc[n] IN
        /\ d # None /\ buf[d].gaps.count + buf[d].elements.count < MaxUps
        /\ buf' = [buf EXCEPT ![d].gaps = Down(@, u)]
        /\ heap' = IF buf[d].isInt THEN heap ELSE heap + 1
        /\ EnterBuffer(u, d, "gap")

WriteLock(u) ==
    LET d == loc[u].node
    IN  /\ Granted(u, "gap", buf[d].gaps)
        /\ buf' = [buf EXCEPT ![d].mtx = Down(@, u)]
        /\ Goto(u, "wlock")
        /\ UNCHANGED <<admin, heap, loc, signals, ghost, misuse>>

\* A kfifo that was freed has no room.
Room(d) == buf[d].state = "live" /\ buf[d].stored < MaxSize

\* Without room kfifo_in() stores nothing, and a string is lost.
WritePut(u) ==
    LET d == loc[u].node
    IN  /\ Granted(u, "wlock", buf[d].mtx)
        /\ buf' = [buf EXCEPT ![d].stored = IF Room(d) THEN @ + 1 ELSE @, ![d].mtx = Up(@)]
        /\ heap' = IF Room(d) \/ buf[d].isInt THEN heap ELSE heap - 1
        /\ Goto(u, "post")
        /\ UNCHANGED <<admin, loc, signals, ghost, misuse>>

WritePost(u) ==
    LET d == loc[u].node
    IN  /\ pc[u] = "post"
        /\ buf' = [buf EXCEPT ![d].elements = Up(@)]
        /\ Goto(u, "print")
        /\ UNCHANGED <<admin, heap, loc, signals, ghost, misuse>>

\* -EINTR: the gap goes back; nobody has the string any more, or will free it.
WriteUndo(u) ==
    LET d == loc[u].node
    IN  /\ pc[u] = "wundo"
        /\ buf' = [buf EXCEPT ![d].gaps = Up(@)]
        /\ heap' = IF buf[d].isInt THEN heap ELSE heap - 1
        /\ Return(u)
        /\ UNCHANGED <<admin, signals, ghost, misuse>>

CallRead(u) ==
    /\ pc[u] = "idle"
    /\ \E n \in Names : LET d == proc[n] IN
        /\ d # None
        /\ buf' = [buf EXCEPT ![d].elements = Down(@, u)]
        /\ EnterBuffer(u, d, "elem")
    /\ UNCHANGED heap

ReadLock(u) ==
    LET d == loc[u].node
    IN  /\ Granted(u, "elem", buf[d].elements)
        /\ buf' = [buf EXCEPT ![d].mtx = Down(@, u)]
        /\ Goto(u, "rlock")
        /\ UNCHANGED <<admin, heap, loc, signals, ghost, misuse>>

ReadTake(u) ==
    LET d == loc[u].node
    IN  /\ Granted(u, "rlock", buf[d].mtx)
        /\ buf' = [buf EXCEPT ![d].mtx = Up(@),
                              ![d].stored = IF @ > 0 THEN @ - 1 ELSE @]
        /\ loc' = [loc EXCEPT ![u].got = IF buf[d].stored > 0 /\ ~buf[d].isInt
                                         THEN "string" ELSE "null"]
        /\ Goto(u, "free")
        /\ UNCHANGED <<admin, heap, signals, ghost, misuse>>

\* up(&gaps), the conversion and vfree(str).  The read may end with an error;
\* it does if kfifo_out() found no string.
ReadFree(u) ==
    LET d == loc[u].node
    IN  /\ pc[u] = "free"
        /\ buf' = [buf EXCEPT ![d].gaps = Up(@)]
        /\ heap' = HeapFreed(u)
        /\ stale' = StaleNow(u)
        /\ \/ Return(u)
           \/ /\ buf[d].isInt \/ loc[u].got = "string"
              /\ loc' = [loc EXCEPT ![u].got = IF @ = "null" THEN @ ELSE "dangling"]
              /\ Goto(u, "print")
        /\ UNCHANGED <<admin, signals, unlocked, raced, overlapped, misuse>>

\* The message, with the name of the buffer and the value.  A reader has freed
\* the string it prints (got), and so may a reader of the writer's (stale).
Message(u) ==
    /\ pc[u] = "print"
    /\ stale' = stale \ {u}
    /\ Return(u)
    /\ UNCHANGED <<admin, buf, heap, signals, unlocked, raced, overlapped, misuse>>

ReadUndo(u) ==
    LET d == loc[u].node
    IN  /\ pc[u] = "rundo"
        /\ buf' = [buf EXCEPT ![d].elements = Up(@)]
        /\ Return(u)
        /\ UNCHANGED <<admin, heap, signals, ghost, misuse>>
-----------------------------------------------------------------------------
(* Signals. *)

Signal == signals < MaxSignals /\ signals' = signals + 1

\* -EINTR from a wait for a gap or an element.
InterruptWait(u) ==
    LET d == loc[u].node
    IN  /\ Signal
        /\ \/ /\ pc[u] = "gap" /\ Waiting(buf[d].gaps, u)
              /\ buf' = [buf EXCEPT ![d].gaps = Cancel(@, u)]
              /\ heap' = IF buf[d].isInt THEN heap ELSE heap - 1
           \/ /\ pc[u] = "elem" /\ Waiting(buf[d].elements, u)
              /\ buf' = [buf EXCEPT ![d].elements = Cancel(@, u)]
              /\ UNCHANGED heap
        /\ Return(u)
        /\ UNCHANGED <<admin, ghost, misuse>>

\* -EINTR from a wait for the mutex of a buffer.
InterruptLock(p) ==
    LET d == loc[p].node
    IN  /\ Signal
        /\ pc[p] \in {"wlock", "rlock", "drainlock"} /\ Waiting(buf[d].mtx, p)
        /\ buf' = [buf EXCEPT ![d].mtx = Cancel(@, p)]
        /\ IF pc[p] = "drainlock" THEN Return(p)
           ELSE Goto(p, IF pc[p] = "wlock" THEN "wundo" ELSE "rundo") /\ UNCHANGED loc
        /\ UNCHANGED <<admin, heap, ghost, misuse>>

\* -EINTR from a wait for the list: ignored, the process goes on as if granted.
InterruptList(p) ==
    /\ Signal
    /\ pc[p] \in {"exists", "append", "walk", "unlist"} /\ Waiting(sem_list, p)
    /\ sem_list' = Cancel(sem_list, p)
    /\ unlocked' = TRUE
    /\ UNCHANGED <<list, entries, proc, buf, heap, pc, loc, raced, overlapped, stale, misuse>>
-----------------------------------------------------------------------------
Call(p) ==
    \/ p \in Admins /\ (CallNew(p) \/ CallDelete(p))
    \/ p \in Producers /\ CallWrite(p)
    \/ p \in Consumers /\ CallRead(p)

RunAdmin(p) ==
    \/ Exists(p) \/ Create(p) \/ AddLock(p) \/ AddAppend(p) \/ AddLoad(p) \/ AddStore(p)
    \/ RemoveLock(p) \/ Walk(p) \/ DrainLock(p) \/ DrainTake(p) \/ DrainFree(p)
    \/ DrainDone(p) \/ FreeBuffer(p) \/ Unlink(p) \/ Rundown(p) \/ Unlist(p)

RunUser(u) ==
    \/ WriteLock(u) \/ WritePut(u) \/ WritePost(u) \/ WriteUndo(u)
    \/ ReadLock(u) \/ ReadTake(u) \/ ReadFree(u) \/ ReadUndo(u) \/ Message(u)

Run(p) == RunAdmin(p) \/ RunUser(p)

Interrupt(p) == InterruptWait(p) \/ InterruptLock(p) \/ InterruptList(p)

\* What happens after a misuse is undefined; a message only reads what it prints.
Next == ~misuse /\ \E p \in Procs : Call(p) \/ Run(p) \/ Interrupt(p)

Spec == Init /\ [][Next]_vars
-----------------------------------------------------------------------------
(* Properties. *)

TypeOK ==
    /\ list \in Seq(Buffers) /\ entries \in 0 .. UINT_MAX
    /\ sem_list \in Semaphores(Procs)
    /\ proc \in [Names -> Buffers \cup {None}]
    /\ \A d \in Buffers :
        /\ buf[d].state \in {"freed", "live", "nofifo"}
        /\ buf[d].name \in Names /\ buf[d].isInt \in BOOLEAN
        /\ buf[d].stored \in 0 .. MaxSize
        /\ {buf[d].elements, buf[d].gaps, buf[d].mtx} \subseteq Semaphores(Procs)
    /\ heap \in Nat /\ signals \in 0 .. MaxSignals
    /\ pc \in [Procs -> PCs] /\ loc \in [Procs -> Locals]
    /\ {unlocked, raced, misuse} \subseteq BOOLEAN /\ overlapped \subseteq Names
    /\ stale \subseteq Producers

\* A call never outlives the structure it works on, up to the message that ends
\* it and names the buffer, even one that sleeps while its entry is deleted, or
\* whose name two creations registered at once.
DataOutlivesCalls ==
    \A u \in Users : pc[u] # "idle" => buf[loc[u].node].state \in {"live", "nofifo"}

\* A freed kfifo is used, a string is freed twice, and the list is used while it
\* changes or with a node freed, only after a signal has hit a wait for sem_list,
\* or when a deletion overlaps a call on the buffer.  No such condition holds for
\* the messages: each successful read() of a string prints it freed (line 192),
\* and a write() does (131) when a reader is faster; they are not counted here.
ListAndBuffersSafe == misuse => unlocked \/ overlapped # {}

\* When nobody administers, the list and the directory agree, even after two
\* creations of one name: a name is registered iff it is listed, behind it is a
\* buffer of that name, and no node or entry is left with a freed buffer.
ListMatchesProc ==
    (\A p \in Admins : pc[p] = "idle") =>
        /\ \A n \in Names : proc[n] # None <=> Listed(n)
        /\ \A n \in Names : proc[n] # None =>
              /\ buf[proc[n]].name = n
              /\ \E i \in DOMAIN list : list[i] = proc[n]
        /\ \A i \in DOMAIN list : buf[list[i]].state = "live"

\* Every string allocated is stored once, or in the hands of one call, but for
\* those that an interrupted write() or one to a freed kfifo has lost.
InHand == {p \in Procs : \/ pc[p] \in {"gap", "wlock", "wundo"} /\ ~buf[loc[p].node].isInt
                         \/ loc[p].got = "string"}
InStore == {s \in Buffers \X (1 .. MaxSize) : ~buf[s[1]].isInt /\ s[2] <= buf[s[1]].stored}
StringsAccounted == heap = Cardinality(InHand) + Cardinality(InStore)

\* Gaps and elements of every buffer, as in ProdCons; a drain gives back the
\* gaps, and takes strings without their elements.
HoldsGap(p, d) ==
    /\ loc[p].node = d
    /\ pc[p] \in {"wlock", "wundo", "free", "drainup"} \/ Granted(p, "gap", buf[d].gaps)
HoldsElement(p, d) ==
    /\ loc[p].node = d
    /\ pc[p] \in {"rlock", "rundo", "post"} \/ Granted(p, "elem", buf[d].elements)
UnitsAccounted ==
    \A d \in Buffers : buf[d].state = "live" /\ buf[d].name \notin overlapped =>
        /\ buf[d].gaps.count + Cardinality({p \in Procs : HoldsGap(p, d)})
             + buf[d].stored = MaxSize
        /\ ~Deleting(buf[d].name) =>
             buf[d].elements.count + Cardinality({p \in Procs : HoldsElement(p, d)})
               = buf[d].stored

\* Strings, gaps and elements are accounted for together.
Consistent == TypeOK /\ StringsAccounted /\ UnitsAccounted

\* entries counts the list, but for the creations that have not got there; and
\* the limit is exceeded by as many as passed the test together.  Both hold as
\* long as no two increments overlap.
EntriesExact ==
    ~raced =>
        /\ entries + Cardinality({p \in Admins : pc[p] \in {"load", "count"}}) = Len(list)
        /\ Len(list) <= MaxEntries + Cardinality(Admins) - 1
=============================================================================
