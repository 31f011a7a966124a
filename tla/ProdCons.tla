------------------------------ MODULE ProdCons ------------------------------
(***************************************************************************)
(* The bounded buffer of "ProdCons1/prodcons1.c": two semaphores count its *)
(* elements and its gaps, a third one is the mutex of the kfifo.           *)
(*                                                                         *)
(* A process is one open file of /proc/prodcons.  An action is the code    *)
(* from one semaphore operation to the next; pc tells where a process is:  *)
(*   idle    in no call, *off = 0          used   in no call, *off > 0     *)
(*   gap     in down_interruptible(&huecos)                                *)
(*   elem    in down_interruptible(&elementos)                             *)
(*   wlock   in down_interruptible(&mtx) of write     rlock   of read      *)
(*   wundo   that was interrupted: before up(&huecos)                      *)
(*   rundo   that was interrupted: before up(&elementos)                   *)
(*   post    value stored and mutex free, before up(&elementos)            *)
(*   free    value taken and mutex free, before up(&huecos)                *)
(*   copy    in the conversion and the copy_to_user() that end read        *)
(* The returns before the first down (-ENOSPC, -EFAULT, -EINVAL, and 0     *)
(* when *off > 0) change nothing: the kernel keeps the new *off of a call  *)
(* that succeeds only.                                                     *)
(***************************************************************************)
EXTENDS Integers, Sequences, FiniteSets, Semaphore

CONSTANTS Producers, Consumers,    \* processes that write, that read
          Values, NoValue,         \* the integers they exchange; no integer
          Capacity,                \* MAX_ITEMS_CBUF
          MaxSignals               \* bound on the interrupted waits

ASSUME ProdConsAssumption ==
    /\ Capacity \in Nat \ {0}
    /\ MaxSignals \in Nat
    /\ NoValue \notin Values
    /\ IsFiniteSet(Producers \cup Consumers)

Procs == Producers \cup Consumers

VARIABLES elementos, huecos, mtx,    \* the three semaphores
          cbuf,                      \* the kfifo: a sequence of integers
          pc, val,                   \* where each process is, and its val
          signals                    \* interruptions so far

vars == <<elementos, huecos, mtx, cbuf, pc, val, signals>>

PCs == {"idle", "used", "gap", "wlock", "wundo", "post",
        "elem", "rlock", "rundo", "free", "copy"}

Init ==
    /\ elementos = SemInit(0) /\ huecos = SemInit(Capacity) /\ mtx = SemInit(1)
    /\ cbuf = << >>
    /\ pc = [p \in Procs |-> "idle"]
    /\ val = [p \in Procs |-> NoValue]
    /\ signals = 0

Goto(p, place) == pc' = [pc EXCEPT ![p] = place]
Forget(p) == val' = [val EXCEPT ![p] = NoValue]

\* p has been granted the semaphore it went for at place.
Granted(p, place, sem) == pc[p] = place /\ ~Waiting(sem, p)

\* p is inside the critical section.
Owns(p) == Granted(p, "wlock", mtx) \/ Granted(p, "rlock", mtx)
-----------------------------------------------------------------------------
(* prodcons_write *)

CallWrite(p) ==
    /\ pc[p] = "idle" /\ p \in Producers
    /\ \E v \in Values : val' = [val EXCEPT ![p] = v]
    /\ huecos' = Down(huecos, p)
    /\ Goto(p, "gap")
    /\ UNCHANGED <<elementos, mtx, cbuf, signals>>

WriteLock(p) ==
    /\ Granted(p, "gap", huecos)
    /\ mtx' = Down(mtx, p)
    /\ Goto(p, "wlock")
    /\ UNCHANGED <<elementos, huecos, cbuf, val, signals>>

\* kfifo_in() stores the integer if there is room for it.
WritePut(p) ==
    /\ Granted(p, "wlock", mtx)
    /\ cbuf' = IF Len(cbuf) < Capacity THEN Append(cbuf, val[p]) ELSE cbuf
    /\ mtx' = Up(mtx)
    /\ Goto(p, "post")
    /\ UNCHANGED <<elementos, huecos, val, signals>>

WritePost(p) ==
    /\ pc[p] = "post"
    /\ elementos' = Up(elementos)
    /\ Goto(p, "used")
    /\ UNCHANGED <<huecos, mtx, cbuf, val, signals>>

\* Mutant: -EINTR without giving the gap back.
WriteUndoKeepsGap(p) ==
    /\ pc[p] = "wundo"
    /\ Goto(p, "idle") /\ Forget(p)
    /\ UNCHANGED <<elementos, huecos, mtx, cbuf, signals>>

\* The mutex was not obtained: the gap goes back, and the call fails.
WriteUndo(p) ==
    /\ pc[p] = "wundo"
    /\ huecos' = Up(huecos)
    /\ Goto(p, "idle") /\ Forget(p)
    /\ UNCHANGED <<elementos, mtx, cbuf, signals>>
-----------------------------------------------------------------------------
(* prodcons_read *)

CallRead(p) ==
    /\ pc[p] = "idle" /\ p \in Consumers
    /\ elementos' = Down(elementos, p)
    /\ Goto(p, "elem")
    /\ UNCHANGED <<huecos, mtx, cbuf, val, signals>>

ReadLock(p) ==
    /\ Granted(p, "elem", elementos)
    /\ mtx' = Down(mtx, p)
    /\ Goto(p, "rlock")
    /\ UNCHANGED <<elementos, huecos, cbuf, val, signals>>

\* kfifo_out() takes the oldest integer, if there is one.
ReadTake(p) ==
    /\ Granted(p, "rlock", mtx)
    /\ val' = [val EXCEPT ![p] = IF cbuf = << >> THEN NoValue ELSE Head(cbuf)]
    /\ cbuf' = IF cbuf = << >> THEN cbuf ELSE Tail(cbuf)
    /\ mtx' = Up(mtx)
    /\ Goto(p, "free")
    /\ UNCHANGED <<elementos, huecos, signals>>

ReadFree(p) ==
    /\ pc[p] = "free"
    /\ huecos' = Up(huecos)
    /\ Goto(p, "copy")
    /\ UNCHANGED <<elementos, mtx, cbuf, val, signals>>

\* The value reaches the user, or the call fails with it: len too short for the
\* text (-ENOSPC), copy_to_user() (-EINVAL), or no value to begin with.
ReadReturn(p) ==
    /\ pc[p] = "copy"
    /\ \/ val[p] # NoValue /\ Goto(p, "used") /\ UNCHANGED val
       \/ Goto(p, "idle") /\ Forget(p)
    /\ UNCHANGED <<elementos, huecos, mtx, cbuf, signals>>

\* Mutant: -EINTR without giving the element back.
ReadUndoKeepsElement(p) ==
    /\ pc[p] = "rundo"
    /\ Goto(p, "idle")
    /\ UNCHANGED <<elementos, huecos, mtx, cbuf, val, signals>>

ReadUndo(p) ==
    /\ pc[p] = "rundo"
    /\ elementos' = Up(elementos)
    /\ Goto(p, "idle")
    /\ UNCHANGED <<huecos, mtx, cbuf, val, signals>>
-----------------------------------------------------------------------------
(* Signals, and the entry opened again. *)

\* A signal ends the wait for a gap or for an element.
InterruptWait(p) ==
    /\ signals < MaxSignals /\ signals' = signals + 1
    /\ \/ /\ pc[p] = "gap" /\ Waiting(huecos, p)
          /\ huecos' = Cancel(huecos, p) /\ UNCHANGED elementos
       \/ /\ pc[p] = "elem" /\ Waiting(elementos, p)
          /\ elementos' = Cancel(elementos, p) /\ UNCHANGED huecos
    /\ Goto(p, "idle") /\ Forget(p)
    /\ UNCHANGED <<mtx, cbuf>>

\* A signal ends the wait for the mutex.
InterruptLock(p) ==
    /\ signals < MaxSignals /\ signals' = signals + 1
    /\ pc[p] \in {"wlock", "rlock"} /\ Waiting(mtx, p)
    /\ mtx' = Cancel(mtx, p)
    /\ Goto(p, IF pc[p] = "wlock" THEN "wundo" ELSE "rundo")
    /\ UNCHANGED <<elementos, huecos, cbuf, val>>

Reopen(p) ==
    /\ pc[p] = "used"
    /\ Goto(p, "idle") /\ Forget(p)
    /\ UNCHANGED <<elementos, huecos, mtx, cbuf, signals>>

Call(p) == CallWrite(p) \/ CallRead(p) \/ Reopen(p)

Run(p) ==
    \/ WriteLock(p) \/ WritePut(p) \/ WritePost(p) \/ WriteUndo(p)
    \/ ReadLock(p) \/ ReadTake(p) \/ ReadFree(p) \/ ReadReturn(p) \/ ReadUndo(p)

Interrupt(p) == InterruptWait(p) \/ InterruptLock(p)

Next == \E p \in Procs : Call(p) \/ Run(p) \/ Interrupt(p)

Spec == Init /\ [][Next]_vars

\* The scheduler runs every runnable process; nobody is bound to make a call.
Fairness == \A p \in Procs : WF_vars(Run(p))

FairSpec == Spec /\ Fairness
-----------------------------------------------------------------------------
(* Properties. *)

TypeOK ==
    /\ elementos \in Semaphores(Procs)
    /\ huecos \in Semaphores(Procs)
    /\ mtx \in Semaphores(Procs)
    /\ cbuf \in Seq(Values) /\ Len(cbuf) <= Capacity
    /\ pc \in [Procs -> PCs]
    /\ val \in [Procs -> Values \cup {NoValue}]
    /\ signals \in 0 .. MaxSignals

\* The kfifo is used by one process at a time, and its mutex is never lost.
MutexConserved ==
    /\ mtx.count \in {0, 1}
    /\ mtx.count = 1 <=> \A p \in Procs : ~Owns(p)
    /\ \A p, q \in Procs : Owns(p) /\ Owns(q) => p = q

\* Processes between the grant of a gap and the insertion (or the undo), and
\* between an extraction and the up(&huecos); the same with the elements.
GapHolders ==
    {p \in Procs : pc[p] \in {"wlock", "wundo", "free"} \/ Granted(p, "gap", huecos)}
ElementHolders ==
    {p \in Procs : pc[p] \in {"rlock", "rundo", "post"} \/ Granted(p, "elem", elementos)}

\* Every place of the buffer is counted once, through interrupted calls too: a
\* gap in huecos, a gap somebody holds, or a value.  So kfifo_in() has room.
GapsAccounted ==
    huecos.count + Cardinality(GapHolders) + Len(cbuf) = Capacity

\* Every value in the buffer is either counted in elementos, promised to a
\* reader, or not announced yet by its writer.  So kfifo_out() finds a value.
ElementsAccounted ==
    elementos.count + Cardinality(ElementHolders) = Len(cbuf)

\* So the one store and the one removal never fail, and nothing is leaked.
UnitsAccounted == GapsAccounted /\ ElementsAccounted

\* How the bounded buffer sees a place.  A call takes effect at kfifo_in() or
\* kfifo_out(); one that has to give a unit back has not returned yet.
Phase(place) ==
    CASE place \in {"gap", "wlock", "wundo"} -> "put"
      [] place \in {"elem", "rlock", "rundo"} -> "get"
      [] place = "post" -> "stored"
      [] place \in {"free", "copy"} -> "taken"
      [] OTHER -> place

Buffer == INSTANCE BoundedBuffer WITH
    buffer <- cbuf, phase <- [p \in Procs |-> Phase(pc[p])], item <- val

\* The two handlers are a FIFO buffer whose calls take effect at one instant, or
\* at none when a signal ends them: no value is stored twice, overwritten or
\* invented, whatever is interrupted and whoever gives a unit back.
ImplementsBuffer == Buffer!Spec

\* And the semaphores grant gaps and elements in the order of the calls: a
\* writer waits only as long as nobody reads, however many others come later.
ImplementsFairBuffer == Buffer!StrongFairSpec
=============================================================================
