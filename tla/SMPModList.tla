----------------------------- MODULE SMPModList -----------------------------
(***************************************************************************)
(* "mod4 - FIFO pipes and syncronization/Submission/ParteA/SMPmodlist.c":  *)
(* the list of ModList, every walk and change of which holds a spin lock.  *)
(* A read() whose text does not fit its buffer fails.                      *)
(***************************************************************************)
EXTENDS ModList, Removal

CONSTANTS None,              \* nobody
          MaxText            \* MAX_DIGS, in lines

ASSUME SMPAssumption == None \notin Procs /\ MaxText \in Nat

VARIABLES sp,                \* who holds the spin lock
          obs                \* what the last read() of each process returned

smp == <<vars, sp, obs>>

SMPInit == Init /\ sp = None /\ obs = [p \in Procs |-> << >>]

SMPCall(p) == Call(p) /\ UNCHANGED <<sp, obs>>

\* spin_lock(&sp): of add() with the node filled, of the others first.
Lock(p) ==
    /\ pc[p] \in {"prev", "first"} /\ sp = None
    /\ sp' = p
    /\ UNCHANGED <<vars, obs>>

\* Mutant: the lock is not taken to add.
AddsUnlocked(p) == sp = p \/ pc[p] \in {"prev", "addhead", "addnode", "addlink"}

Holds(p) == sp = p

\* spin_unlock(&sp), with the last step of the critical section.
Unlock(p) == sp' = IF sp = p /\ pc'[p] \in {"idle", "unlist"} THEN None ELSE sp

Data(text) == [i \in DOMAIN text |-> ring[text[i]].data]

\* Mutant: a walk that does not fit keeps the lock.
UnlockForgotten(p) == sp' = sp

UnlockFull(p) == Unlock(p)

\* -ENOSPC: the next line does not fit.
ReadFull(p) ==
    /\ Holds(p) /\ pc[p] = "read" /\ loc[p].pos # Head0 /\ Len(loc[p].text) >= MaxText
    /\ Return(p) /\ UnlockFull(p)
    /\ UNCHANGED <<ring, loaded, overlap, late, misuse, obs>>

ReadLine(p) ==
    /\ Holds(p) /\ Len(loc[p].text) < MaxText
    /\ ReadNode(p) /\ Unlock(p) /\ UNCHANGED obs

\* The text reaches the process unless its buffer is too short, or is not its own.
ReadDone(p) ==
    /\ Holds(p) /\ ReadEnd(p) /\ Unlock(p)
    /\ obs' \in {obs, [obs EXCEPT ![p] = Data(loc[p].text)]}

WriteStep(p) ==
    /\ Holds(p) \/ pc[p] = "unlist"
    /\ First(p) \/ AddStep(p) \/ DeleteStep(p)
    /\ Unlock(p) /\ UNCHANGED obs

SMPStep(p) == Lock(p) \/ WriteStep(p) \/ ReadLine(p) \/ ReadDone(p) \/ ReadFull(p)
SMPNext == ~misuse /\ \E p \in Procs : SMPCall(p) \/ SMPStep(p)
SMPSpec == SMPInit /\ [][SMPNext]_smp
-----------------------------------------------------------------------------
(* Properties. *)

\* With the lock no link of a node that is not listed is ever followed, however
\* the calls overlap, and the ring is whole whenever the lock is free.
LockedSafe == ~misuse
LockedIntact ==
    sp = None =>
        /\ Listed = Live \ {loc[p].new : p \in Procs}
        /\ \A i \in Listed \cup {Head0} : ring[ring[i].next].prev = i

\* Nobody keeps the lock when its call is over, failed calls included.
LockReleased == \A p \in Procs : pc[p] \in {"idle", "unlist"} => sp # p

\* A shared list that changes at once: a change happens when its call gets the
\* lock, a read when it ends.
ListedData == [n \in 1 .. Cardinality(Listed) |-> ring[Path[n - 1]].data]
Committed ==
    IF sp = None \/ pc[sp] \in {"read", "idle"} THEN ListedData
    ELSE IF loc[sp].op = "add" THEN Append(ListedData, ring[loc[sp].new].data)
    ELSE IF loc[sp].op = "read" THEN ListedData
    ELSE Without(ListedData, loc[sp].v, Every)
=============================================================================
