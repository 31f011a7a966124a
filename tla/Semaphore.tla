----------------------------- MODULE Semaphore -----------------------------
(***************************************************************************)
(* The counting semaphore of the Linux kernel (struct semaphore), as the   *)
(* modules of this repository use it through sema_init, down,              *)
(* down_interruptible and up.  It is external code: a count and a FIFO     *)
(* list of waiters.                                                        *)
(*                                                                         *)
(* up() hands the semaphore over to the first waiter: it takes it off the  *)
(* list and leaves the count alone.  A process that called down() and is   *)
(* no longer on the list has therefore been granted the semaphore, and a   *)
(* signal can end the wait only of a process that still is on it.          *)
(***************************************************************************)
EXTENDS Integers, Sequences, SequencesExt

\* The semaphores that processes of P may wait on.
Semaphores(P) == [count : Nat, waiters : Seq(P)]

\* sema_init(&sem, n)
SemInit(n) == [count |-> n, waiters |-> << >>]

\* down(&sem) or down_interruptible(&sem) by p: taken at once, or p queues.
Down(s, p) ==
    IF s.count > 0 THEN [s EXCEPT !.count = @ - 1]
                   ELSE [s EXCEPT !.waiters = Append(@, p)]

\* up(&sem): handed to the oldest waiter, or counted.
Up(s) ==
    IF s.waiters = << >> THEN [s EXCEPT !.count = @ + 1]
                         ELSE [s EXCEPT !.waiters = Tail(@)]

\* p called down() and has not been granted the semaphore yet.
Waiting(s, p) == \E i \in DOMAIN s.waiters : s.waiters[i] = p

\* The place of p in the list.
Place(s, p) == CHOOSE i \in DOMAIN s.waiters : s.waiters[i] = p

\* The wait of p is interrupted: p leaves the list, the others keep their order.
Cancel(s, p) == [s EXCEPT !.waiters = RemoveAt(@, Place(s, p))]
=============================================================================
