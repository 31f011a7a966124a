----------------------------- MODULE FifoMonitor -----------------------------
(***************************************************************************)
(* What the FIFO pipe promises: the monitor the authors wrote first, in    *)
(* ParteB/pseudocódigo.c, with a lock and two condition variables.         *)
(*                                                                         *)
(* A critical section is one step.  cond_wait leaves the process waiting   *)
(* and cond_signal releases one waiter if there is one that no signal has  *)
(* released already; which one is settled when it runs.  Nobody leaves a   *)
(* cond_wait without a signal, and no wait is interrupted.                 *)
(***************************************************************************)
EXTENDS Integers, Sequences, FiniteSets

CONSTANTS Readers, Writers, Capacity, ReadLens, WriteLens

Procs == Readers \cup Writers

EPIPE == -32

VARIABLES prod_count, cons_count,    \* ends opened
          cbuffer,                   \* the bytes in the pipe
          prod, cons,                \* signals no waiter has used yet
          at,                        \* where each process is
          call, len, kbuffer, ret    \* its handler, the locals, the result

vars == <<prod_count, cons_count, cbuffer, prod, cons, at, call, len, kbuffer, ret>>

UserBuffer(p) == [i \in 1 .. Capacity |-> <<p, i>>]
Message(p, n) == SubSeq(UserBuffer(p), 1, n)

Init ==
    /\ prod_count = 0 /\ cons_count = 0
    /\ cbuffer = << >>
    /\ prod = 0 /\ cons = 0
    /\ at = [p \in Procs |-> "closed"]
    /\ call = [p \in Procs |-> "none"]
    /\ len = [p \in Procs |-> 0]
    /\ kbuffer = [p \in Procs |-> << >>]
    /\ ret = [p \in Procs |-> 0]
-----------------------------------------------------------------------------
(* Calls: up to lock(mtx). *)

Enter(p, handler, n, data) ==
    /\ at' = [at EXCEPT ![p] = "enter"]
    /\ call' = [call EXCEPT ![p] = handler]
    /\ len' = [len EXCEPT ![p] = n]
    /\ kbuffer' = [kbuffer EXCEPT ![p] = data]
    /\ ret' = [ret EXCEPT ![p] = 0]
    /\ UNCHANGED <<prod_count, cons_count, cbuffer, prod, cons>>

Call(p) ==
    \/ at[p] = "closed" /\ Enter(p, "open", 0, << >>)
    \/ at[p] = "opened" /\ Enter(p, "release", 0, << >>)
    \/ at[p] = "opened" /\ p \in Readers /\ \E n \in ReadLens : Enter(p, "read", n, << >>)
    \/ /\ at[p] = "opened" /\ p \in Writers
       /\ \E n \in WriteLens : Enter(p, "write", n, Message(p, n))
-----------------------------------------------------------------------------
(* Condition variables. *)

OnCons(p) == call[p] = "read" \/ (call[p] = "open" /\ p \in Readers)
OnProd(p) == call[p] = "write" \/ (call[p] = "open" /\ p \notin Readers)

ConsWaiters == {p \in Procs : at[p] = "wait" /\ OnCons(p)}
ProdWaiters == {p \in Procs : at[p] = "wait" /\ OnProd(p)}

\* The signals left once p, if it comes from a cond_wait, has used its own.
ConsLeft(p) == IF at[p] = "wait" /\ OnCons(p) THEN cons - 1 ELSE cons
ProdLeft(p) == IF at[p] = "wait" /\ OnProd(p) THEN prod - 1 ELSE prod

\* p is inside the critical section of the handler.
Holds(p, handler) ==
    /\ call[p] = handler
    /\ \/ at[p] = "enter"
       \/ at[p] = "wait" /\ OnCons(p) /\ cons > 0
       \/ at[p] = "wait" /\ OnProd(p) /\ prod > 0

SignalCons == cons' = IF cons < Cardinality(ConsWaiters) THEN cons + 1 ELSE cons
SignalProd == prod' = IF prod < Cardinality(ProdWaiters) THEN prod + 1 ELSE prod

Wait(p) ==
    /\ at' = [at EXCEPT ![p] = "wait"]
    /\ UNCHANGED <<call, len, kbuffer, ret>>

Return(p, state, r) ==
    /\ at' = [at EXCEPT ![p] = state]
    /\ call' = [call EXCEPT ![p] = "none"]
    /\ len' = [len EXCEPT ![p] = 0]
    /\ kbuffer' = [kbuffer EXCEPT ![p] = << >>]
    /\ ret' = [ret EXCEPT ![p] = r]
-----------------------------------------------------------------------------
(* The handlers. *)

OpenRead(p) ==
    /\ Holds(p, "open") /\ p \in Readers
    /\ IF at[p] = "enter" THEN cons_count' = cons_count + 1 /\ SignalProd
                          ELSE UNCHANGED <<cons_count, prod>>
    /\ cons' = ConsLeft(p)
    /\ IF prod_count = 0 THEN Wait(p) ELSE Return(p, "opened", 0)
    /\ UNCHANGED <<prod_count, cbuffer>>

OpenWrite(p) ==
    /\ Holds(p, "open") /\ p \notin Readers
    /\ IF at[p] = "enter" THEN prod_count' = prod_count + 1 /\ SignalCons
                          ELSE UNCHANGED <<prod_count, cons>>
    /\ prod' = ProdLeft(p)
    /\ IF cons_count = 0 THEN Wait(p) ELSE Return(p, "opened", 0)
    /\ UNCHANGED <<cons_count, cbuffer>>

Release(p) ==
    /\ Holds(p, "release")
    /\ IF p \in Readers
       THEN cons_count' = cons_count - 1 /\ SignalProd /\ UNCHANGED <<prod_count, cons>>
       ELSE prod_count' = prod_count - 1 /\ SignalCons /\ UNCHANGED <<cons_count, prod>>
    /\ cbuffer' = IF cons_count' = 0 /\ prod_count' = 0 THEN << >> ELSE cbuffer
    /\ Return(p, "closed", 0)

Read(p) ==
    /\ Holds(p, "read")
    /\ cons' = ConsLeft(p)
    /\ \/ /\ Len(cbuffer) < len[p] /\ prod_count > 0
          /\ Wait(p) /\ UNCHANGED <<cbuffer, prod>>
       \/ /\ cbuffer = << >> /\ prod_count = 0
          /\ Return(p, "opened", 0) /\ UNCHANGED <<cbuffer, prod>>
       \/ /\ Len(cbuffer) >= len[p] \/ prod_count = 0
          /\ ~(cbuffer = << >> /\ prod_count = 0)
          /\ \E r \in {n \in 0 .. Len(cbuffer) : n = len[p] \/ (n < len[p] /\ n = Len(cbuffer))} :
                /\ kbuffer' = [kbuffer EXCEPT ![p] = SubSeq(cbuffer, 1, r)]
                /\ cbuffer' = SubSeq(cbuffer, r + 1, Len(cbuffer))
          /\ SignalProd
          /\ at' = [at EXCEPT ![p] = "copy"]
          /\ UNCHANGED <<call, len, ret>>
    /\ UNCHANGED <<prod_count, cons_count>>

ReadCopy(p) ==
    /\ at[p] = "copy"
    /\ Return(p, "opened", len[p])
    /\ UNCHANGED <<prod_count, cons_count, cbuffer, prod, cons>>

\* A write goes in whole or not at all: the loop has made room for it.
Write(p) ==
    /\ Holds(p, "write")
    /\ prod' = ProdLeft(p)
    /\ \/ /\ Capacity - Len(cbuffer) < len[p] /\ cons_count > 0
          /\ Wait(p) /\ UNCHANGED <<cbuffer, cons>>
       \/ /\ cons_count = 0
          /\ Return(p, "opened", EPIPE) /\ UNCHANGED <<cbuffer, cons>>
       \/ /\ Capacity - Len(cbuffer) >= len[p] /\ cons_count # 0
          /\ cbuffer' = cbuffer \o kbuffer[p]
          /\ SignalCons
          /\ Return(p, "opened", len[p])
    /\ UNCHANGED <<prod_count, cons_count>>

Step(p) ==
    \/ OpenRead(p) \/ OpenWrite(p) \/ Release(p)
    \/ Read(p) \/ ReadCopy(p) \/ Write(p)

Next == \E p \in Procs : Call(p) \/ Step(p)

Spec == Init /\ [][Next]_vars

Fairness == \A p \in Procs : WF_vars(Step(p))

FairSpec == Spec /\ Fairness
=============================================================================
