------------------------- MODULE FifoPipeRefinement -------------------------
(***************************************************************************)
(* fifoproc.c implements the monitor of pseudocódigo.c as long as no wait  *)
(* is interrupted: a process is waiting from the up(&mtx) of the loop to   *)
(* the critical section in which it tests the condition again, and the     *)
(* signals nobody has used are the waiters that the counter no longer      *)
(* counts.                                                                 *)
(***************************************************************************)
EXTENDS FifoPipe

InWait(p) == pc[p] \in {"presleep", "sleep", "relock"}

\* Where the monitor sees a process of the pipe.
MonitorAt(p) ==
    IF pc[p] = "lock" THEN "enter"
    ELSE IF InWait(p) THEN "wait"
    ELSE pc[p]

at   == [p \in Procs |-> MonitorAt(p)]
cons == Cardinality({p \in Procs : InWait(p) /\ WaitsAsConsumer(p)}) - nr_cons_waiting
prod == Cardinality({p \in Procs : InWait(p) /\ WaitsAsProducer(p)}) - nr_prod_waiting

Monitor == INSTANCE FifoMonitor WITH at <- at, cons <- cons, prod <- prod

\* Every behaviour of the handlers without signals is one of the monitor's,
\* and the scheduler is fair enough for the monitor's own fairness.
ImplementsFairMonitor == Monitor!FairSpec

\* Until a wait is interrupted for the first time, every step of the handlers is
\* a step of the monitor, or none.
FollowsMonitor ==
    Monitor!Init /\ [][signals' = 0 => [Monitor!Next]_(Monitor!vars)]_vars
=============================================================================
