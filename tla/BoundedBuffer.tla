---------------------------- MODULE BoundedBuffer ----------------------------
(***************************************************************************)
(* What the producer/consumer modules (prodcons1.c, prodcons2.c) promise:  *)
(* a FIFO buffer of Capacity integers behind a /proc entry.  A write puts  *)
(* one value and a read gets one, each at a single instant between its     *)
(* call and its return; the write waits while the buffer is full, the read *)
(* while it is empty.  A call that a signal ends has not touched the       *)
(* buffer.  A read that cannot hand its value over has taken it already.   *)
(*                                                                         *)
(* A process is an open file of the entry.  A call that succeeds moves its *)
(* *off, and from then on every call on that file returns 0 at once: the   *)
(* process is "used" until it opens the entry again.                       *)
(***************************************************************************)
EXTENDS Integers, Sequences

CONSTANTS Producers, Consumers,    \* processes that write, that read
          Values,                  \* the integers they exchange
          NoValue,                 \* no integer
          Capacity                 \* MAX_ITEMS_CBUF

Procs == Producers \cup Consumers

VARIABLES buffer,    \* the values stored, oldest first
          phase,     \* what each process is doing
          item       \* the value it offers, or has got

vars == <<buffer, phase, item>>

Init ==
    /\ buffer = << >>
    /\ phase = [p \in Procs |-> "idle"]
    /\ item = [p \in Procs |-> NoValue]

Enter(p, state, v) ==
    /\ phase[p] = "idle"
    /\ phase' = [phase EXCEPT ![p] = state]
    /\ item' = [item EXCEPT ![p] = v]
    /\ UNCHANGED buffer

CallPut(p) == p \in Producers /\ \E v \in Values : Enter(p, "put", v)
CallGet(p) == p \in Consumers /\ Enter(p, "get", NoValue)

Put(p) ==
    /\ phase[p] = "put" /\ Len(buffer) < Capacity
    /\ buffer' = Append(buffer, item[p])
    /\ phase' = [phase EXCEPT ![p] = "stored"]
    /\ UNCHANGED item

Get(p) ==
    /\ phase[p] = "get" /\ buffer # << >>
    /\ buffer' = Tail(buffer)
    /\ item' = [item EXCEPT ![p] = Head(buffer)]
    /\ phase' = [phase EXCEPT ![p] = "taken"]

\* The call returns: the number of bytes, or an error that loses the value got.
Return(p) ==
    /\ \/ /\ phase[p] \in {"stored", "taken"}
          /\ phase' = [phase EXCEPT ![p] = "used"]
          /\ UNCHANGED item
       \/ /\ phase[p] = "taken"
          /\ phase' = [phase EXCEPT ![p] = "idle"]
          /\ item' = [item EXCEPT ![p] = NoValue]
    /\ UNCHANGED buffer

\* -EINTR: possible as long as the call has not touched the buffer.
GiveUp(p) ==
    /\ phase[p] \in {"put", "get"}
    /\ phase' = [phase EXCEPT ![p] = "idle"]
    /\ item' = [item EXCEPT ![p] = NoValue]
    /\ UNCHANGED buffer

Reopen(p) ==
    /\ phase[p] = "used"
    /\ phase' = [phase EXCEPT ![p] = "idle"]
    /\ item' = [item EXCEPT ![p] = NoValue]
    /\ UNCHANGED buffer

Next == \E p \in Procs :
    \/ CallPut(p) \/ CallGet(p) \/ Put(p) \/ Get(p)
    \/ Return(p) \/ GiveUp(p) \/ Reopen(p)

Spec == Init /\ [][Next]_vars

\* A wait ends once its condition stays true.
WeakFairness ==
    \A p \in Procs : WF_vars(Put(p)) /\ WF_vars(Get(p)) /\ WF_vars(Return(p))

\* A wait ends although others keep making its condition false again.
StrongFairness ==
    \A p \in Procs : SF_vars(Put(p)) /\ SF_vars(Get(p)) /\ WF_vars(Return(p))

StrongFairSpec == Spec /\ StrongFairness
=============================================================================
