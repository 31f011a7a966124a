------------------------------ MODULE ModList ------------------------------
(***************************************************************************)
(* "mod1 - Modules and proc files/modlist/modlist.c": the list of integers *)
(* behind /proc/modlist, which any number of processes read and write with *)
(* no lock, on the doubly linked lists of list.h: every store to a link is *)
(* a step.  SMPModList adds the lock, ModListSeq reads it as a sequence    *)
(* file.  A node is named by the order of its allocation, and its memory is*)
(* not used again.  pc tells where a process is:                           *)
(*   idle      in no call                                                  *)
(*   first     before the loads that start a walk                          *)
(*   prev      node filled, before the load of head->prev                  *)
(*   addhead, addnode, addlink   before the stores of __list_add()         *)
(*   walk      at the loop test of remove() or cleanup()                   *)
(*   del, unlink, free           before the stores of list_del(), vfree()  *)
(*   read      at the loop test of read()                                  *)
(*   unlist    list cleaned, before remove_proc_entry()                    *)
(***************************************************************************)
EXTENDS Integers, Sequences, FiniteSets, SequencesExt

CONSTANTS Procs,             \* processes that use /proc/modlist
          Values,            \* the integers they add
          Every,             \* all of them: what cleanup() removes
          MaxNodes           \* bound on the nodes allocated

ASSUME ModListAssumption == MaxNodes \in Nat \ {0} /\ IsFiniteSet(Procs) /\ Every \notin Values

Head0 == 0                   \* mylist itself
Nodes == 1 .. MaxNodes
Links == {Head0} \cup Nodes

VARIABLES
    ring,        \* the list head and the nodes
    loaded,      \* the module is
    pc, loc,     \* where each process is, and its local variables
    overlap,     \* the worst overlap of two calls so far, as Clash numbers them
    late,        \* a node was added after the unloading had begun
    misuse       \* a link of a node that is not listed was followed

vars == <<ring, loaded, pc, loc, overlap, late, misuse>>

\* new: the node added.  prev, succ: links in registers.  pos, aux: of the walk.
\* text: the nodes read.  start: those that were listed when the read began.
NoLocals == [op |-> "none", v |-> Every, new |-> Head0, prev |-> Head0, succ |-> Head0,
             pos |-> Head0, aux |-> Head0, text |-> << >>, start |-> {}]

Unused == [state |-> "unused", data |-> Every, next |-> Head0, prev |-> Head0]

Init ==
    /\ ring = [i \in Links |-> IF i = Head0 THEN [Unused EXCEPT !.state = "live"] ELSE Unused]
    /\ loaded = TRUE
    /\ pc = [p \in Procs |-> "idle"] /\ loc = [p \in Procs |-> NoLocals]
    /\ overlap = 0 /\ late = FALSE /\ misuse = FALSE

Goto(p, place) == pc' = [pc EXCEPT ![p] = place]
Return(p) == Goto(p, "idle") /\ loc' = [loc EXCEPT ![p] = NoLocals]

\* A link of node i is read or written.
Touch(i) == misuse' = (misuse \/ ring[i].state # "live")

Live == {i \in Nodes : ring[i].state = "live"}
InCall(p) == pc[p] # "idle"

\* How badly two calls that overlap disturb one another.
Clash(a, b) == IF "read" \notin {a, b} THEN 3                \* two writers
               ELSE IF {a, b} = {"read"} THEN 0
               ELSE IF {a, b} = {"read", "add"} THEN 1 ELSE 2

\* Call of p, with its local variables.
Enter(p, place, l) ==
    LET clashes == {Clash(l.op, loc[q].op) : q \in {q \in Procs \ {p} : InCall(q)}}
    IN  /\ pc[p] = "idle" /\ loaded
        /\ Goto(p, place) /\ loc' = [loc EXCEPT ![p] = l]
        /\ overlap' = CHOOSE n \in clashes \cup {overlap} : \A c \in clashes \cup {overlap} : c <= n
        /\ UNCHANGED misuse
-----------------------------------------------------------------------------
(* add *)

Unloading == \E q \in Procs : loc[q].op = "unload"

CallAdd(p) ==
    \E i \in Nodes, v \in Values :
        /\ ring[i].state = "unused" /\ \A j \in 1 .. i - 1 : ring[j].state # "unused"
        /\ ring' = [ring EXCEPT ![i].state = "live", ![i].data = v]
        /\ Enter(p, "prev", [NoLocals EXCEPT !.op = "add", !.new = i])
        /\ late' = (late \/ Unloading)
        /\ UNCHANGED loaded

\* list_add_tail() loads head->prev, then __list_add() stores four links.
AddPrev(p) ==
    /\ pc[p] = "prev"
    /\ loc' = [loc EXCEPT ![p].prev = ring[Head0].prev]
    /\ Goto(p, "addhead")
    /\ UNCHANGED <<ring, loaded, overlap, late, misuse>>

AddHead(p) ==
    /\ pc[p] = "addhead"
    /\ ring' = [ring EXCEPT ![Head0].prev = loc[p].new]
    /\ Goto(p, "addnode")
    /\ UNCHANGED <<loaded, loc, overlap, late, misuse>>

AddNode(p) ==
    /\ pc[p] = "addnode"
    /\ Touch(loc[p].new)
    /\ ring' = [ring EXCEPT ![loc[p].new].next = Head0, ![loc[p].new].prev = loc[p].prev]
    /\ Goto(p, "addlink")
    /\ UNCHANGED <<loaded, loc, overlap, late>>

AddLink(p) ==
    /\ pc[p] = "addlink"
    /\ Touch(loc[p].prev)
    /\ ring' = [ring EXCEPT ![loc[p].prev].next = loc[p].new]
    /\ Return(p)
    /\ UNCHANGED <<loaded, overlap, late>>
-----------------------------------------------------------------------------
(* remove, cleanup, and the unloading, which is cleanup and no more calls *)

CallRemove(p) ==
    /\ \E v \in Values \cup {Every} :
        Enter(p, "first", [NoLocals EXCEPT !.op = "delete", !.v = v])
    /\ UNCHANGED <<ring, loaded, late>>

CallUnload(p) ==
    /\ ~Unloading
    /\ Enter(p, "first", [NoLocals EXCEPT !.op = "unload"])
    /\ UNCHANGED <<ring, loaded, late>>

CallRead(p) ==
    /\ Enter(p, "first", [NoLocals EXCEPT !.op = "read", !.start = Live \ {loc[q].new : q \in Procs}])
    /\ UNCHANGED <<ring, loaded, late>>

\* The walks start: pos = head->next, and for a deletion aux = pos->next.
First(p) ==
    LET i == ring[Head0].next
    IN  /\ pc[p] = "first"
        /\ loc' = [loc EXCEPT ![p].pos = i, ![p].aux = ring[i].next]
        /\ Goto(p, IF loc[p].op = "read" THEN "read" ELSE "walk")
        /\ IF loc[p].op = "read" THEN UNCHANGED misuse ELSE Touch(i)
        /\ UNCHANGED <<ring, loaded, overlap, late>>

\* list_for_each_safe(): the node that follows was loaded before.
Advanced(p) == [loc EXCEPT ![p].pos = loc[p].aux, ![p].aux = ring[loc[p].aux].next]

\* Mutant: the loop ends one node early.
OverEarly(l) == l.pos = Head0 \/ l.aux = Head0

\* The walk is back at the head.
Over(l) == l.pos = Head0

Walk(p) ==
    LET l == loc[p]
    IN  /\ pc[p] = "walk"
        /\ \/ /\ Over(l)
              /\ IF l.op = "unload" THEN Goto(p, "unlist") /\ UNCHANGED loc ELSE Return(p)
              /\ UNCHANGED misuse
           \/ /\ ~Over(l) /\ l.v \in {Every, ring[l.pos].data}
              /\ Goto(p, "del") /\ UNCHANGED loc
              /\ Touch(l.pos)
           \/ /\ ~Over(l) /\ l.v \notin {Every, ring[l.pos].data}
              /\ loc' = Advanced(p) /\ UNCHANGED pc
              /\ misuse' = (misuse \/ \E i \in {l.pos, l.aux} : ring[i].state # "live")
        /\ UNCHANGED <<ring, loaded, overlap, late>>

\* Mutant: the link back is left alone.
BackKept(r, l) == r

\* next->prev = prev
Back(r, l) == [r EXCEPT ![l.succ].prev = l.prev]

\* list_del(): both links of the node are loaded, then the neighbours linked.
Del(p) ==
    LET l == [loc[p] EXCEPT !.prev = ring[loc[p].pos].prev, !.succ = ring[loc[p].pos].next]
    IN  /\ pc[p] = "del"
        /\ misuse' = (misuse \/ \E i \in {l.pos, l.succ} : ring[i].state # "live")
        /\ ring' = Back(ring, l)
        /\ loc' = [loc EXCEPT ![p] = l]
        /\ Goto(p, "unlink")
        /\ UNCHANGED <<loaded, overlap, late>>

\* Mutant: the link forth is left alone.
ForthKept(r, l) == r

\* prev->next = next
Forth(r, l) == [r EXCEPT ![l.prev].next = l.succ]

Unlink(p) ==
    /\ pc[p] = "unlink"
    /\ Touch(loc[p].prev)
    /\ ring' = [Forth(ring, loc[p]) EXCEPT ![loc[p].pos].state = "poisoned"]
    /\ Goto(p, "free")
    /\ UNCHANGED <<loaded, loc, overlap, late>>

Free(p) ==
    /\ pc[p] = "free"
    /\ misuse' = (misuse \/ ring[loc[p].pos].state = "freed" \/ ring[loc[p].aux].state # "live")
    /\ ring' = [ring EXCEPT ![loc[p].pos] = [Unused EXCEPT !.state = "freed"]]
    /\ loc' = [loc EXCEPT ![p] = [Advanced(p)[p] EXCEPT !.prev = Head0, !.succ = Head0]]
    /\ Goto(p, "walk")
    /\ UNCHANGED <<loaded, overlap, late>>

\* remove_proc_entry() waits for the calls in progress.
Unlist(p) ==
    /\ pc[p] = "unlist" /\ \A q \in Procs \ {p} : ~InCall(q)
    /\ loaded' = FALSE
    /\ Return(p)
    /\ UNCHANGED <<ring, overlap, late, misuse>>
-----------------------------------------------------------------------------
(* read *)

\* Mutant: list_for_each_prev().
Preceding(i) == ring[i].prev

Following(i) == ring[i].next

ReadNode(p) ==
    /\ pc[p] = "read" /\ loc[p].pos # Head0
    /\ Touch(loc[p].pos)
    /\ loc' = [loc EXCEPT ![p].text = Append(@, loc[p].pos), ![p].pos = Following(@)]
    /\ UNCHANGED <<ring, loaded, pc, overlap, late>>

ReadEnd(p) ==
    /\ pc[p] = "read" /\ loc[p].pos = Head0
    /\ Return(p)
    /\ UNCHANGED <<ring, loaded, overlap, late, misuse>>
-----------------------------------------------------------------------------
AddStep(p)    == AddPrev(p) \/ AddHead(p) \/ AddNode(p) \/ AddLink(p)
DeleteStep(p) == Walk(p) \/ Del(p) \/ Unlink(p) \/ Free(p) \/ Unlist(p)
Call(p) == CallAdd(p) \/ CallRemove(p) \/ CallRead(p) \/ CallUnload(p)
Step(p) == First(p) \/ AddStep(p) \/ DeleteStep(p) \/ ReadNode(p) \/ ReadEnd(p)
Next == ~misuse /\ \E p \in Procs : Call(p) \/ Step(p)

Spec == Init /\ [][Next]_vars
-----------------------------------------------------------------------------
(* Properties. *)

TypeOK ==
    /\ \A i \in Links :
        /\ ring[i].state \in {"unused", "live", "poisoned", "freed"}
        /\ ring[i].data \in Values \cup {Every}
        /\ {ring[i].next, ring[i].prev} \subseteq Links
    /\ ring[Head0].state = "live"
    /\ \A p \in Procs :
        /\ loc[p].op \in {"none", "add", "delete", "unload", "read"}
        /\ {loc[p].new, loc[p].prev, loc[p].succ, loc[p].pos, loc[p].aux} \subseteq Links
        /\ loc[p].text \in Seq(Nodes) /\ loc[p].start \subseteq Nodes
    /\ {loaded, late, misuse} \subseteq BOOLEAN /\ overlap \in 0 .. 3

\* A link of a node that has been unlinked or freed is followed only if a deletion
\* overlaps another call, or two additions do: one that adds disturbs no read.
MemorySafe == misuse => overlap >= 2

\* The first n nodes of the list, following the links.
Path == LET step[n \in 0 .. MaxNodes] == IF n = 0 THEN ring[Head0].next ELSE ring[step[n - 1]].next
        IN  step
Listed == {i \in Nodes : \E n \in 0 .. MaxNodes : Path[n] = i /\ \A m \in 0 .. n : Path[m] # Head0}

\* As long as no two writers have overlapped, the ring is whole when none is at
\* work: all nodes that were not freed, in the order in which they were added,
\* and the links back match those forth.
Writing == \E p \in Procs : loc[p].op \in {"add", "delete", "unload"} /\ pc[p] \notin {"first", "unlist"}
RingIntact ==
    overlap < 3 /\ ~Writing =>
        /\ Listed = Live
        /\ \A i \in Live : ring[i].next = Head0 \/ ring[i].next > i
        /\ \A i \in Live \cup {Head0} : ring[ring[i].next].prev = i

\* A read() that no deletion overlaps returns the nodes in order, every one that
\* was listed when it was called, and nothing twice.
ReadsConsistent ==
    \A p \in Procs : pc[p] = "read" /\ loc[p].pos = Head0 /\ overlap < 2 =>
        /\ \A i \in 1 .. Len(loc[p].text) - 1 : loc[p].text[i] < loc[p].text[i + 1]
        /\ Range(loc[p].text) \subseteq Live
        /\ loc[p].start \subseteq Range(loc[p].text)

\* Once the module is unloaded no node is left, unless one was added meanwhile.
UnloadFreesAll == ~loaded => late \/ overlap = 3 \/ Live = {}
=============================================================================
