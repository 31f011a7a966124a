----------------------------- MODULE ListsProofs -----------------------------
(***************************************************************************)
(* Theorems about ModList, SMPModList and ModListSeq: for any processes,   *)
(* any integers and any number of nodes, what the list of modlist.c is     *)
(* worth without a lock, as long as not too much overlaps, what its        *)
(* listings by modlist2.c are, and what SMPmodlist.c keeps with a lock,    *)
(* whatever overlaps.                                                      *)
(*                                                                         *)
(* Both rest on the same argument: there is a sequence s of distinct nodes *)
(* that the links forth follow (ForthOK), and each point of add() and      *)
(* list_del() says which links back it has not yet made to match (Phase).  *)
(* A step of a writer that has the list to itself makes s a sequence t     *)
(* (Changed); this is proved once, and used for the one writer of a list   *)
(* without a lock and for the one that holds the spin lock.                *)
(*                                                                         *)
(* That SMPmodlist.c is a list that changes at once follows s through each *)
(* call (Told): what a read has of it, and what a removal has left behind. *)
(*                                                                         *)
(* That the listings of modlist2.c are complete follows numElems through   *)
(* each addition and removal (CountInv), and the lines of each listing     *)
(* through its reads (Lines).                                              *)
(***************************************************************************)
EXTENDS MCLists, SequenceTheorems, FiniteSetTheorems, WellFoundedInduction, TLAPS

USE ModListAssumption

-----------------------------------------------------------------------------
(* Types. *)

Ops == {"none", "add", "delete", "unload", "read"}
Adding   == {"prev", "addhead", "addnode", "addlink"}
Deleting == {"walk", "del", "unlink", "free"}
Listing  == {"start", "show", "next", "pause", "end"}
PCs == {"idle", "first", "read", "unlist"} \cup Adding \cup Deleting \cup Listing
States == {"unused", "live", "poisoned", "freed"}

NodeRecs == [state : States, data : Values \cup {Every}, next : Links, prev : Links]
Locals == [op : Ops, v : Values \cup {Every}, new : Links, prev : Links, succ : Links,
           pos : Links, aux : Links, text : Seq(Nodes), start : SUBSET Nodes]

Types ==
    /\ ring \in [Links -> NodeRecs] /\ ring[Head0].state = "live"
    /\ pc \in [Procs -> PCs] /\ loc \in [Procs -> Locals]
    /\ loaded \in BOOLEAN /\ late \in BOOLEAN /\ misuse \in BOOLEAN
    /\ overlap \in 0 .. 3

\* Which operation a process may be in at each point, and with which locals.
InPlace(p) ==
    /\ pc[p] = "idle" <=> loc[p].op = "none"
    /\ pc[p] \in Adding <=> loc[p].op = "add"
    /\ pc[p] = "first" => loc[p].op \in {"delete", "unload", "read"}
    /\ pc[p] \in Deleting => loc[p].op \in {"delete", "unload"}
    /\ pc[p] = "unlist" => loc[p].op = "unload"
    /\ pc[p] \in {"read"} \cup Listing => loc[p].op = "read"
    /\ loc[p].new # Head0 <=> loc[p].op = "add"
    /\ loc[p].op = "unload" => loc[p].v = Every
    /\ pc[p] \in {"del", "unlink", "free"} => loc[p].pos # Head0

\* Who adds has a node that was allocated for it alone.
OwnNode ==
    \A p \in Procs : loc[p].op = "add" =>
        /\ ring[loc[p].new].state # "unused"
        /\ \A q \in Procs : q # p => loc[q].new # loc[p].new

Control == OwnNode /\ \A p \in Procs : InPlace(p)
-----------------------------------------------------------------------------
(* The ring and its order. *)

\* The i-th node of s; the list head is before the first and after the last.
At(s, i) == IF i \in 1 .. Len(s) THEN s[i] ELSE Head0

Drop(s, k) == [i \in 1 .. Len(s) - 1 |-> IF i < k THEN s[i] ELSE s[i + 1]]

Sequential(s) == s \in Seq(Nodes) /\ \A i, j \in 1 .. Len(s) : s[i] = s[j] => i = j

ForthOK(s) == \A i \in 0 .. Len(s) : ring[At(s, i)].next = At(s, i + 1)
BackOK(s)  == \A i \in 1 .. Len(s) + 1 : ring[At(s, i)].prev = At(s, i - 1)

\* The walk of p is at the k-th node, and has loaded the one that follows.
WalkAt(p, s, k) ==
    /\ k \in 1 .. Len(s) + 1
    /\ loc[p].pos = At(s, k) /\ (k <= Len(s) => loc[p].aux = At(s, k + 1))
    /\ loc[p].v = Every => k = 1

\* The list is s, and p may be in the middle of a change to it.
Phase(p, s) ==
    LET l == loc[p]
    IN  /\ ForthOK(s)
        /\ pc[p] \notin {"addnode", "addlink", "unlink"} => BackOK(s)
        /\ pc[p] \in {"addhead", "addnode", "addlink"} => l.prev = At(s, Len(s))
        /\ pc[p] = "addnode" =>
            /\ \A i \in 1 .. Len(s) : ring[At(s, i)].prev = At(s, i - 1)
            /\ ring[Head0].prev = l.new
        /\ pc[p] = "addlink" => BackOK(Append(s, l.new)) /\ ring[l.new].next = Head0
        /\ pc[p] \in {"walk", "del"} => \E k \in 1 .. Len(s) + 1 : WalkAt(p, s, k)
        /\ pc[p] = "unlink" =>
            \E k \in 1 .. Len(s) :
                /\ WalkAt(p, s, k) /\ BackOK(Drop(s, k))
                /\ l.prev = At(s, k - 1) /\ l.succ = At(s, k + 1)
        /\ pc[p] = "free" =>
            /\ \E k \in 1 .. Len(s) + 1 : l.aux = At(s, k) /\ (l.v = Every => k = 1)
            /\ ring[l.pos].state = "poisoned"

\* The list holds the nodes that are live, but for those still to be linked.
Pending == {loc[q].new : q \in Procs}
Lists(s) ==
    /\ Sequential(s) /\ Range(s) = Live \ Pending
    /\ \A q \in Procs : loc[q].op = "add" => loc[q].new \in Live
Writer(p) == loc[p].op \in {"add", "delete", "unload"}

\* What a writer has to itself: the list, and the node it adds, not yet listed.
Holding(p, s) ==
    /\ Sequential(s) /\ Range(s) \subseteq Live /\ Phase(p, s)
    /\ loc[p].op = "add" => loc[p].new \in Live \ Range(s)

-----------------------------------------------------------------------------
(* Without a lock. *)

Clashes ==
    \A p, q \in Procs : p # q /\ InCall(p) /\ InCall(q) => Clash(loc[p].op, loc[q].op) <= overlap

\* Nodes are allocated in order, and listed in that order.
InOrder(s) ==
    /\ \A i, j \in Nodes : i < j /\ ring[i].state = "unused" => ring[j].state = "unused"
    /\ \A i, j \in 1 .. Len(s) : i < j => s[i] < s[j]
    /\ \A q \in Procs : loc[q].op = "add" => \A i \in 1 .. Len(s) : s[i] < loc[q].new

\* What a read has of the list, as long as it met no deletion.
HasSeen(p, s) ==
    LET l == loc[p]
    IN  /\ l.start \subseteq Range(s)
        /\ \A i, j \in 1 .. Len(l.text) : i < j => l.text[i] < l.text[j]
        /\ Range(l.text) \subseteq Range(s)
        /\ pc[p] = "first" => l.text = << >>
        /\ pc[p] = "read" /\ l.pos # Head0 =>
            /\ \A i \in 1 .. Len(l.text) : l.text[i] < l.pos
            /\ \A k \in l.start : k \in Range(l.text) \/ k >= l.pos
        /\ pc[p] = "read" /\ l.pos = Head0 => l.start \subseteq Range(l.text)

\* A read is on the list, and one of modlist.c has seen what is before it.
Seen(p, s) ==
    LET l == loc[p]
    IN  /\ l.pos \in Range(s) \cup {Head0}
        /\ pc[p] \notin Listing => HasSeen(p, s)

UnloadInv ==
    /\ \A p \in Procs : pc[p] = "unlist" => Live = {}
    /\ ~loaded => Live = {} /\ \A p \in Procs : ~InCall(p)

ListIs(s) ==
    /\ Lists(s) /\ InOrder(s) /\ ForthOK(s)
    /\ \A p \in Procs : Writer(p) => Phase(p, s)
    /\ (\A p \in Procs : ~Writer(p)) => BackOK(s)
    /\ overlap < 2 => \A p \in Procs : loc[p].op = "read" => Seen(p, s)

ListInv ==
    /\ overlap < 3 => UnloadInv /\ \E s \in Seq(Nodes) : ListIs(s)
    /\ overlap < 2 => ~misuse

IInv == Types /\ Control /\ Clashes /\ ListInv

-----------------------------------------------------------------------------
(* Sequences of nodes. *)

LEMMA AtFacts ==
    ASSUME NEW s \in Seq(Nodes)
    PROVE  /\ Len(s) \in Nat
           /\ \A i \in 1 .. Len(s) : At(s, i) = s[i] /\ At(s, i) \in Nodes /\ At(s, i) # Head0
           /\ \A i : i \notin 1 .. Len(s) => At(s, i) = Head0
           /\ \A i : At(s, i) \in Links
           /\ \A x : x \in Range(s) <=> \E i \in 1 .. Len(s) : At(s, i) = x
           /\ Range(s) \subseteq Nodes
<1>1. Len(s) \in Nat /\ DOMAIN s = 1 .. Len(s) /\ \A i \in 1 .. Len(s) : s[i] \in Nodes OBVIOUS
<1>2. Head0 \notin Nodes BY DEF Head0, Nodes
<1>3. \A i : i \in 1 .. Len(s) => At(s, i) = s[i] BY DEF At
<1>4. \A i : i \notin 1 .. Len(s) => At(s, i) = Head0 BY DEF At
<1>5. \A x : x \in Range(s) <=> \E i \in 1 .. Len(s) : At(s, i) = x BY <1>1, <1>3 DEF Range
<1> QED BY <1>1, <1>2, <1>3, <1>4, <1>5 DEF Links

LEMMA AtAppend ==
    ASSUME NEW s \in Seq(Nodes), NEW n \in Nodes
    PROVE  /\ Append(s, n) \in Seq(Nodes) /\ Len(Append(s, n)) = Len(s) + 1
           /\ \A i \in 0 .. Len(s) : At(Append(s, n), i) = At(s, i)
           /\ At(Append(s, n), Len(s) + 1) = n /\ At(Append(s, n), Len(s) + 2) = Head0
           /\ Range(Append(s, n)) = Range(s) \cup {n}
<1> DEFINE t == Append(s, n)
<1>1. /\ t \in Seq(Nodes) /\ Len(t) = Len(s) + 1 /\ Len(s) \in Nat
      /\ \A i \in 1 .. Len(s) : t[i] = s[i]
      /\ t[Len(s) + 1] = n
  OBVIOUS
<1> HIDE DEF t
<1>2. \A i \in 0 .. Len(s) : At(t, i) = At(s, i) BY <1>1 DEF At
<1>3. At(t, Len(s) + 1) = n /\ At(t, Len(s) + 2) = Head0 BY <1>1 DEF At
<1>4. Range(t) = Range(s) \cup {n}
  <2>1. \A x : x \in Range(t) <=> \E i \in 1 .. Len(s) + 1 : At(t, i) = x
    BY <1>1, AtFacts
  <2>2. \A x : x \in Range(s) <=> \E i \in 1 .. Len(s) : At(s, i) = x BY AtFacts
  <2> QED BY <1>1, <1>2, <1>3, <2>1, <2>2
<1> QED BY <1>1, <1>2, <1>3, <1>4 DEF t

LEMMA AtDrop ==
    ASSUME NEW s, Sequential(s), NEW k \in 1 .. Len(s)
    PROVE  /\ Sequential(Drop(s, k)) /\ Len(Drop(s, k)) = Len(s) - 1
           /\ \A i \in 0 .. k - 1 : At(Drop(s, k), i) = At(s, i)
           /\ \A i \in k .. Len(s) : At(Drop(s, k), i) = At(s, i + 1)
           /\ Range(Drop(s, k)) = Range(s) \ {At(s, k)}
<1> DEFINE t == Drop(s, k)
<1>1. s \in Seq(Nodes) /\ Len(s) \in Nat /\ \A i, j \in 1 .. Len(s) : s[i] = s[j] => i = j
  BY DEF Sequential
<1>2. \A i \in 1 .. Len(s) - 1 : t[i] = IF i < k THEN s[i] ELSE s[i + 1] BY DEF Drop
<1>3. \A i \in 1 .. Len(s) - 1 : t[i] \in Nodes BY <1>1, <1>2
<1>4. t \in [1 .. Len(s) - 1 -> Nodes] BY <1>3 DEF Drop
<1>5. t \in Seq(Nodes) /\ Len(t) = Len(s) - 1
  <2>1. Len(s) - 1 \in Nat BY <1>1
  <2> HIDE DEF t
  <2> QED BY <1>4, <2>1, IsASeq, LenProperties
<1> HIDE DEF t
<1>6. \A i, j \in 1 .. Len(t) : t[i] = t[j] => i = j BY <1>1, <1>2, <1>5
<1>7. \A i \in 0 .. k - 1 : At(t, i) = At(s, i) BY <1>1, <1>2, <1>5 DEF At
<1>8. \A i \in k .. Len(s) : At(t, i) = At(s, i + 1) BY <1>1, <1>2, <1>5 DEF At
<1>9. Range(t) = Range(s) \ {At(s, k)}
  <2>1. \A x : x \in Range(t) <=> \E i \in 1 .. Len(s) - 1 : At(t, i) = x BY <1>5, AtFacts
  <2>2. \A x : x \in Range(s) <=> \E i \in 1 .. Len(s) : At(s, i) = x BY <1>1, AtFacts
  <2>3. \A i \in 1 .. Len(s) : At(s, i) = At(s, k) => i = k BY <1>1 DEF At
  <2>4. ASSUME NEW x, x \in Range(t) PROVE x \in Range(s) \ {At(s, k)}
    <3>1. PICK i \in 1 .. Len(s) - 1 : At(t, i) = x BY <2>1, <2>4
    <3>2. CASE i < k BY <1>1, <1>7, <2>2, <2>3, <3>1, <3>2
    <3>3. CASE i >= k
      <4>1. i + 1 \in 1 .. Len(s) /\ At(s, i + 1) = x /\ i + 1 # k BY <1>1, <1>8, <3>1, <3>3
      <4> QED BY <2>2, <2>3, <4>1
    <3> QED BY <3>2, <3>3
  <2>5. ASSUME NEW x, x \in Range(s), x # At(s, k) PROVE x \in Range(t)
    <3>1. PICK i \in 1 .. Len(s) : At(s, i) = x BY <2>2, <2>5
    <3>2. CASE i < k
      <4>1. i \in 1 .. Len(s) - 1 /\ At(t, i) = x BY <1>1, <1>7, <3>1, <3>2
      <4> QED BY <2>1, <4>1
    <3>3. CASE i > k
      <4>1. i - 1 \in k .. Len(s) /\ i - 1 \in 1 .. Len(s) - 1 /\ (i - 1) + 1 = i BY <1>1, <3>3
      <4>2. At(t, i - 1) = x BY <1>8, <3>1, <4>1
      <4> QED BY <2>1, <4>1, <4>2
    <3>4. i # k BY <2>5, <3>1
    <3> QED BY <3>2, <3>3, <3>4
  <2> QED BY <2>4, <2>5
<1> QED BY <1>5, <1>6, <1>7, <1>8, <1>9 DEF t, Sequential

-----------------------------------------------------------------------------
(* Types, and where each process is. *)

\* A step of p leaves the others where they are.
Frame(p) == \A q \in Procs : q # p => pc'[q] = pc[q] /\ loc'[q] = loc[q]

LEMMA NoLocalsType == NoLocals \in Locals /\ Unused \in NodeRecs
<1>1. << >> \in Seq(Nodes) BY EmptySeq
<1> QED BY <1>1 DEF NoLocals, Locals, Ops, Links, Unused, NodeRecs, States

\* A change to one process, typed once for all the actions.
LEMMA FrameType ==
    ASSUME Types, NEW p \in Procs, NEW place \in PCs, NEW l \in Locals,
           pc' = [pc EXCEPT ![p] = place], loc' = [loc EXCEPT ![p] = l]
    PROVE  /\ pc' \in [Procs -> PCs] /\ loc' \in [Procs -> Locals]
           /\ pc'[p] = place /\ loc'[p] = l /\ Frame(p)
BY DEF Types, Frame

\* What overlap is after a call of p began or went on.
LEMMA WorstClash ==
    ASSUME Types, NEW p \in Procs, NEW op,
           overlap' = LET clashes == {Clash(op, loc[q].op) : q \in {q \in Procs \ {p} : InCall(q)}}
                      IN  CHOOSE n \in clashes \cup {overlap} : \A c \in clashes \cup {overlap} : c <= n
    PROVE  /\ overlap' \in 0 .. 3 /\ overlap <= overlap'
           /\ \A q \in Procs \ {p} : InCall(q) => Clash(op, loc[q].op) <= overlap'
<1> DEFINE all == {Clash(op, loc[q].op) : q \in {q \in Procs \ {p} : InCall(q)}} \cup {overlap}
<1>1. overlap' = CHOOSE n \in all : \A c \in all : c <= n OBVIOUS
<1>2. \A c \in all : c \in {0, 1, 2, 3} BY DEF Types, Clash
<1>3. overlap \in all OBVIOUS
<1>4. \E n \in all : \A c \in all : c <= n
  <2> HIDE DEF all
  <2>1. CASE 3 \in all BY <1>2, <2>1
  <2>2. CASE 3 \notin all /\ 2 \in all BY <1>2, <2>2
  <2>3. CASE 3 \notin all /\ 2 \notin all /\ 1 \in all BY <1>2, <2>3
  <2>4. CASE 3 \notin all /\ 2 \notin all /\ 1 \notin all BY <1>2, <1>3, <2>4
  <2> QED BY <2>1, <2>2, <2>3, <2>4
<1>5. overlap' \in all /\ \A c \in all : c <= overlap'
  <2> HIDE DEF all
  <2> QED BY <1>1, <1>4
<1>6. overlap' \in 0 .. 3
  <2> HIDE DEF all
  <2> QED BY <1>2, <1>5
<1>7. \A q \in Procs \ {p} : InCall(q) => Clash(op, loc[q].op) \in all OBVIOUS
<1> HIDE DEF all
<1> QED BY <1>3, <1>5, <1>6, <1>7

\* What a call finds when it begins.
LEMMA EnterFacts ==
    ASSUME Types, NEW p \in Procs, NEW place \in PCs, NEW l \in Locals, Enter(p, place, l)
    PROVE  /\ pc' \in [Procs -> PCs] /\ loc' \in [Procs -> Locals]
           /\ pc[p] = "idle" /\ loaded /\ pc'[p] = place /\ loc'[p] = l /\ Frame(p)
           /\ overlap' \in 0 .. 3 /\ overlap <= overlap'
           /\ \A q \in Procs \ {p} : InCall(q) => Clash(l.op, loc[q].op) <= overlap'
           /\ misuse' = misuse
<1>1. /\ pc[p] = "idle" /\ loaded /\ pc' = [pc EXCEPT ![p] = place]
      /\ loc' = [loc EXCEPT ![p] = l] /\ misuse' = misuse
  BY DEF Enter, Goto
<1>2. /\ overlap' \in 0 .. 3 /\ overlap <= overlap'
      /\ \A q \in Procs \ {p} : InCall(q) => Clash(l.op, loc[q].op) <= overlap'
  BY WorstClash DEF Enter
<1> QED BY <1>1, <1>2, FrameType

\* The locals a call begins with.
LEMMA CallTypes ==
    /\ \A i \in Nodes : [NoLocals EXCEPT !.op = "add", !.new = i] \in Locals
    /\ \A v \in Values \cup {Every} : [NoLocals EXCEPT !.op = "delete", !.v = v] \in Locals
    /\ [NoLocals EXCEPT !.op = "unload"] \in Locals
    /\ \A S \in SUBSET Nodes : [NoLocals EXCEPT !.op = "read", !.start = S] \in Locals
<1> DEFINE l == NoLocals
<1>1. l \in Locals BY NoLocalsType
<1> HIDE DEF l
<1>2. \A i \in Nodes : [l EXCEPT !.op = "add", !.new = i] \in Locals BY <1>1 DEF Locals, Ops, Links
<1>3. \A v \in Values \cup {Every} : [l EXCEPT !.op = "delete", !.v = v] \in Locals
  BY <1>1 DEF Locals, Ops
<1>4. [l EXCEPT !.op = "unload"] \in Locals BY <1>1 DEF Locals, Ops
<1>5. \A S \in SUBSET Nodes : [l EXCEPT !.op = "read", !.start = S] \in Locals
  BY <1>1 DEF Locals, Ops
<1> QED BY <1>2, <1>3, <1>4, <1>5 DEF l

\* What one step does to a process and to the nodes, whatever the others do.
Stepped(p) ==
    /\ Types' /\ Frame(p) /\ (InPlace(p))'
    /\ \/ loc'[p].new \in {loc[p].new, Head0}
       \/ ring[loc'[p].new].state = "unused" /\ ring'[loc'[p].new].state = "live"
    /\ \A i \in Links : ring[i].state # "unused" => ring'[i].state # "unused"

LEMMA CallStepped ==
    ASSUME Types, NEW p \in Procs, InPlace(p), Call(p)
    PROVE  Stepped(p)
<1>1. CASE CallAdd(p)
  <2>1. PICK i \in Nodes, v \in Values :
          /\ ring[i].state = "unused" /\ ring' = [ring EXCEPT ![i].state = "live", ![i].data = v]
          /\ Enter(p, "prev", [NoLocals EXCEPT !.op = "add", !.new = i])
          /\ late' = (late \/ Unloading) /\ loaded' = loaded
    BY <1>1 DEF CallAdd
  <2> DEFINE l == [NoLocals EXCEPT !.op = "add", !.new = i]
  <2>2. l \in Locals BY CallTypes
  <2>3. l.op = "add" /\ l.new = i /\ i # Head0 BY DEF NoLocals, Head0, Nodes
  <2> HIDE DEF l
  <2>4. "prev" \in PCs BY DEF PCs, Adding
  <2>5. /\ pc' \in [Procs -> PCs] /\ loc' \in [Procs -> Locals]
        /\ pc[p] = "idle" /\ pc'[p] = "prev" /\ loc'[p] = l /\ Frame(p)
        /\ overlap' \in 0 .. 3 /\ misuse' = misuse
    BY <2>1, <2>2, <2>4, EnterFacts DEF l
  <2>6. i \in Links /\ i # Head0 /\ v \in Values \cup {Every} BY <2>1, <2>3 DEF Links
  <2>7. /\ ring' \in [Links -> NodeRecs] /\ ring'[Head0].state = "live" /\ ring'[i].state = "live"
        /\ \A j \in Links : j # i => ring'[j] = ring[j]
    <3>1. ring \in [Links -> NodeRecs] /\ ring[Head0].state = "live" BY DEF Types
    <3>2. ring' = [ring EXCEPT ![i] = [ring[i] EXCEPT !.state = "live", !.data = v]]
      BY <2>1
    <3> DEFINE n == ring[i]
    <3>3. n \in NodeRecs BY <2>6, <3>1
    <3> HIDE DEF n
    <3>4. [n EXCEPT !.state = "live", !.data = v] \in NodeRecs
      BY <2>6, <3>3 DEF NodeRecs, States
    <3>5. [n EXCEPT !.state = "live", !.data = v].state = "live" BY <3>3 DEF NodeRecs
    <3> QED BY <2>6, <3>1, <3>2, <3>4, <3>5 DEF n, Links
  <2>8. late' \in BOOLEAN BY <2>1 DEF Types
  <2>9. Types' BY <2>1, <2>5, <2>7, <2>8 DEF Types
  <2>10. (InPlace(p))' BY <2>3, <2>5 DEF InPlace, Adding, Deleting, Listing
  <2>11. ring[loc'[p].new].state = "unused" /\ ring'[loc'[p].new].state = "live"
    BY <2>1, <2>3, <2>5, <2>7
  <2>12. \A j \in Links : ring[j].state # "unused" => ring'[j].state # "unused" BY <2>7
  <2> QED BY <2>5, <2>9, <2>10, <2>11, <2>12 DEF Stepped
<1>2. CASE CallRemove(p) \/ CallRead(p) \/ CallUnload(p)
  <2>1. PICK l \in Locals : /\ Enter(p, "first", l) /\ l.op \in {"delete", "unload", "read"}
                            /\ l.new = Head0 /\ (l.op = "unload" => l.v = Every)
    <3>1. CASE CallRemove(p)
      <4>1. PICK v \in Values \cup {Every} :
               Enter(p, "first", [NoLocals EXCEPT !.op = "delete", !.v = v])
        BY <3>1 DEF CallRemove
      <4> QED BY <4>1, CallTypes DEF NoLocals
    <3>2. CASE CallRead(p)
      <4>1. Enter(p, "first",
                [NoLocals EXCEPT !.op = "read", !.start = Live \ {loc[q].new : q \in Procs}])
        BY <3>2 DEF CallRead
      <4>2. Live \ {loc[q].new : q \in Procs} \in SUBSET Nodes BY DEF Live
      <4> QED BY <4>1, <4>2, CallTypes DEF NoLocals
    <3>3. CASE CallUnload(p)
      <4>1. Enter(p, "first", [NoLocals EXCEPT !.op = "unload"]) BY <3>3 DEF CallUnload
      <4> QED BY <4>1, CallTypes DEF NoLocals
    <3> QED BY <1>2, <3>1, <3>2, <3>3
  <2>2. UNCHANGED <<ring, loaded, late>> BY <1>2 DEF CallRemove, CallRead, CallUnload
  <2>3. "first" \in PCs BY DEF PCs
  <2>4. /\ pc' \in [Procs -> PCs] /\ loc' \in [Procs -> Locals]
        /\ pc[p] = "idle" /\ pc'[p] = "first" /\ loc'[p] = l /\ Frame(p)
        /\ overlap' \in 0 .. 3 /\ misuse' = misuse
    BY <2>1, <2>3, EnterFacts
  <2>5. Types' BY <2>2, <2>4 DEF Types
  <2>6. (InPlace(p))' BY <2>1, <2>4 DEF InPlace, Adding, Deleting, Listing
  <2> QED BY <2>1, <2>2, <2>4, <2>5, <2>6 DEF Stepped
<1> QED BY <1>1, <1>2 DEF Call

-----------------------------------------------------------------------------
(* What each step does. *)

\* A step of p that allocates nothing.
Stepping(p) ==
    /\ Types' /\ Frame(p) /\ (InPlace(p))' /\ overlap' = overlap
    /\ loc'[p].op \in {loc[p].op, "none"}
    /\ loc'[p].new \in {loc[p].new, Head0}
    /\ \A i \in Links : ring[i].state # "unused" => ring'[i].state # "unused"

\* A store to node i.
Stored(i, n) == ring'[i] = n /\ \A j \in Links : j # i => ring'[j] = ring[j]

LEMMA StoreType ==
    ASSUME Types, NEW i \in Links, NEW n \in NodeRecs, i = Head0 => n.state = "live",
           ring' = [ring EXCEPT ![i] = n]
    PROVE  ring' \in [Links -> NodeRecs] /\ ring'[Head0].state = "live" /\ Stored(i, n)
BY DEF Types, Stored, Links

LEMMA EffectType ==
    ASSUME Types, NEW p \in Procs, NEW place \in PCs, NEW l \in Locals,
           pc' = [pc EXCEPT ![p] = place], loc' = [loc EXCEPT ![p] = l],
           ring' \in [Links -> NodeRecs], ring'[Head0].state = "live",
           loaded' \in BOOLEAN, late' = late, misuse' \in BOOLEAN, overlap' = overlap
    PROVE  Types' /\ Frame(p) /\ pc'[p] = place /\ loc'[p] = l
<1>1. /\ pc' \in [Procs -> PCs] /\ loc' \in [Procs -> Locals]
      /\ pc'[p] = place /\ loc'[p] = l /\ Frame(p)
  BY FrameType
<1> QED BY <1>1 DEF Types

\* The locals of a process, and the links of a node, are of their types.
LEMMA TypeFacts ==
    ASSUME Types, NEW p \in Procs
    PROVE  /\ loc[p] \in Locals /\ pc[p] \in PCs
           /\ {loc[p].new, loc[p].prev, loc[p].succ, loc[p].pos, loc[p].aux} \subseteq Links
           /\ \A i \in Links : ring[i] \in NodeRecs /\ {ring[i].next, ring[i].prev} \subseteq Links
           /\ Head0 \in Links /\ ring[Head0].state = "live"
<1>1. loc[p] \in Locals /\ pc[p] \in PCs BY DEF Types
<1>2. \A i \in Links : ring[i] \in NodeRecs BY DEF Types
<1> QED BY <1>1, <1>2 DEF Types, Locals, NodeRecs, Links

LEMMA ReturnEffect ==
    ASSUME Types, NEW p \in Procs, Return(p), ring' = ring, loaded' \in BOOLEAN,
           UNCHANGED <<overlap, late, misuse>>
    PROVE  Stepping(p) /\ pc'[p] = "idle" /\ loc'[p] = NoLocals
<1>1. "idle" \in PCs BY DEF PCs
<1>2. Types' /\ Frame(p) /\ pc'[p] = "idle" /\ loc'[p] = NoLocals
  <2>1. pc' = [pc EXCEPT ![p] = "idle"] /\ loc' = [loc EXCEPT ![p] = NoLocals]
    BY DEF Return, Goto
  <2>2. misuse' \in BOOLEAN BY DEF Types
  <2>3. ring' \in [Links -> NodeRecs] /\ ring'[Head0].state = "live" BY DEF Types
  <2> QED BY <1>1, <2>1, <2>2, <2>3, NoLocalsType, EffectType
<1>3. (InPlace(p))' BY <1>2 DEF InPlace, NoLocals, Adding, Deleting, Listing
<1> QED BY <1>2, <1>3 DEF Stepping, NoLocals

LEMMA FirstEffect ==
    ASSUME Types, NEW p \in Procs, InPlace(p), First(p)
    PROVE  /\ Stepping(p) /\ ring' = ring /\ loaded' = loaded
           /\ pc[p] = "first" /\ pc'[p] = IF loc[p].op = "read" THEN "read" ELSE "walk"
           /\ loc'[p] = [loc[p] EXCEPT !.pos = ring[Head0].next, !.aux = ring[ring[Head0].next].next]
           /\ (loc[p].op = "read" /\ misuse' = misuse)
                \/ misuse' = (misuse \/ ring[ring[Head0].next].state # "live")
<1> DEFINE l == [loc[p] EXCEPT !.pos = ring[Head0].next, !.aux = ring[ring[Head0].next].next]
           place == IF loc[p].op = "read" THEN "read" ELSE "walk"
<1>1. /\ pc[p] = "first" /\ pc' = [pc EXCEPT ![p] = place] /\ loc' = [loc EXCEPT ![p] = l]
      /\ UNCHANGED <<ring, loaded, overlap, late>>
  BY DEF First, Goto
<1>2. l \in Locals
  <2>1. loc[p] \in Locals /\ ring[Head0].next \in Links /\ ring[ring[Head0].next].next \in Links
    BY TypeFacts
  <2> QED BY <2>1 DEF Locals
<1>3. place \in PCs BY DEF PCs, Deleting
<1>4. (loc[p].op = "read" /\ misuse' = misuse)
        \/ misuse' = (misuse \/ ring[ring[Head0].next].state # "live")
  BY DEF First, Touch
<1>5. misuse' \in BOOLEAN BY <1>4, Zenon DEF Types
<1>6. l.op = loc[p].op /\ l.new = loc[p].new /\ l.v = loc[p].v BY TypeFacts DEF Locals
<1> HIDE DEF l
<1>7. Types' /\ Frame(p) /\ pc'[p] = place /\ loc'[p] = l
  <2>1. ring' \in [Links -> NodeRecs] /\ ring'[Head0].state = "live" /\ loaded' \in BOOLEAN
    BY <1>1 DEF Types
  <2> QED BY <1>1, <1>2, <1>3, <1>5, <2>1, EffectType
<1>8. (InPlace(p))' BY <1>1, <1>6, <1>7 DEF InPlace, Adding, Deleting, Listing
<1> QED BY <1>1, <1>4, <1>6, <1>7, <1>8 DEF Stepping, l

LEMMA AddPrevEffect ==
    ASSUME Types, NEW p \in Procs, InPlace(p), AddPrev(p)
    PROVE  /\ Stepping(p) /\ ring' = ring /\ loaded' = loaded /\ misuse' = misuse
           /\ pc[p] = "prev" /\ pc'[p] = "addhead"
           /\ loc'[p] = [loc[p] EXCEPT !.prev = ring[Head0].prev]
<1> DEFINE l == [loc[p] EXCEPT !.prev = ring[Head0].prev]
<1>1. /\ pc[p] = "prev" /\ pc' = [pc EXCEPT ![p] = "addhead"] /\ loc' = [loc EXCEPT ![p] = l]
      /\ UNCHANGED <<ring, loaded, overlap, late, misuse>>
  BY DEF AddPrev, Goto
<1>2. l \in Locals BY TypeFacts DEF Locals
<1>3. "addhead" \in PCs BY DEF PCs, Adding
<1>4. l.op = loc[p].op /\ l.new = loc[p].new /\ l.v = loc[p].v BY TypeFacts DEF Locals
<1> HIDE DEF l
<1>5. Types' /\ Frame(p) /\ pc'[p] = "addhead" /\ loc'[p] = l
  <2>1. /\ ring' \in [Links -> NodeRecs] /\ ring'[Head0].state = "live" /\ loaded' \in BOOLEAN
        /\ misuse' \in BOOLEAN
    BY <1>1 DEF Types
  <2> QED BY <1>1, <1>2, <1>3, <2>1, EffectType
<1>6. (InPlace(p))' BY <1>1, <1>4, <1>5 DEF InPlace, Adding, Deleting, Listing
<1> QED BY <1>1, <1>4, <1>5, <1>6 DEF Stepping, l

LEMMA AddHeadEffect ==
    ASSUME Types, NEW p \in Procs, InPlace(p), AddHead(p)
    PROVE  /\ Stepping(p) /\ loaded' = loaded /\ misuse' = misuse
           /\ pc[p] = "addhead" /\ pc'[p] = "addnode" /\ loc'[p] = loc[p]
           /\ Stored(Head0, [ring[Head0] EXCEPT !.prev = loc[p].new])
<1> DEFINE n == [ring[Head0] EXCEPT !.prev = loc[p].new]
<1>1. /\ pc[p] = "addhead" /\ pc' = [pc EXCEPT ![p] = "addnode"] /\ loc' = loc
      /\ ring' = [ring EXCEPT ![Head0] = n]
      /\ UNCHANGED <<loaded, overlap, late, misuse>>
  BY DEF AddHead, Goto
<1>2. n \in NodeRecs /\ n.state = "live" BY TypeFacts DEF NodeRecs
<1>3. "addnode" \in PCs BY DEF PCs, Adding
<1> HIDE DEF n
<1>4. ring' \in [Links -> NodeRecs] /\ ring'[Head0].state = "live" /\ Stored(Head0, n)
  BY <1>1, <1>2, StoreType, TypeFacts
<1>5. Types' /\ Frame(p) /\ pc'[p] = "addnode" /\ loc'[p] = loc[p]
  <2>1. loaded' \in BOOLEAN /\ misuse' \in BOOLEAN /\ loc' = [loc EXCEPT ![p] = loc[p]]
    BY <1>1 DEF Types
  <2>2. loc[p] \in Locals BY TypeFacts
  <2> QED BY <1>1, <1>3, <1>4, <2>1, <2>2, EffectType
<1>6. (InPlace(p))' BY <1>1, <1>5 DEF InPlace, Adding, Deleting, Listing
<1>7. \A i \in Links : ring[i].state # "unused" => ring'[i].state # "unused"
  BY <1>2, <1>4 DEF Stored
<1> QED BY <1>1, <1>4, <1>5, <1>6, <1>7 DEF Stepping, n

LEMMA AddNodeEffect ==
    ASSUME Types, NEW p \in Procs, InPlace(p), AddNode(p)
    PROVE  /\ Stepping(p) /\ loaded' = loaded /\ misuse' = (misuse \/ ring[loc[p].new].state # "live")
           /\ pc[p] = "addnode" /\ pc'[p] = "addlink" /\ loc'[p] = loc[p]
           /\ Stored(loc[p].new, [ring[loc[p].new] EXCEPT !.next = Head0, !.prev = loc[p].prev])
<1> DEFINE i == loc[p].new
           n == [ring[i] EXCEPT !.next = Head0, !.prev = loc[p].prev]
<1>1. /\ pc[p] = "addnode" /\ pc' = [pc EXCEPT ![p] = "addlink"] /\ loc' = loc
      /\ ring' = [ring EXCEPT ![i] = n] /\ misuse' = (misuse \/ ring[i].state # "live")
      /\ UNCHANGED <<loaded, overlap, late>>
  BY DEF AddNode, Goto, Touch
<1>2. n \in NodeRecs /\ n.state = ring[i].state /\ i \in Links
  <2> DEFINE r == ring[i]
             k == loc[p].prev
  <2>1. i \in Links /\ r \in NodeRecs /\ k \in Links /\ Head0 \in Links BY TypeFacts
  <2> HIDE DEF r, k
  <2>2. [r EXCEPT !.next = Head0, !.prev = k] \in NodeRecs BY <2>1 DEF NodeRecs
  <2>3. [r EXCEPT !.next = Head0, !.prev = k].state = r.state BY <2>1 DEF NodeRecs
  <2> QED BY <2>1, <2>2, <2>3 DEF r, k
<1>3. "addlink" \in PCs BY DEF PCs, Adding
<1> HIDE DEF n
<1>4. i = Head0 => n.state = "live" BY <1>2, TypeFacts
<1>5. ring' \in [Links -> NodeRecs] /\ ring'[Head0].state = "live" /\ Stored(i, n)
  BY <1>1, <1>2, <1>4, StoreType
<1>6. Types' /\ Frame(p) /\ pc'[p] = "addlink" /\ loc'[p] = loc[p]
  <2>1. loaded' \in BOOLEAN /\ loc' = [loc EXCEPT ![p] = loc[p]]
    BY <1>1 DEF Types
  <2>2. loc[p] \in Locals BY TypeFacts
  <2>3. misuse' \in BOOLEAN BY <1>1, Zenon DEF Types
  <2> QED BY <1>1, <1>3, <1>5, <2>1, <2>2, <2>3, EffectType
<1>7. (InPlace(p))' BY <1>1, <1>6 DEF InPlace, Adding, Deleting, Listing
<1>8. \A j \in Links : ring[j].state # "unused" => ring'[j].state # "unused"
  BY <1>2, <1>5 DEF Stored
<1> QED BY <1>1, <1>5, <1>6, <1>7, <1>8 DEF Stepping, n

LEMMA AddLinkEffect ==
    ASSUME Types, NEW p \in Procs, InPlace(p), AddLink(p)
    PROVE  /\ Stepping(p) /\ loaded' = loaded /\ misuse' = (misuse \/ ring[loc[p].prev].state # "live")
           /\ pc[p] = "addlink" /\ pc'[p] = "idle" /\ loc'[p] = NoLocals
           /\ Stored(loc[p].prev, [ring[loc[p].prev] EXCEPT !.next = loc[p].new])
<1> DEFINE i == loc[p].prev
           n == [ring[i] EXCEPT !.next = loc[p].new]
<1>1. /\ pc[p] = "addlink" /\ pc' = [pc EXCEPT ![p] = "idle"] /\ loc' = [loc EXCEPT ![p] = NoLocals]
      /\ ring' = [ring EXCEPT ![i] = n] /\ misuse' = (misuse \/ ring[i].state # "live")
      /\ UNCHANGED <<loaded, overlap, late>>
  BY DEF AddLink, Goto, Touch, Return
<1>2. n \in NodeRecs /\ n.state = ring[i].state /\ i \in Links BY TypeFacts DEF NodeRecs
<1>3. "idle" \in PCs BY DEF PCs
<1> HIDE DEF n
<1>4. i = Head0 => n.state = "live" BY <1>2, TypeFacts
<1>5. ring' \in [Links -> NodeRecs] /\ ring'[Head0].state = "live" /\ Stored(i, n)
  BY <1>1, <1>2, <1>4, StoreType
<1>6. Types' /\ Frame(p) /\ pc'[p] = "idle" /\ loc'[p] = NoLocals
  <2>1. loaded' \in BOOLEAN BY <1>1 DEF Types
  <2>2. misuse' \in BOOLEAN BY <1>1, Zenon DEF Types
  <2> QED BY <1>1, <1>3, <1>5, <2>1, <2>2, EffectType, NoLocalsType
<1>7. (InPlace(p))' BY <1>6 DEF InPlace, NoLocals, Adding, Deleting, Listing
<1>8. \A j \in Links : ring[j].state # "unused" => ring'[j].state # "unused"
  BY <1>2, <1>5 DEF Stored
<1> QED BY <1>1, <1>5, <1>6, <1>7, <1>8 DEF Stepping, n, NoLocals

LEMMA WalkEffect ==
    ASSUME Types, NEW p \in Procs, InPlace(p), Walk(p)
    PROVE  /\ Stepping(p) /\ ring' = ring /\ loaded' = loaded /\ pc[p] = "walk"
           /\ \/ /\ loc[p].pos = Head0 /\ misuse' = misuse
                 /\ \/ loc[p].op = "unload" /\ pc'[p] = "unlist" /\ loc'[p] = loc[p]
                    \/ loc[p].op # "unload" /\ pc'[p] = "idle" /\ loc'[p] = NoLocals
              \/ /\ loc[p].pos # Head0 /\ loc[p].v \in {Every, ring[loc[p].pos].data}
                 /\ pc'[p] = "del" /\ loc'[p] = loc[p]
                 /\ misuse' = (misuse \/ ring[loc[p].pos].state # "live")
              \/ /\ loc[p].pos # Head0 /\ loc[p].v \notin {Every, ring[loc[p].pos].data} /\ pc'[p] = "walk"
                 /\ loc'[p] = [loc[p] EXCEPT !.pos = loc[p].aux, !.aux = ring[loc[p].aux].next]
                 /\ misuse' = (misuse \/ \E i \in {loc[p].pos, loc[p].aux} : ring[i].state # "live")
<1>1. pc[p] = "walk" /\ UNCHANGED <<ring, loaded, overlap, late>> BY DEF Walk
<1>2. /\ ring' \in [Links -> NodeRecs] /\ ring'[Head0].state = "live" /\ loaded' \in BOOLEAN
      /\ pc \in [Procs -> PCs] /\ loc \in [Procs -> Locals] /\ misuse \in BOOLEAN
  BY <1>1 DEF Types
<1>3. loc[p] \in Locals /\ loc[p].aux \in Links /\ ring[loc[p].aux].next \in Links BY TypeFacts
<1>4. "walk" \in PCs /\ "del" \in PCs /\ "unlist" \in PCs BY DEF PCs, Deleting
<1>5. loc = [loc EXCEPT ![p] = loc[p]] /\ pc = [pc EXCEPT ![p] = pc[p]] BY <1>2
<1>6. CASE Over(loc[p]) /\ misuse' = misuse /\ loc[p].op = "unload" /\ Goto(p, "unlist") /\ loc' = loc
  <2>1. Types' /\ Frame(p) /\ pc'[p] = "unlist" /\ loc'[p] = loc[p]
    BY <1>1, <1>2, <1>3, <1>4, <1>5, <1>6, EffectType DEF Goto
  <2>2. (InPlace(p))' BY <1>1, <1>6, <2>1 DEF InPlace, Adding, Deleting, Listing
  <2> QED BY <1>1, <1>6, <2>1, <2>2 DEF Stepping, Over
<1>7. CASE Over(loc[p]) /\ misuse' = misuse /\ loc[p].op # "unload" /\ Return(p)
  <2>1. Stepping(p) /\ pc'[p] = "idle" /\ loc'[p] = NoLocals
    BY <1>1, <1>2, <1>7, ReturnEffect
  <2> QED BY <1>1, <1>7, <2>1 DEF Over
<1>8. CASE /\ ~Over(loc[p]) /\ loc[p].v \in {Every, ring[loc[p].pos].data}
           /\ Goto(p, "del") /\ loc' = loc /\ Touch(loc[p].pos)
  <2>1. misuse' = (misuse \/ ring[loc[p].pos].state # "live") BY <1>8 DEF Touch
  <2>2. misuse' \in BOOLEAN BY <1>2, <2>1, Zenon
  <2>3. Types' /\ Frame(p) /\ pc'[p] = "del" /\ loc'[p] = loc[p]
    BY <1>1, <1>2, <1>3, <1>4, <1>5, <1>8, <2>2, EffectType DEF Goto
  <2>4. (InPlace(p))' BY <1>1, <1>8, <2>3 DEF InPlace, Adding, Deleting, Listing, Over
  <2> QED BY <1>1, <1>8, <2>1, <2>3, <2>4 DEF Stepping, Over
<1>9. CASE /\ ~Over(loc[p]) /\ loc[p].v \notin {Every, ring[loc[p].pos].data}
           /\ loc' = Advanced(p) /\ pc' = pc
           /\ misuse' = (misuse \/ \E i \in {loc[p].pos, loc[p].aux} : ring[i].state # "live")
  <2> DEFINE l == [loc[p] EXCEPT !.pos = loc[p].aux, !.aux = ring[loc[p].aux].next]
  <2>1. loc' = [loc EXCEPT ![p] = l] BY <1>9 DEF Advanced
  <2>2. l \in Locals BY <1>3 DEF Locals
  <2>3. l.op = loc[p].op /\ l.new = loc[p].new /\ l.v = loc[p].v BY <1>3 DEF Locals
  <2> HIDE DEF l
  <2>4. misuse' \in BOOLEAN BY <1>2, <1>9, Zenon
  <2> pc' = [pc EXCEPT ![p] = "walk"] BY <1>1, <1>5, <1>9
  <2>5. Types' /\ Frame(p) /\ pc'[p] = "walk" /\ loc'[p] = l
    BY <1>1, <1>2, <1>4, <2>1, <2>2, <2>4, EffectType
  <2>6. (InPlace(p))' BY <1>1, <2>3, <2>5 DEF InPlace, Adding, Deleting, Listing
  <2> QED BY <1>1, <1>9, <2>3, <2>5, <2>6 DEF Stepping, Over, l
<1> QED BY <1>6, <1>7, <1>8, <1>9 DEF Walk

LEMMA DelEffect ==
    ASSUME Types, NEW p \in Procs, InPlace(p), Del(p)
    PROVE  LET i == loc[p].pos
               l == [loc[p] EXCEPT !.prev = ring[i].prev, !.succ = ring[i].next]
           IN  /\ Stepping(p) /\ loaded' = loaded
               /\ misuse' = (misuse \/ \E j \in {i, ring[i].next} : ring[j].state # "live")
               /\ pc[p] = "del" /\ pc'[p] = "unlink" /\ loc'[p] = l
               /\ Stored(ring[i].next, [ring[ring[i].next] EXCEPT !.prev = ring[i].prev])
<1> DEFINE i == loc[p].pos
           l == [loc[p] EXCEPT !.prev = ring[i].prev, !.succ = ring[i].next]
           n == [ring[ring[i].next] EXCEPT !.prev = ring[i].prev]
<1>1. /\ i \in Links /\ loc[p] \in Locals /\ ring[i].prev \in Links /\ ring[i].next \in Links
      /\ ring[ring[i].next] \in NodeRecs
  BY TypeFacts
<1>2. /\ l \in Locals /\ l.op = loc[p].op /\ l.new = loc[p].new /\ l.v = loc[p].v
      /\ l.pos = i /\ l.succ = ring[i].next /\ l.prev = ring[i].prev
  BY <1>1 DEF Locals
<1>3. n \in NodeRecs /\ n.state = ring[ring[i].next].state BY <1>1 DEF NodeRecs
<1>4. /\ pc[p] = "del" /\ pc' = [pc EXCEPT ![p] = "unlink"] /\ loc' = [loc EXCEPT ![p] = l]
      /\ misuse' = (misuse \/ \E j \in {l.pos, l.succ} : ring[j].state # "live")
      /\ ring' = [ring EXCEPT ![l.succ].prev = l.prev]
      /\ UNCHANGED <<loaded, overlap, late>>
  BY DEF Del, Goto, Back
<1>5. ring' = [ring EXCEPT ![ring[i].next] = n] BY <1>2, <1>4
<1> HIDE DEF n, l
<1>6. ring[i].next = Head0 => n.state = "live" BY <1>3, TypeFacts
<1>7. ring' \in [Links -> NodeRecs] /\ ring'[Head0].state = "live" /\ Stored(ring[i].next, n)
  BY <1>1, <1>3, <1>5, <1>6, StoreType
<1>8. Types' /\ Frame(p) /\ pc'[p] = "unlink" /\ loc'[p] = l
  <2>1. loaded' \in BOOLEAN BY <1>4 DEF Types
  <2>2. misuse' \in BOOLEAN BY <1>4, Zenon DEF Types
  <2>3. "unlink" \in PCs BY DEF PCs, Deleting
  <2>4. late' = late /\ overlap' = overlap BY <1>4
  <2>5. pc' = [pc EXCEPT ![p] = "unlink"] /\ loc' = [loc EXCEPT ![p] = l] BY <1>4
  <2>6. l \in Locals /\ ring' \in [Links -> NodeRecs] /\ ring'[Head0].state = "live" BY <1>2, <1>7
  <2> QED BY <2>1, <2>2, <2>3, <2>4, <2>5, <2>6, EffectType
<1>9. (InPlace(p))' BY <1>2, <1>4, <1>8 DEF InPlace, Adding, Deleting, Listing
<1>10. \A j \in Links : ring[j].state # "unused" => ring'[j].state # "unused"
  BY <1>1, <1>3, <1>7 DEF Stored
<1> QED BY <1>2, <1>4, <1>7, <1>8, <1>9, <1>10 DEF Stepping, n, l

LEMMA UnlinkEffect ==
    ASSUME Types, NEW p \in Procs, InPlace(p), Unlink(p)
    PROVE  /\ Stepping(p) /\ loaded' = loaded
           /\ misuse' = (misuse \/ ring[loc[p].prev].state # "live")
           /\ pc[p] = "unlink" /\ pc'[p] = "free" /\ loc'[p] = loc[p]
           /\ \A j \in Links :
                /\ ring'[j].prev = ring[j].prev /\ ring'[j].data = ring[j].data
                /\ ring'[j].next = IF j = loc[p].prev THEN loc[p].succ ELSE ring[j].next
                /\ ring'[j].state = IF j = loc[p].pos THEN "poisoned" ELSE ring[j].state
<1> DEFINE i == loc[p].pos
           h == loc[p].prev
           k == loc[p].succ
           r == [ring EXCEPT ![h] = [ring[h] EXCEPT !.next = k]]
<1>1. /\ i \in Links /\ loc[p] \in Locals /\ h \in Links /\ k \in Links /\ Head0 \in Links
      /\ ring \in [Links -> NodeRecs] /\ ring[Head0].state = "live"
  BY TypeFacts DEF Types
<1>2. /\ pc[p] = "unlink" /\ pc' = [pc EXCEPT ![p] = "free"] /\ loc' = loc
      /\ misuse' = (misuse \/ ring[h].state # "live")
      /\ ring' = [r EXCEPT ![i].state = "poisoned"]
      /\ UNCHANGED <<loaded, overlap, late>>
  BY DEF Unlink, Goto, Forth, Touch
<1>3. i # Head0 BY <1>2 DEF InPlace
<1>4. /\ r \in [Links -> NodeRecs]
      /\ \A j \in Links :
            /\ r[j].prev = ring[j].prev /\ r[j].data = ring[j].data /\ r[j].state = ring[j].state
            /\ r[j].next = IF j = h THEN k ELSE ring[j].next
  BY <1>1 DEF NodeRecs
<1> DEFINE n == [r[i] EXCEPT !.state = "poisoned"]
<1>41. ring' = [r EXCEPT ![i] = n] BY <1>2
<1>42. /\ n \in NodeRecs /\ n.state = "poisoned"
       /\ n.prev = r[i].prev /\ n.data = r[i].data /\ n.next = r[i].next
  <2> DEFINE m == r[i]
  <2>1. m \in NodeRecs BY <1>1, <1>4
  <2> HIDE DEF m, r
  <2>2. [m EXCEPT !.state = "poisoned"] \in NodeRecs BY <2>1 DEF NodeRecs, States
  <2>3. /\ [m EXCEPT !.state = "poisoned"].state = "poisoned"
        /\ [m EXCEPT !.state = "poisoned"].prev = m.prev
        /\ [m EXCEPT !.state = "poisoned"].data = m.data
        /\ [m EXCEPT !.state = "poisoned"].next = m.next
    BY <2>1 DEF NodeRecs
  <2> QED BY <2>2, <2>3 DEF m
<1> HIDE DEF r, h, k, i, n
<1>5. /\ ring' \in [Links -> NodeRecs]
      /\ \A j \in Links :
            /\ ring'[j].prev = r[j].prev /\ ring'[j].data = r[j].data /\ ring'[j].next = r[j].next
            /\ ring'[j].state = IF j = i THEN "poisoned" ELSE r[j].state
  BY <1>1, <1>4, <1>41, <1>42
<1>6. ring'[Head0].state = "live" BY <1>1, <1>3, <1>4, <1>5
<1>7. Types' /\ Frame(p) /\ pc'[p] = "free" /\ loc'[p] = loc[p]
  <2>1. loaded' \in BOOLEAN /\ loc' = [loc EXCEPT ![p] = loc[p]] BY <1>2 DEF Types
  <2>2. misuse' \in BOOLEAN BY <1>2, Zenon DEF Types
  <2>3. "free" \in PCs BY DEF PCs, Deleting
  <2> QED BY <1>1, <1>2, <1>5, <1>6, <2>1, <2>2, <2>3, EffectType
<1>8. (InPlace(p))' BY <1>2, <1>3, <1>7 DEF InPlace, Adding, Deleting, Listing, i
<1>9. \A j \in Links : ring[j].state # "unused" => ring'[j].state # "unused"
  BY <1>4, <1>5
<1> QED BY <1>2, <1>4, <1>5, <1>7, <1>8, <1>9 DEF Stepping, i, h, k

LEMMA FreeEffect ==
    ASSUME Types, NEW p \in Procs, InPlace(p), Free(p)
    PROVE  /\ Stepping(p) /\ loaded' = loaded
           /\ misuse' = (misuse \/ ring[loc[p].pos].state = "freed" \/ ring[loc[p].aux].state # "live")
           /\ pc[p] = "free" /\ pc'[p] = "walk"
           /\ loc'[p] = [loc[p] EXCEPT !.pos = loc[p].aux, !.aux = ring[loc[p].aux].next,
                                       !.prev = Head0, !.succ = Head0]
           /\ Stored(loc[p].pos, [Unused EXCEPT !.state = "freed"])
<1> DEFINE i == loc[p].pos
           n == [Unused EXCEPT !.state = "freed"]
           h == loc[p].aux
           k == ring[loc[p].aux].next
           l == [loc[p] EXCEPT !.pos = h, !.aux = k, !.prev = Head0, !.succ = Head0]
<1>1. i \in Links /\ loc[p] \in Locals /\ h \in Links /\ k \in Links /\ Head0 \in Links
  BY TypeFacts
<1>2. /\ pc[p] = "free" /\ pc' = [pc EXCEPT ![p] = "walk"]
      /\ loc' = [loc EXCEPT ![p] = [Advanced(p)[p] EXCEPT !.prev = Head0, !.succ = Head0]]
      /\ ring' = [ring EXCEPT ![i] = n]
      /\ misuse' = (misuse \/ ring[loc[p].pos].state = "freed" \/ ring[loc[p].aux].state # "live")
      /\ UNCHANGED <<loaded, overlap, late>>
  BY DEF Free, Goto
<1>3. i # Head0 BY <1>2 DEF InPlace
<1>4. loc' = [loc EXCEPT ![p] = l]
  <2>1. Advanced(p)[p] = [loc[p] EXCEPT !.pos = h, !.aux = k] BY DEF Advanced, Types
  <2> DEFINE m == loc[p]
  <2>2. m \in Locals BY <1>1
  <2> HIDE DEF m, h, k
  <2>3. [[m EXCEPT !.pos = h, !.aux = k] EXCEPT !.prev = Head0, !.succ = Head0]
          = [m EXCEPT !.pos = h, !.aux = k, !.prev = Head0, !.succ = Head0]
    BY <2>2 DEF Locals
  <2> QED BY <1>2, <2>1, <2>3 DEF m
<1>5. /\ l \in Locals /\ l.op = loc[p].op /\ l.new = loc[p].new /\ l.v = loc[p].v
  <2> DEFINE m == loc[p]
  <2>1. m \in Locals BY <1>1
  <2> HIDE DEF m, h, k
  <2>2. [m EXCEPT !.pos = h, !.aux = k] \in Locals BY <1>1, <2>1 DEF Locals
  <2>3. [[m EXCEPT !.pos = h, !.aux = k] EXCEPT !.prev = Head0, !.succ = Head0] \in Locals
    BY <1>1, <2>2 DEF Locals
  <2>4. [[m EXCEPT !.pos = h, !.aux = k] EXCEPT !.prev = Head0, !.succ = Head0]
          = [m EXCEPT !.pos = h, !.aux = k, !.prev = Head0, !.succ = Head0]
    BY <2>1 DEF Locals
  <2>5. /\ [m EXCEPT !.pos = h, !.aux = k, !.prev = Head0, !.succ = Head0].op = m.op
        /\ [m EXCEPT !.pos = h, !.aux = k, !.prev = Head0, !.succ = Head0].new = m.new
        /\ [m EXCEPT !.pos = h, !.aux = k, !.prev = Head0, !.succ = Head0].v = m.v
    BY <2>1 DEF Locals
  <2> QED BY <2>3, <2>4, <2>5 DEF m
<1>6. n \in NodeRecs /\ n.state = "freed" BY NoLocalsType DEF NodeRecs, States, Unused
<1> HIDE DEF n, l, i, h, k
<1>7. ring' \in [Links -> NodeRecs] /\ ring'[Head0].state = "live" /\ Stored(i, n)
  BY <1>1, <1>2, <1>3, <1>6, StoreType
<1>8. Types' /\ Frame(p) /\ pc'[p] = "walk" /\ loc'[p] = l
  <2>1. loaded' \in BOOLEAN BY <1>2 DEF Types
  <2>2. misuse' \in BOOLEAN BY <1>2, Zenon DEF Types
  <2>3. "walk" \in PCs BY DEF PCs, Deleting
  <2>4. late' = late /\ overlap' = overlap BY <1>2
  <2>5. pc' = [pc EXCEPT ![p] = "walk"] /\ loc' = [loc EXCEPT ![p] = l] BY <1>2, <1>4
  <2>6. l \in Locals BY <1>5
  <2>7. ring' \in [Links -> NodeRecs] /\ ring'[Head0].state = "live" BY <1>7
  <2> QED BY <2>1, <2>2, <2>3, <2>4, <2>5, <2>6, <2>7, EffectType
<1>9. (InPlace(p))' BY <1>2, <1>5, <1>8 DEF InPlace, Adding, Deleting, Listing
<1>10. \A j \in Links : ring[j].state # "unused" => ring'[j].state # "unused"
  BY <1>6, <1>7 DEF Stored
<1> QED BY <1>2, <1>5, <1>7, <1>8, <1>9, <1>10 DEF Stepping, n, l, i, h, k

LEMMA ReadNodeEffect ==
    ASSUME Types, NEW p \in Procs, InPlace(p), ReadNode(p)
    PROVE  /\ Stepping(p) /\ ring' = ring /\ loaded' = loaded
           /\ pc[p] = "read" /\ pc'[p] = "read" /\ loc[p].pos # Head0
           /\ misuse' = (misuse \/ ring[loc[p].pos].state # "live")
           /\ loc'[p] = [loc[p] EXCEPT !.text = Append(loc[p].text, loc[p].pos),
                                       !.pos = ring[loc[p].pos].next]
<1> DEFINE x == Append(loc[p].text, loc[p].pos)
           k == ring[loc[p].pos].next
           l == [loc[p] EXCEPT !.text = x, !.pos = k]
<1>1. /\ pc[p] = "read" /\ pc' = pc /\ loc' = [loc EXCEPT ![p] = l] /\ loc[p].pos # Head0
      /\ misuse' = (misuse \/ ring[loc[p].pos].state # "live")
      /\ UNCHANGED <<ring, loaded, overlap, late>>
  BY DEF ReadNode, Touch, Following
<1>2. loc[p] \in Locals /\ loc[p].pos \in Nodes /\ k \in Links
  BY <1>1, TypeFacts DEF Links
<1>3. x \in Seq(Nodes)
  <2>1. loc[p].text \in Seq(Nodes) BY <1>2 DEF Locals
  <2> QED BY <1>2, <2>1
<1> HIDE DEF x, k
<1>4. l \in Locals /\ l.op = loc[p].op /\ l.new = loc[p].new /\ l.v = loc[p].v
  <2> DEFINE m == loc[p]
  <2>1. m \in Locals BY <1>2
  <2> HIDE DEF m
  <2>2. [m EXCEPT !.text = x, !.pos = k] \in Locals BY <1>2, <1>3, <2>1 DEF Locals
  <2>3. /\ [m EXCEPT !.text = x, !.pos = k].op = m.op
        /\ [m EXCEPT !.text = x, !.pos = k].new = m.new
        /\ [m EXCEPT !.text = x, !.pos = k].v = m.v
    BY <2>1 DEF Locals
  <2> QED BY <2>2, <2>3 DEF m
<1> HIDE DEF l
<1>5. Types' /\ Frame(p) /\ pc'[p] = "read" /\ loc'[p] = l
  <2>1. /\ loaded' \in BOOLEAN /\ pc' = [pc EXCEPT ![p] = "read"]
        /\ ring' \in [Links -> NodeRecs] /\ ring'[Head0].state = "live"
    BY <1>1 DEF Types
  <2>2. misuse' \in BOOLEAN BY <1>1, Zenon DEF Types
  <2>3. "read" \in PCs BY DEF PCs
  <2>4. late' = late /\ overlap' = overlap BY <1>1
  <2>5. loc' = [loc EXCEPT ![p] = l] BY <1>1
  <2> QED BY <1>4, <2>1, <2>2, <2>3, <2>4, <2>5, EffectType
<1>6. (InPlace(p))' BY <1>1, <1>4, <1>5 DEF InPlace, Adding, Deleting, Listing
<1> QED BY <1>1, <1>4, <1>5, <1>6 DEF Stepping, l, x, k

-----------------------------------------------------------------------------
(* Who is where, and who overlaps whom. *)

LEMMA StepStepping ==
    ASSUME Types, NEW p \in Procs, InPlace(p), Step(p)
    PROVE  Stepping(p) /\ InCall(p)
<1>1. CASE First(p) BY <1>1, FirstEffect DEF InCall
<1>2. CASE AddStep(p) BY <1>2, AddPrevEffect, AddHeadEffect, AddNodeEffect, AddLinkEffect DEF AddStep, InCall
<1>3. CASE Walk(p) BY <1>3, WalkEffect DEF InCall
<1>4. CASE Del(p) BY <1>4, DelEffect DEF InCall
<1>5. CASE Unlink(p) BY <1>5, UnlinkEffect DEF InCall
<1>6. CASE Free(p) BY <1>6, FreeEffect DEF InCall
<1>7. CASE Unlist(p)
  <2>1. Return(p) /\ ring' = ring /\ loaded' \in BOOLEAN /\ UNCHANGED <<overlap, late, misuse>>
        /\ pc[p] = "unlist"
    BY <1>7 DEF Unlist
  <2> QED BY <2>1, ReturnEffect DEF InCall
<1>8. CASE ReadNode(p) BY <1>8, ReadNodeEffect DEF InCall
<1>9. CASE ReadEnd(p)
  <2>1. Return(p) /\ ring' = ring /\ loaded' \in BOOLEAN /\ UNCHANGED <<overlap, late, misuse>>
        /\ pc[p] = "read"
    BY <1>9 DEF ReadEnd, Types
  <2> QED BY <2>1, ReturnEffect DEF InCall
<1> QED BY <1>1, <1>2, <1>3, <1>4, <1>5, <1>6, <1>7, <1>8, <1>9 DEF Step, DeleteStep

LEMMA NextStepped ==
    ASSUME Types, NEW p \in Procs, InPlace(p), Call(p) \/ Step(p)
    PROVE  Stepped(p)
<1>1. CASE Call(p) BY <1>1, CallStepped
<1>2. CASE Step(p) BY <1>2, StepStepping DEF Stepped, Stepping
<1> QED BY <1>1, <1>2

LEMMA NextControl ==
    ASSUME Types, Control, NEW p \in Procs, Stepped(p)
    PROVE  Control'
<1>1. \A q \in Procs : (InPlace(q))'
  <2>1. ASSUME NEW q \in Procs, q # p PROVE (InPlace(q))'
    <3>1. pc'[q] = pc[q] /\ loc'[q] = loc[q] BY <2>1 DEF Stepped, Frame
    <3> QED BY <3>1 DEF Control, InPlace
  <2> QED BY <2>1 DEF Stepped
<1>2. \A q \in Procs : loc[q].new # Head0 <=> loc[q].op = "add" BY DEF Control, InPlace
<1>3. \A q \in Procs : loc'[q].new # Head0 <=> loc'[q].op = "add" BY <1>1 DEF InPlace
<1>4. \A q \in Procs : q # p => loc'[q] = loc[q] BY DEF Stepped, Frame
<1>5. \A q \in Procs : loc[q].new \in Links /\ loc'[q].new \in Links
  BY DEF Stepped, Types, Locals
<1>6. \A i \in Links : ring[i].state # "unused" => ring'[i].state # "unused" BY DEF Stepped
<1>7. \A q, r \in Procs : loc[q].op = "add" /\ r # q => loc[r].new # loc[q].new
  BY DEF Control, OwnNode
<1>8. \A q \in Procs : loc[q].op = "add" => ring[loc[q].new].state # "unused"
  BY DEF Control, OwnNode
<1>9. CASE loc'[p].new \in {loc[p].new, Head0}
  <2>1. ASSUME NEW q \in Procs, loc'[q].op = "add"
        PROVE  loc'[q].new = loc[q].new /\ loc[q].op = "add"
    BY <1>2, <1>3, <1>4, <1>9, <2>1
  <2>2. ASSUME NEW q \in Procs, loc'[q].op = "add"
        PROVE  /\ ring'[loc'[q].new].state # "unused"
               /\ \A r \in Procs : r # q => loc'[r].new # loc'[q].new
    <3>1. loc'[q].new = loc[q].new /\ loc[q].op = "add" /\ loc'[q].new # Head0 BY <1>3, <2>1, <2>2
    <3>2. ring'[loc'[q].new].state # "unused" BY <1>5, <1>6, <1>8, <3>1
    <3>3. ASSUME NEW r \in Procs, r # q PROVE loc'[r].new # loc'[q].new
      BY <1>4, <1>7, <1>9, <3>1, <3>3
    <3> QED BY <3>2, <3>3
  <2> QED BY <1>1, <2>2 DEF Control, OwnNode
<1>10. CASE ring[loc'[p].new].state = "unused" /\ ring'[loc'[p].new].state = "live"
  <2>1. \A q \in Procs : q # p => loc[q].new # loc'[p].new
    <3>1. loc'[p].new # Head0 BY <1>10 DEF Types
    <3> QED BY <1>2, <1>8, <1>10, <3>1
  <2>2. ASSUME NEW q \in Procs, loc'[q].op = "add"
        PROVE  /\ ring'[loc'[q].new].state # "unused"
               /\ \A r \in Procs : r # q => loc'[r].new # loc'[q].new
    BY <1>4, <1>5, <1>6, <1>7, <1>8, <1>10, <2>1, <2>2
  <2> QED BY <1>1, <2>2 DEF Control, OwnNode
<1> QED BY <1>9, <1>10 DEF Stepped

LEMMA ClashSymmetric == \A a, b : Clash(a, b) = Clash(b, a)
<1>1. \A a, b : {a, b} = {b, a} OBVIOUS
<1> QED BY <1>1 DEF Clash

LEMMA JoinClashes ==
    ASSUME Types, Clashes, NEW p \in Procs, Frame(p), overlap' \in 0 .. 3, overlap <= overlap',
           \A q \in Procs \ {p} : InCall(q) => Clash(loc'[p].op, loc[q].op) <= overlap'
    PROVE  Clashes'
<1>1. overlap \in 0 .. 3 BY DEF Types
<1>2. SUFFICES ASSUME NEW q \in Procs, NEW r \in Procs, q # r, (InCall(q))', (InCall(r))'
      PROVE  Clash(loc'[q].op, loc'[r].op) <= overlap'
  BY DEF Clashes
<1>3. CASE q = p BY <1>2, <1>3 DEF Frame, InCall
<1>4. CASE r = p
  <2>1. Clash(loc'[r].op, loc'[q].op) <= overlap' BY <1>2, <1>4 DEF Frame, InCall
  <2> QED BY <2>1, ClashSymmetric
<1>5. CASE q # p /\ r # p
  <2>1. InCall(q) /\ InCall(r) /\ loc'[q] = loc[q] /\ loc'[r] = loc[r]
    BY <1>2, <1>5 DEF Frame, InCall
  <2>2. Clash(loc[q].op, loc[r].op) <= overlap BY <1>2, <2>1 DEF Clashes
  <2>3. Clash(loc[q].op, loc[r].op) \in 0 .. 3 BY DEF Clash
  <2> QED BY <1>1, <2>1, <2>2, <2>3
<1> QED BY <1>3, <1>4, <1>5

LEMMA CallClashes ==
    ASSUME Types, Clashes, NEW p \in Procs, NEW place \in PCs, NEW l \in Locals, Enter(p, place, l)
    PROVE  Clashes'
BY EnterFacts, JoinClashes

LEMMA StepClashes ==
    ASSUME Types, Control, Clashes, NEW p \in Procs, Stepping(p), InCall(p)
    PROVE  Clashes'
<1>1. SUFFICES ASSUME NEW q \in Procs, NEW r \in Procs, q # r, (InCall(q))', (InCall(r))'
      PROVE  Clash(loc'[q].op, loc'[r].op) <= overlap'
  BY DEF Clashes
<1>2. (InCall(p))' => loc'[p].op = loc[p].op BY DEF Stepping, InPlace, InCall
<1>3. \A x \in {q, r} : InCall(x) /\ loc'[x].op = loc[x].op
  BY <1>1, <1>2 DEF Stepping, Frame, InCall
<1> QED BY <1>1, <1>3 DEF Clashes, Stepping

LEMMA EnterCall ==
    ASSUME NEW p \in Procs, Call(p)
    PROVE  \E place \in PCs, l \in Locals : Enter(p, place, l)
<1>1. "first" \in PCs /\ "prev" \in PCs BY DEF PCs, Adding
<1>2. Live \ {loc[q].new : q \in Procs} \in SUBSET Nodes BY DEF Live
<1> QED BY <1>1, <1>2, CallTypes DEF Call, CallAdd, CallRemove, CallRead, CallUnload

LEMMA NextClashes ==
    ASSUME Types, Control, Clashes, NEW p \in Procs, Call(p) \/ Step(p)
    PROVE  Clashes'
<1>1. CASE Call(p) BY <1>1, EnterCall, CallClashes
<1>2. CASE Step(p)
  <2>1. InPlace(p) BY DEF Control
  <2> QED BY <1>2, <2>1, StepStepping, StepClashes
<1> QED BY <1>1, <1>2

\* One writer is alone as long as no two have overlapped, and one that deletes
\* meets no read as long as no deletion has overlapped another call.
LEMMA WriterAlone ==
    ASSUME Types, Control, Clashes, NEW p \in Procs, Writer(p)
    PROVE  /\ overlap < 3 => \A q \in Procs : q # p => ~Writer(q)
           /\ overlap < 2 /\ loc[p].op # "add" => \A q \in Procs : loc[q].op # "read"
<1>1. InCall(p) BY DEF Control, InPlace, InCall, Writer
<1>2. overlap \in 0 .. 3 BY DEF Types
<1>3. ASSUME NEW q \in Procs, q # p, Writer(q) PROVE overlap = 3
  <2>1. InCall(q) BY <1>3 DEF Control, InPlace, InCall, Writer
  <2>2. Clash(loc[p].op, loc[q].op) = 3 BY <1>3 DEF Clash, Writer
  <2> QED BY <1>1, <1>2, <1>3, <2>1, <2>2 DEF Clashes
<1>4. ASSUME NEW q \in Procs, loc[p].op # "add", loc[q].op = "read" PROVE overlap >= 2
  <2>1. q # p /\ InCall(q) BY <1>4 DEF Control, InPlace, InCall, Writer
  <2>2. Clash(loc[p].op, loc[q].op) = 2 BY <1>4 DEF Clash, Writer
  <2> QED BY <1>1, <1>2, <2>1, <2>2 DEF Clashes
<1> QED BY <1>2, <1>3, <1>4

-----------------------------------------------------------------------------
(* What a step of a writer does to the list. *)

\* The nodes of s are distinct, and differ from the list head.
LEMMA AtDistinct ==
    ASSUME NEW s, Sequential(s)
    PROVE  /\ \A i, j \in 1 .. Len(s) + 1 : At(s, i) = At(s, j) => i = j
           /\ \A i, j \in 0 .. Len(s) : At(s, i) = At(s, j) => i = j
<1>1. s \in Seq(Nodes) /\ Len(s) \in Nat /\ \A i, j \in 1 .. Len(s) : s[i] = s[j] => i = j
  BY DEF Sequential
<1>2. /\ \A i \in 1 .. Len(s) : At(s, i) = s[i] /\ At(s, i) # Head0
      /\ \A i : i \notin 1 .. Len(s) => At(s, i) = Head0
  BY <1>1, AtFacts
<1>3. ASSUME NEW i \in 1 .. Len(s) + 1, NEW j \in 1 .. Len(s) + 1, At(s, i) = At(s, j) PROVE i = j
  <2>1. i \in 1 .. Len(s) <=> j \in 1 .. Len(s) BY <1>2, <1>3
  <2>2. CASE i \in 1 .. Len(s) BY <1>1, <1>2, <1>3, <2>1, <2>2
  <2>3. CASE i \notin 1 .. Len(s) BY <1>1, <2>1, <2>3
  <2> QED BY <2>2, <2>3
<1>4. ASSUME NEW i \in 0 .. Len(s), NEW j \in 0 .. Len(s), At(s, i) = At(s, j) PROVE i = j
  <2>1. i \in 1 .. Len(s) <=> j \in 1 .. Len(s) BY <1>2, <1>4
  <2>2. CASE i \in 1 .. Len(s) BY <1>1, <1>2, <1>4, <2>1, <2>2
  <2>3. CASE i \notin 1 .. Len(s) BY <1>1, <2>1, <2>3
  <2> QED BY <2>2, <2>3
<1> QED BY <1>3, <1>4

LEMMA HoldingFacts ==
    ASSUME Types, NEW p \in Procs, NEW s, Holding(p, s)
    PROVE  /\ Sequential(s) /\ s \in Seq(Nodes) /\ Len(s) \in Nat /\ Phase(p, s) /\ ForthOK(s)
           /\ \A i : At(s, i) \in Links /\ ring[At(s, i)].state = "live"
           /\ loc[p].op = "add" => loc[p].new \in Live \ Range(s)
<1>1. Sequential(s) /\ s \in Seq(Nodes) /\ Len(s) \in Nat BY DEF Holding, Sequential
<1>2. \A i : At(s, i) \in Links /\ (At(s, i) = Head0 \/ At(s, i) \in Range(s))
  BY <1>1, AtFacts
<1>3. ring[Head0].state = "live" BY DEF Types
<1>4. \A i : ring[At(s, i)].state = "live" BY <1>2, <1>3 DEF Live, Holding
<1> QED BY <1>1, <1>2, <1>4 DEF Holding, Phase

\* A step of p makes the list s the list t.
Changed(p, s, t) ==
    /\ Sequential(t) /\ (ForthOK(t))'
    /\ (Writer(p) => Phase(p, t))' /\ (~Writer(p) => BackOK(t))'
    /\ misuse' => misuse
    /\ \A i \in Nodes : ring'[i].state = "unused" <=> ring[i].state = "unused"
    /\ pc'[p] = "unlist" => Range(s) = {}
    /\ \/ /\ t = s /\ Live' = Live
          /\ loc[p].op = "add" => loc'[p].op = "add" /\ loc'[p].new = loc[p].new
       \/ /\ loc[p].op = "add" /\ loc'[p].op = "none"
          /\ t = Append(s, loc[p].new) /\ Live' = Live
       \/ /\ loc[p].op # "add"
          /\ \E k \in 1 .. Len(s) : t = Drop(s, k) /\ Live' = Live \ {At(s, k)}

LEMMA RingStays ==
    ASSUME NEW p \in Procs, NEW s, Sequential(s), \A i \in Links : ring'[i].state = ring[i].state,
           loc[p].op = "add" => loc'[p].op = "add" /\ loc'[p].new = loc[p].new,
           (ForthOK(s))', (Writer(p) => Phase(p, s))', (~Writer(p) => BackOK(s))',
           misuse' => misuse, pc'[p] = "unlist" => Range(s) = {}
    PROVE  \E t : Changed(p, s, t)
<1>1. Live' = Live BY DEF Live, Links
<1>2. \A i \in Nodes : ring'[i].state = "unused" <=> ring[i].state = "unused" BY DEF Links
<1> QED BY <1>1, <1>2 DEF Changed

LEMMA SameLinks ==
    ASSUME NEW s \in Seq(Nodes), ring' = ring
    PROVE  (ForthOK(s))' = ForthOK(s) /\ (BackOK(s))' = BackOK(s)
BY DEF ForthOK, BackOK

LEMMA AddPrevRing ==
    ASSUME Types, NEW p \in Procs, InPlace(p), NEW s, Holding(p, s), AddPrev(p)
    PROVE  \E t : Changed(p, s, t)
<1>1. /\ Stepping(p) /\ ring' = ring /\ loaded' = loaded /\ misuse' = misuse
      /\ pc[p] = "prev" /\ pc'[p] = "addhead"
      /\ loc'[p] = [loc[p] EXCEPT !.prev = ring[Head0].prev]
  BY AddPrevEffect
<1>3. loc[p].op = "add" /\ Writer(p) BY <1>1 DEF InPlace, Writer, Adding
<1>4. Sequential(s) /\ s \in Seq(Nodes) /\ Len(s) \in Nat /\ Phase(p, s) /\ ForthOK(s)
  BY <1>3, HoldingFacts
<1>5. BackOK(s) BY <1>1, <1>4 DEF Phase
<1>6. /\ loc'[p].op = "add" /\ loc'[p].new = loc[p].new /\ loc'[p].prev = ring[Head0].prev
  BY <1>1, <1>3, TypeFacts DEF Locals
<1>7. ring[Head0].prev = At(s, Len(s))
  <2>1. At(s, Len(s) + 1) = Head0 BY <1>4, AtFacts
  <2> QED BY <1>4, <1>5, <2>1 DEF BackOK
<1>8. (ForthOK(s))' /\ (BackOK(s))' BY <1>1, <1>4, <1>5, SameLinks
<1>9. (Phase(p, s))' BY <1>1, <1>6, <1>7, <1>8 DEF Phase
<1>10. misuse' => misuse BY <1>1
<1>11. (Writer(p))' BY <1>6 DEF Writer
<1> QED BY <1>1, <1>3, <1>4, <1>6, <1>8, <1>9, <1>10, <1>11, RingStays

LEMMA AddHeadRing ==
    ASSUME Types, NEW p \in Procs, InPlace(p), NEW s, Holding(p, s), AddHead(p)
    PROVE  \E t : Changed(p, s, t)
<1>1. /\ Stepping(p) /\ loaded' = loaded /\ misuse' = misuse
      /\ pc[p] = "addhead" /\ pc'[p] = "addnode" /\ loc'[p] = loc[p]
      /\ Stored(Head0, [ring[Head0] EXCEPT !.prev = loc[p].new])
  BY AddHeadEffect
<1>3. loc[p].op = "add" /\ Writer(p) BY <1>1 DEF InPlace, Writer, Adding
<1>4. Sequential(s) /\ s \in Seq(Nodes) /\ Len(s) \in Nat /\ Phase(p, s) /\ ForthOK(s)
      /\ \A i : At(s, i) \in Links
  BY <1>3, HoldingFacts
<1>5. BackOK(s) /\ loc[p].prev = At(s, Len(s)) BY <1>1, <1>4 DEF Phase
<1>6. /\ ring'[Head0].prev = loc[p].new /\ ring'[Head0].next = ring[Head0].next
      /\ ring'[Head0].state = ring[Head0].state
      /\ \A i \in Links : i # Head0 => ring'[i] = ring[i]
  BY <1>1, TypeFacts DEF Stored, NodeRecs
<1>7. (ForthOK(s))' BY <1>4, <1>6 DEF ForthOK
<1>8. \A i \in 1 .. Len(s) : ring'[At(s, i)].prev = At(s, i - 1)
  <2>1. \A i \in 1 .. Len(s) : At(s, i) # Head0 /\ i \in 1 .. Len(s) + 1 BY <1>4, AtFacts
  <2> QED BY <1>4, <1>5, <1>6, <2>1 DEF BackOK
<1>9. (Phase(p, s))' BY <1>1, <1>5, <1>6, <1>7, <1>8 DEF Phase
<1>10. misuse' => misuse BY <1>1
<1>11. (Writer(p))' BY <1>1, <1>3 DEF Writer
<1>12. \A i \in Links : ring'[i].state = ring[i].state BY <1>6
<1> QED BY <1>1, <1>3, <1>4, <1>7, <1>9, <1>10, <1>11, <1>12, RingStays

LEMMA AddNodeRing ==
    ASSUME Types, NEW p \in Procs, InPlace(p), NEW s, Holding(p, s), AddNode(p)
    PROVE  \E t : Changed(p, s, t)
<1>0. PICK new : new = loc[p].new OBVIOUS
<1>1. /\ Stepping(p) /\ loaded' = loaded /\ misuse' = (misuse \/ ring[new].state # "live")
      /\ pc[p] = "addnode" /\ pc'[p] = "addlink" /\ loc'[p] = loc[p]
      /\ Stored(new, [ring[new] EXCEPT !.next = Head0, !.prev = loc[p].prev])
  BY <1>0, AddNodeEffect
<1>3. loc[p].op = "add" /\ Writer(p) BY <1>1 DEF InPlace, Writer, Adding
<1>4. /\ Sequential(s) /\ s \in Seq(Nodes) /\ Len(s) \in Nat /\ Phase(p, s) /\ ForthOK(s)
      /\ \A i : At(s, i) \in Links
      /\ new \in Live \ Range(s)
  BY <1>0, <1>3, HoldingFacts
<1>5. new \in Nodes /\ new \in Links /\ new # Head0 /\ ring[new].state = "live"
  BY <1>4 DEF Live, Links, Head0, Nodes
<1>6. /\ loc[p].prev = At(s, Len(s)) /\ ring[Head0].prev = new
      /\ \A i \in 1 .. Len(s) : ring[At(s, i)].prev = At(s, i - 1)
  BY <1>0, <1>1, <1>4 DEF Phase
<1>7. /\ ring'[new].prev = loc[p].prev /\ ring'[new].next = Head0
      /\ ring'[new].state = ring[new].state
      /\ \A i \in Links : i # new => ring'[i] = ring[i]
  <2> DEFINE r == ring[new]
             k == loc[p].prev
  <2>1. r \in NodeRecs BY <1>5, TypeFacts
  <2>2. ring'[new] = [r EXCEPT !.next = Head0, !.prev = k] /\ \A i \in Links : i # new => ring'[i] = ring[i]
    BY <1>1 DEF Stored
  <2> HIDE DEF r, k
  <2>3. LET n == [r EXCEPT !.next = Head0, !.prev = k]
        IN  n.prev = k /\ n.next = Head0 /\ n.state = r.state
    BY <2>1 DEF NodeRecs
  <2> QED BY <2>2, <2>3 DEF r, k
<1>8. \A i \in 0 .. Len(s) + 1 : At(s, i) # new /\ ring'[At(s, i)] = ring[At(s, i)]
  <2>1. \A i : At(s, i) = Head0 \/ At(s, i) \in Range(s) BY <1>4, AtFacts
  <2> QED BY <1>4, <1>5, <1>7, <2>1
<1>9. (ForthOK(s))'
  <2>1. \A i \in 0 .. Len(s) : ring[At(s, i)].next = At(s, i + 1) /\ i \in 0 .. Len(s) + 1
    BY <1>4 DEF ForthOK
  <2> QED BY <1>8, <2>1 DEF ForthOK
<1>10. (BackOK(Append(s, new)))'
  <2>0. PICK t : t = Append(s, new) OBVIOUS
  <2>1. /\ Len(t) = Len(s) + 1 /\ \A i \in 0 .. Len(s) : At(t, i) = At(s, i)
        /\ At(t, Len(s) + 1) = new /\ At(t, Len(s) + 2) = Head0
    BY <1>4, <1>5, <2>0, AtAppend
  <2>2. ASSUME NEW i \in 1 .. Len(t) + 1 PROVE ring'[At(t, i)].prev = At(t, i - 1)
    <3>1. CASE i \in 1 .. Len(s)
      <4>1. i \in 0 .. Len(s) + 1 /\ i \in 0 .. Len(s) /\ i - 1 \in 0 .. Len(s) BY <1>4, <3>1
      <4> QED BY <1>6, <1>8, <2>1, <3>1, <4>1
    <3>2. CASE i = Len(s) + 1
      <4>1. i - 1 = Len(s) /\ Len(s) \in 0 .. Len(s) BY <1>4, <3>2
      <4> QED BY <1>6, <1>7, <2>1, <3>2, <4>1
    <3>3. CASE i = Len(s) + 2
      <4>1. i - 1 = Len(s) + 1 BY <1>4, <3>3
      <4>2. Head0 \in Links BY DEF Links
      <4> QED BY <1>5, <1>6, <1>7, <2>1, <3>3, <4>1, <4>2
    <3> QED BY <1>4, <2>1, <3>1, <3>2, <3>3
  <2>3. (BackOK(t))' BY <2>2 DEF BackOK
  <2> QED BY <2>0, <2>3
<1>11. (Phase(p, s))' BY <1>0, <1>1, <1>6, <1>7, <1>9, <1>10 DEF Phase
<1>12. misuse' => misuse BY <1>1, <1>5
<1>13. (Writer(p))' BY <1>1, <1>3 DEF Writer
<1>14. \A i \in Links : ring'[i].state = ring[i].state BY <1>7
<1> QED BY <1>1, <1>3, <1>4, <1>9, <1>11, <1>12, <1>13, <1>14, RingStays

LEMMA AddLinkRing ==
    ASSUME Types, NEW p \in Procs, InPlace(p), NEW s, Holding(p, s), AddLink(p)
    PROVE  \E t : Changed(p, s, t)
<1>0. PICK new, h : new = loc[p].new /\ h = loc[p].prev OBVIOUS
<1>1. /\ Stepping(p) /\ loaded' = loaded /\ misuse' = (misuse \/ ring[h].state # "live")
      /\ pc[p] = "addlink" /\ pc'[p] = "idle" /\ loc'[p] = NoLocals
      /\ Stored(h, [ring[h] EXCEPT !.next = new])
  BY <1>0, AddLinkEffect
<1>3. loc[p].op = "add" /\ Writer(p) BY <1>1 DEF InPlace, Writer, Adding
<1>4. /\ Sequential(s) /\ s \in Seq(Nodes) /\ Len(s) \in Nat /\ Phase(p, s) /\ ForthOK(s)
      /\ \A i : At(s, i) \in Links /\ ring[At(s, i)].state = "live"
      /\ new \in Live \ Range(s)
  BY <1>0, <1>3, HoldingFacts
<1>5. new \in Nodes /\ new \in Links /\ new # Head0 /\ ring[new].state = "live"
  BY <1>4 DEF Live, Links, Head0, Nodes
<1>6. h = At(s, Len(s)) /\ BackOK(Append(s, new)) /\ ring[new].next = Head0
  BY <1>0, <1>1, <1>4 DEF Phase
<1>7. /\ h \in Links /\ h # new
      /\ ring'[h].next = new /\ ring'[h].prev = ring[h].prev /\ ring'[h].state = ring[h].state
      /\ \A i \in Links : i # h => ring'[i] = ring[i]
  <2>1. h = Head0 \/ h \in Range(s) BY <1>4, <1>6, AtFacts
  <2>2. h \in Links /\ h # new BY <1>4, <1>5, <1>6, <2>1
  <2>3. ring[h] \in NodeRecs BY <2>2, TypeFacts
  <2> QED BY <1>1, <2>2, <2>3 DEF Stored, NodeRecs
<1>70. PICK t : t = Append(s, new) OBVIOUS
<1>8. /\ t \in Seq(Nodes) /\ Len(t) = Len(s) + 1 /\ \A i \in 0 .. Len(s) : At(t, i) = At(s, i)
      /\ At(t, Len(s) + 1) = new /\ At(t, Len(s) + 2) = Head0
      /\ Range(t) = Range(s) \cup {new}
      /\ \A i \in 1 .. Len(s) : t[i] = s[i]
      /\ t[Len(s) + 1] = new
  BY <1>4, <1>5, <1>70, AtAppend
<1>10. Sequential(t)
  <2>1. \A i, j \in 1 .. Len(s) : s[i] = s[j] => i = j BY <1>4 DEF Sequential
  <2>2. \A i \in 1 .. Len(s) : s[i] # new
    <3>1. \A i \in 1 .. Len(s) : At(s, i) = s[i] /\ At(s, i) \in Range(s) BY <1>4, AtFacts
    <3> QED BY <1>4, <3>1
  <2>3. \A i, j \in 1 .. Len(t) : t[i] = t[j] => i = j BY <1>4, <1>8, <2>1, <2>2
  <2> QED BY <1>8, <2>3 DEF Sequential
<1>11. (ForthOK(t))'
  <2>1. ASSUME NEW i \in 0 .. Len(t) PROVE ring'[At(t, i)].next = At(t, i + 1)
    <3>1. CASE i < Len(s)
      <4>1. i \in 0 .. Len(s) /\ i + 1 \in 0 .. Len(s) /\ Len(s) \in 0 .. Len(s) BY <1>4, <3>1
      <4>2. At(s, i) # h BY <1>4, <1>6, <3>1, <4>1, AtDistinct
      <4> QED BY <1>4, <1>7, <1>8, <4>1, <4>2 DEF ForthOK
    <3>2. CASE i = Len(s)
      <4>1. i \in 0 .. Len(s) BY <1>4, <3>2
      <4> QED BY <1>6, <1>7, <1>8, <3>2, <4>1
    <3>3. CASE i = Len(s) + 1
      <4>1. i + 1 = Len(s) + 2 BY <1>4, <3>3
      <4> QED BY <1>5, <1>6, <1>7, <1>8, <3>3, <4>1
    <3> QED BY <1>4, <1>8, <3>1, <3>2, <3>3
  <2> QED BY <2>1 DEF ForthOK
<1>12. (BackOK(t))'
  <2>1. \A i \in 1 .. Len(t) + 1 : At(t, i) \in Links BY <1>8, AtFacts
  <2>2. \A i \in Links : ring'[i].prev = ring[i].prev BY <1>7
  <2>3. BackOK(t) BY <1>6, <1>70
  <2> QED BY <2>1, <2>2, <2>3 DEF BackOK
<1>13. ~(Writer(p))' /\ loc'[p].op = "none" /\ loc'[p].new = Head0
  BY <1>1 DEF NoLocals, Writer
<1>14. \A i \in Links : ring'[i].state = ring[i].state BY <1>7
<1>15. Live' = Live BY <1>14 DEF Live, Links
<1>16. \A i \in Nodes : ring'[i].state = "unused" <=> ring[i].state = "unused" BY <1>14 DEF Links
<1>17. misuse' => misuse BY <1>1, <1>4, <1>6
<1> QED BY <1>0, <1>1, <1>3, <1>10, <1>11, <1>12, <1>13, <1>15, <1>16, <1>17, <1>70 DEF Changed

LEMMA FirstRing ==
    ASSUME Types, NEW p \in Procs, InPlace(p), NEW s, Holding(p, s), First(p), loc[p].op # "read"
    PROVE  \E t : Changed(p, s, t)
<1>1. /\ Stepping(p) /\ ring' = ring /\ loaded' = loaded /\ pc[p] = "first" /\ pc'[p] = "walk"
      /\ loc'[p] = [loc[p] EXCEPT !.pos = ring[Head0].next, !.aux = ring[ring[Head0].next].next]
      /\ misuse' = (misuse \/ ring[ring[Head0].next].state # "live")
  BY FirstEffect
<1>3. Writer(p) /\ loc[p].op # "add" BY <1>1 DEF InPlace, Writer, Adding
<1>4. /\ Sequential(s) /\ s \in Seq(Nodes) /\ Len(s) \in Nat /\ Phase(p, s) /\ ForthOK(s)
      /\ \A i : At(s, i) \in Links /\ ring[At(s, i)].state = "live"
  BY <1>3, HoldingFacts
<1>5. BackOK(s) BY <1>1, <1>4 DEF Phase
<1>6. /\ loc'[p].op = loc[p].op /\ loc'[p].new = loc[p].new
      /\ loc'[p].pos = ring[Head0].next /\ loc'[p].aux = ring[ring[Head0].next].next
  BY <1>1, TypeFacts DEF Locals
<1>7. /\ ring[Head0].next = At(s, 1)
      /\ 1 <= Len(s) => ring[At(s, 1)].next = At(s, 2)
  <2>1. At(s, 0) = Head0 /\ 0 \in 0 .. Len(s) /\ 0 + 1 = 1 /\ 1 + 1 = 2 BY <1>4, AtFacts
  <2>2. 1 <= Len(s) => 1 \in 0 .. Len(s) BY <1>4
  <2> QED BY <1>4, <2>1, <2>2 DEF ForthOK
<1>8. (ForthOK(s))' /\ (BackOK(s))' BY <1>1, <1>4, <1>5, SameLinks
<1>9. (WalkAt(p, s, 1))'
  <2>1. 1 \in 1 .. Len(s) + 1 /\ 1 + 1 = 2 BY <1>4
  <2> QED BY <1>6, <1>7, <2>1 DEF WalkAt
<1>10. (Phase(p, s))'
  <2>1. 1 \in 1 .. Len(s) + 1 BY <1>4
  <2> QED BY <1>1, <1>8, <1>9, <2>1 DEF Phase
<1>11. misuse' => misuse
  <2>1. ring[ring[Head0].next].state = "live" BY <1>4, <1>7
  <2> QED BY <1>1, <2>1, Zenon
<1>12. (Writer(p))' BY <1>3, <1>6 DEF Writer
<1> QED BY <1>1, <1>3, <1>4, <1>6, <1>8, <1>10, <1>11, <1>12, RingStays

LEMMA WalkRing ==
    ASSUME Types, NEW p \in Procs, InPlace(p), NEW s, Holding(p, s), Walk(p)
    PROVE  \E t : Changed(p, s, t)
<1>1. /\ Stepping(p) /\ ring' = ring /\ loaded' = loaded /\ pc[p] = "walk"
  BY WalkEffect
<1>3. Writer(p) /\ loc[p].op # "add" BY <1>1 DEF InPlace, Writer, Adding, Deleting, Listing
<1>4. /\ Sequential(s) /\ s \in Seq(Nodes) /\ Len(s) \in Nat /\ Phase(p, s) /\ ForthOK(s)
      /\ \A i : At(s, i) \in Links /\ ring[At(s, i)].state = "live"
  BY <1>3, HoldingFacts
<1>5. BackOK(s) BY <1>1, <1>4 DEF Phase
<1>6. PICK k \in 1 .. Len(s) + 1 : WalkAt(p, s, k) BY <1>1, <1>4 DEF Phase
<1>7. (ForthOK(s))' /\ (BackOK(s))' BY <1>1, <1>4, <1>5, SameLinks
<1>9. /\ loc[p].pos = At(s, k) /\ ring[loc[p].pos].state = "live"
      /\ loc[p].pos # Head0 => k \in 1 .. Len(s) /\ loc[p].aux = At(s, k + 1)
  BY <1>4, <1>6, AtFacts DEF WalkAt
<1>10. CASE /\ loc[p].pos = Head0 /\ misuse' = misuse /\ loc[p].op = "unload"
             /\ pc'[p] = "unlist" /\ loc'[p] = loc[p]
  <2>1. (Phase(p, s))' BY <1>7, <1>10 DEF Phase
  <2>2. Range(s) = {}
    <3>1. k = 1 BY <1>6, <1>10 DEF WalkAt, InPlace
    <3>2. 1 \notin 1 .. Len(s) BY <1>4, <1>9, <1>10, <3>1, AtFacts
    <3>3. 1 .. Len(s) = {} BY <1>4, <3>2
    <3> QED BY <1>4, <3>3, AtFacts
  <2>3. (Writer(p))' BY <1>3, <1>10 DEF Writer
  <2> QED BY <1>1, <1>3, <1>4, <1>7, <1>10, <2>1, <2>2, <2>3, RingStays
<1>11. CASE misuse' = misuse /\ pc'[p] = "idle" /\ loc'[p] = NoLocals
  <2>1. ~(Writer(p))' BY <1>11 DEF Writer, NoLocals
  <2> QED BY <1>1, <1>3, <1>4, <1>7, <1>11, <2>1, RingStays
<1>12. CASE /\ loc[p].pos # Head0 /\ pc'[p] = "del" /\ loc'[p] = loc[p]
            /\ misuse' = (misuse \/ ring[loc[p].pos].state # "live")
  <2>1. (WalkAt(p, s, k))' BY <1>6, <1>12 DEF WalkAt
  <2>2. (Phase(p, s))' BY <1>7, <1>12, <2>1 DEF Phase
  <2>3. misuse' => misuse BY <1>9, <1>12
  <2>4. (Writer(p))' BY <1>3, <1>12 DEF Writer
  <2> QED BY <1>1, <1>3, <1>4, <1>7, <1>12, <2>2, <2>3, <2>4, RingStays
<1>13. CASE /\ loc[p].pos # Head0 /\ loc[p].v # Every /\ pc'[p] = "walk"
            /\ loc'[p] = [loc[p] EXCEPT !.pos = loc[p].aux, !.aux = ring[loc[p].aux].next]
            /\ misuse' = (misuse \/ \E i \in {loc[p].pos, loc[p].aux} : ring[i].state # "live")
  <2>1. /\ loc'[p].op = loc[p].op /\ loc'[p].new = loc[p].new /\ loc'[p].v = loc[p].v
        /\ loc'[p].pos = loc[p].aux /\ loc'[p].aux = ring[loc[p].aux].next
    BY <1>13, TypeFacts DEF Locals
  <2>2. k + 1 \in 1 .. Len(s) + 1 /\ (k + 1 <= Len(s) => k + 1 \in 0 .. Len(s))
    BY <1>4, <1>9, <1>13
  <2>3. (WalkAt(p, s, k + 1))' BY <1>4, <1>9, <1>13, <2>1, <2>2 DEF WalkAt, ForthOK
  <2>4. (Phase(p, s))' BY <1>7, <1>13, <2>2, <2>3 DEF Phase
  <2>5. misuse' => misuse
    <3>1. \A i \in {loc[p].pos, loc[p].aux} : ring[i].state = "live" BY <1>4, <1>9, <1>13
    <3> QED BY <1>13, <3>1, Zenon
  <2>6. (Writer(p))' BY <1>3, <2>1 DEF Writer
  <2> QED BY <1>1, <1>3, <1>4, <1>7, <1>13, <2>1, <2>4, <2>5, <2>6, RingStays
<1> QED BY <1>10, <1>11, <1>12, <1>13, WalkEffect

LEMMA DelRing ==
    ASSUME Types, NEW p \in Procs, InPlace(p), NEW s, Holding(p, s), Del(p)
    PROVE  \E t : Changed(p, s, t)
<1>0. PICK i, h, k : i = loc[p].pos /\ h = ring[i].prev /\ k = ring[i].next OBVIOUS
<1>1. /\ Stepping(p) /\ loaded' = loaded
      /\ misuse' = (misuse \/ \E j \in {i, k} : ring[j].state # "live")
      /\ pc[p] = "del" /\ pc'[p] = "unlink"
      /\ loc'[p] = [loc[p] EXCEPT !.prev = h, !.succ = k]
      /\ Stored(k, [ring[k] EXCEPT !.prev = h])
  BY <1>0, DelEffect
<1>3. Writer(p) /\ loc[p].op # "add" BY <1>1 DEF InPlace, Writer, Adding, Deleting, Listing
<1>4. /\ Sequential(s) /\ s \in Seq(Nodes) /\ Len(s) \in Nat /\ Phase(p, s) /\ ForthOK(s)
      /\ \A j : At(s, j) \in Links /\ ring[At(s, j)].state = "live"
  BY <1>3, HoldingFacts
<1>5. BackOK(s) BY <1>1, <1>4 DEF Phase
<1>6. PICK n \in 1 .. Len(s) : WalkAt(p, s, n)
  <2>1. PICK n \in 1 .. Len(s) + 1 : WalkAt(p, s, n) BY <1>1, <1>4 DEF Phase
  <2>2. loc[p].pos # Head0 BY <1>1 DEF InPlace
  <2>3. n \in 1 .. Len(s) BY <1>4, <2>1, <2>2, AtFacts DEF WalkAt
  <2> QED BY <2>1, <2>3
<1>7. i = At(s, n) /\ h = At(s, n - 1) /\ k = At(s, n + 1) /\ loc[p].aux = At(s, n + 1)
  <2>1. n \in 0 .. Len(s) /\ n \in 1 .. Len(s) + 1 /\ n <= Len(s) BY <1>4
  <2> QED BY <1>0, <1>4, <1>5, <1>6, <2>1 DEF WalkAt, ForthOK, BackOK
<1>8. /\ loc'[p].op = loc[p].op /\ loc'[p].new = loc[p].new /\ loc'[p].v = loc[p].v
      /\ loc'[p].pos = loc[p].pos /\ loc'[p].aux = loc[p].aux
      /\ loc'[p].prev = h /\ loc'[p].succ = k
  BY <1>1, TypeFacts DEF Locals
<1>9. /\ k \in Links
      /\ ring'[k].prev = h /\ ring'[k].next = ring[k].next /\ ring'[k].state = ring[k].state
      /\ \A j \in Links : j # k => ring'[j] = ring[j]
  <2>1. k \in Links BY <1>4, <1>7
  <2>2. ring[k] \in NodeRecs BY <2>1, TypeFacts
  <2> QED BY <1>1, <2>1, <2>2 DEF Stored, NodeRecs
<1>10. \A j \in Links : ring'[j].state = ring[j].state /\ ring'[j].next = ring[j].next BY <1>9
<1>11. (ForthOK(s))' BY <1>4, <1>10 DEF ForthOK
<1>12. (BackOK(Drop(s, n)))'
  <2>0. PICK t : t = Drop(s, n) OBVIOUS
  <2>1. /\ Sequential(t) /\ Len(t) = Len(s) - 1
        /\ \A j \in 0 .. n - 1 : At(t, j) = At(s, j)
        /\ \A j \in n .. Len(s) : At(t, j) = At(s, j + 1)
    BY <1>4, <2>0, AtDrop
  <2>2. ASSUME NEW j \in 1 .. Len(t) + 1 PROVE ring'[At(t, j)].prev = At(t, j - 1)
    <3>1. CASE j < n
      <4>1. /\ j \in 1 .. Len(s) + 1 /\ n + 1 \in 1 .. Len(s) + 1 /\ j # n + 1
            /\ j \in 0 .. n - 1 /\ j - 1 \in 0 .. n - 1
        BY <1>4, <3>1
      <4>2. At(s, j) # k BY <1>4, <1>7, <4>1, AtDistinct
      <4> QED BY <1>4, <1>5, <1>9, <2>1, <4>1, <4>2 DEF BackOK
    <3>2. CASE j = n
      <4>1. n \in n .. Len(s) /\ n - 1 \in 0 .. n - 1 BY <1>4
      <4> QED BY <1>7, <1>9, <2>1, <3>2, <4>1
    <3>3. CASE j > n
      <4>1. /\ j + 1 \in 1 .. Len(s) + 1 /\ n + 1 \in 1 .. Len(s) + 1 /\ j + 1 # n + 1
            /\ j \in n .. Len(s) /\ j - 1 \in n .. Len(s) /\ (j + 1) - 1 = j /\ (j - 1) + 1 = j
        BY <1>4, <2>1, <3>3
      <4>2. At(s, j + 1) # k BY <1>4, <1>7, <4>1, AtDistinct
      <4>3. ring[At(s, j + 1)].prev = At(s, j) BY <1>5, <4>1 DEF BackOK
      <4>4. At(t, j) = At(s, j + 1) /\ At(t, j - 1) = At(s, j) BY <2>1, <4>1
      <4> QED BY <1>4, <1>9, <4>2, <4>3, <4>4
    <3> QED BY <3>1, <3>2, <3>3
  <2>3. (BackOK(t))' BY <2>2 DEF BackOK
  <2> QED BY <2>0, <2>3
<1>13. (WalkAt(p, s, n))' BY <1>6, <1>8 DEF WalkAt
<1>14. (Phase(p, s))' BY <1>1, <1>7, <1>8, <1>11, <1>12, <1>13 DEF Phase
<1>15. misuse' => misuse
  <2>1. \A j \in {i, k} : ring[j].state = "live" BY <1>4, <1>7
  <2> QED BY <1>1, <2>1, Zenon
<1>16. (Writer(p))' BY <1>3, <1>8 DEF Writer
<1> QED BY <1>1, <1>3, <1>4, <1>8, <1>10, <1>11, <1>14, <1>15, <1>16, RingStays

LEMMA UnlinkRing ==
    ASSUME Types, NEW p \in Procs, InPlace(p), NEW s, Holding(p, s), Unlink(p)
    PROVE  \E t : Changed(p, s, t)
<1>0. PICK i, h, k : i = loc[p].pos /\ h = loc[p].prev /\ k = loc[p].succ OBVIOUS
<1>1. /\ Stepping(p) /\ loaded' = loaded /\ misuse' = (misuse \/ ring[h].state # "live")
      /\ pc[p] = "unlink" /\ pc'[p] = "free" /\ loc'[p] = loc[p]
      /\ \A j \in Links :
           /\ ring'[j].prev = ring[j].prev
           /\ ring'[j].next = IF j = h THEN k ELSE ring[j].next
           /\ ring'[j].state = IF j = i THEN "poisoned" ELSE ring[j].state
  BY <1>0, UnlinkEffect
<1>3. Writer(p) /\ loc[p].op # "add" BY <1>1 DEF InPlace, Writer, Adding, Deleting, Listing
<1>4. /\ Sequential(s) /\ s \in Seq(Nodes) /\ Len(s) \in Nat /\ Phase(p, s) /\ ForthOK(s)
      /\ \A j : At(s, j) \in Links /\ ring[At(s, j)].state = "live"
      /\ Range(s) \subseteq Live
  BY <1>3, HoldingFacts DEF Holding
<1>5. PICK n \in 1 .. Len(s) : /\ WalkAt(p, s, n) /\ BackOK(Drop(s, n))
                               /\ h = At(s, n - 1) /\ k = At(s, n + 1)
  BY <1>0, <1>1, <1>4 DEF Phase
<1>6. PICK t : t = Drop(s, n) OBVIOUS
<1>7. /\ Sequential(t) /\ Len(t) = Len(s) - 1
      /\ \A j \in 0 .. n - 1 : At(t, j) = At(s, j)
      /\ \A j \in n .. Len(s) : At(t, j) = At(s, j + 1)
      /\ Range(t) = Range(s) \ {At(s, n)}
  BY <1>4, <1>6, AtDrop
<1>8. i = At(s, n) /\ loc[p].aux = At(s, n + 1) /\ (loc[p].v = Every => n = 1)
  BY <1>0, <1>4, <1>5 DEF WalkAt
<1>9. i \in Nodes /\ i \in Live BY <1>4, <1>8, AtFacts
<1>10. t \in Seq(Nodes) /\ \A j : At(t, j) \in Links BY <1>7, AtFacts DEF Sequential
<1>11. (ForthOK(t))'
  <2>1. ASSUME NEW j \in 0 .. Len(t) PROVE ring'[At(t, j)].next = At(t, j + 1)
    <3>1. CASE j < n - 1
      <4>1. /\ j \in 0 .. n - 1 /\ j + 1 \in 0 .. n - 1 /\ j \in 0 .. Len(s)
            /\ n - 1 \in 0 .. Len(s) /\ j # n - 1
        BY <1>4, <3>1
      <4>2. At(s, j) # h BY <1>4, <1>5, <4>1, AtDistinct
      <4> QED BY <1>1, <1>4, <1>7, <4>1, <4>2 DEF ForthOK
    <3>2. CASE j = n - 1
      <4>1. j \in 0 .. n - 1 /\ j + 1 = n /\ n \in n .. Len(s) BY <1>4, <3>2
      <4>2. At(t, j) = h /\ At(t, j + 1) = k BY <1>5, <1>7, <3>2, <4>1
      <4> QED BY <1>1, <1>10, <4>2
    <3>3. CASE j >= n
      <4>1. /\ j \in n .. Len(s) /\ j + 1 \in n .. Len(s) /\ j + 1 \in 0 .. Len(s)
            /\ n - 1 \in 0 .. Len(s) /\ j + 1 # n - 1
        BY <1>4, <1>7, <3>3
      <4>2. At(s, j + 1) # h BY <1>4, <1>5, <4>1, AtDistinct
      <4>3. At(t, j) = At(s, j + 1) /\ At(t, j + 1) = At(s, (j + 1) + 1) BY <1>7, <4>1
      <4>4. ring[At(s, j + 1)].next = At(s, (j + 1) + 1) BY <1>4, <4>1 DEF ForthOK
      <4> QED BY <1>1, <1>4, <4>2, <4>3, <4>4
    <3> QED BY <3>1, <3>2, <3>3
  <2> QED BY <2>1 DEF ForthOK
<1>12. (BackOK(t))'
  <2>1. BackOK(t) BY <1>5, <1>6
  <2> QED BY <1>1, <1>10, <2>1 DEF BackOK
<1>13. Live' = Live \ {i}
  <2>1. \A j \in Nodes : ring'[j].state = IF j = i THEN "poisoned" ELSE ring[j].state BY <1>1 DEF Links
  <2> QED BY <2>1 DEF Live
<1>16. \A j \in Nodes : ring'[j].state = "unused" <=> ring[j].state = "unused"
  BY <1>1, <1>9 DEF Links, Live
<1>18. (Phase(p, t))'
  <2>1. /\ n \in 1 .. Len(t) + 1 /\ loc'[p].aux = At(t, n) /\ (loc'[p].v = Every => n = 1)
        /\ ring'[loc'[p].pos].state = "poisoned"
    BY <1>0, <1>1, <1>4, <1>7, <1>8, <1>9 DEF Links
  <2> QED BY <1>1, <1>11, <1>12, <2>1 DEF Phase
<1>19. misuse' => misuse BY <1>1, <1>4, <1>5
<1>20. (Writer(p))' BY <1>1, <1>3 DEF Writer
<1>21. pc'[p] # "unlist" BY <1>1
<1> QED BY <1>3, <1>6, <1>7, <1>8, <1>11, <1>13, <1>16, <1>18, <1>19, <1>20, <1>21 DEF Changed

LEMMA FreeRing ==
    ASSUME Types, NEW p \in Procs, InPlace(p), NEW s, Holding(p, s), Free(p)
    PROVE  \E t : Changed(p, s, t)
<1>0. PICK i, h : i = loc[p].pos /\ h = loc[p].aux OBVIOUS
<1>1. /\ Stepping(p) /\ loaded' = loaded
      /\ misuse' = (misuse \/ ring[i].state = "freed" \/ ring[h].state # "live")
      /\ pc[p] = "free" /\ pc'[p] = "walk"
      /\ loc'[p] = [loc[p] EXCEPT !.pos = h, !.aux = ring[h].next, !.prev = Head0, !.succ = Head0]
      /\ Stored(i, [Unused EXCEPT !.state = "freed"])
  BY <1>0, FreeEffect
<1>3. Writer(p) /\ loc[p].op # "add" BY <1>1 DEF InPlace, Writer, Adding, Deleting, Listing
<1>4. /\ Sequential(s) /\ s \in Seq(Nodes) /\ Len(s) \in Nat /\ Phase(p, s) /\ ForthOK(s)
      /\ \A j : At(s, j) \in Links /\ ring[At(s, j)].state = "live"
  BY <1>3, HoldingFacts
<1>5. BackOK(s) /\ ring[i].state = "poisoned" BY <1>0, <1>1, <1>4 DEF Phase
<1>6. PICK k \in 1 .. Len(s) + 1 : h = At(s, k) /\ (loc[p].v = Every => k = 1)
  BY <1>0, <1>1, <1>4 DEF Phase
<1>7. i \in Links /\ i # Head0 BY <1>0, <1>1, TypeFacts DEF InPlace
<1>8. ring'[i].state = "freed" /\ \A j \in Links : j # i => ring'[j] = ring[j]
  BY <1>1 DEF Stored, Unused
<1>9. \A j : ring'[At(s, j)] = ring[At(s, j)] BY <1>4, <1>5, <1>8
<1>10. (ForthOK(s))' /\ (BackOK(s))' BY <1>4, <1>5, <1>9 DEF ForthOK, BackOK
<1>11. /\ loc'[p].op = loc[p].op /\ loc'[p].new = loc[p].new /\ loc'[p].v = loc[p].v
       /\ loc'[p].pos = h /\ loc'[p].aux = ring[h].next
  <2> DEFINE m == loc[p]
             x == ring[h].next
  <2>1. m \in Locals BY TypeFacts
  <2>2. loc'[p] = [m EXCEPT !.pos = h, !.aux = x, !.prev = Head0, !.succ = Head0] BY <1>1
  <2> HIDE DEF m, x
  <2>3. LET l == [m EXCEPT !.pos = h, !.aux = x, !.prev = Head0, !.succ = Head0]
        IN  l.op = m.op /\ l.new = m.new /\ l.v = m.v /\ l.pos = h /\ l.aux = x
    BY <2>1 DEF Locals
  <2> QED BY <2>2, <2>3 DEF m, x
<1>12. (WalkAt(p, s, k))'
  <2>1. k <= Len(s) => k \in 0 .. Len(s) BY <1>4
  <2> QED BY <1>4, <1>6, <1>11, <2>1 DEF WalkAt, ForthOK
<1>13. (Phase(p, s))' BY <1>1, <1>10, <1>12 DEF Phase
<1>14. Live' = Live
  <2>1. \A j \in Nodes : ring'[j].state = IF j = i THEN "freed" ELSE ring[j].state BY <1>8 DEF Links
  <2>2. \A j \in Nodes : ring'[j].state = "live" <=> ring[j].state = "live" BY <1>5, <2>1
  <2> QED BY <2>2 DEF Live
<1>17. \A j \in Nodes : ring'[j].state = "unused" <=> ring[j].state = "unused"
  BY <1>5, <1>8 DEF Links
<1>19. misuse' => misuse
  <2>1. ring[i].state # "freed" /\ ring[h].state = "live" BY <1>4, <1>5, <1>6
  <2> QED BY <1>1, <2>1, Zenon
<1>20. (Writer(p))' BY <1>3, <1>11 DEF Writer
<1>21. pc'[p] # "unlist" BY <1>1
<1> QED BY <1>3, <1>4, <1>10, <1>13, <1>14, <1>17, <1>19, <1>20, <1>21 DEF Changed

LEMMA WriterRing ==
    ASSUME Types, NEW p \in Procs, InPlace(p), NEW s, Holding(p, s),
           First(p) \/ AddStep(p) \/ Walk(p) \/ Del(p) \/ Unlink(p) \/ Free(p),
           loc[p].op # "read"
    PROVE  \E t : Changed(p, s, t)
BY FirstRing, AddPrevRing, AddHeadRing, AddNodeRing, AddLinkRing, WalkRing, DelRing, UnlinkRing,
   FreeRing
   DEF AddStep

-----------------------------------------------------------------------------
(* The one writer of modlist.c. *)

\* The list is what the writer sees: all that is live but its own new node.
LEMMA WriterHolds ==
    ASSUME IInv, overlap < 3, NEW p \in Procs, Writer(p), NEW s, ListIs(s)
    PROVE  /\ Holding(p, s) /\ Range(s) = Live \ {loc[p].new}
           /\ loc[p].op # "add" => Range(s) = Live
<1>1. Sequential(s) /\ Range(s) = Live \ Pending /\ Phase(p, s) BY DEF ListIs, Lists
<1>2. \A q \in Procs : q # p => loc[q].new = Head0
  BY WriterAlone DEF IInv, Control, InPlace, Writer
<1>3. Head0 \notin Live BY DEF Live, Head0, Nodes
<1>4. Range(s) = Live \ {loc[p].new}
  <2>1. loc[p].new \in Pending /\ \A x \in Pending : x = Head0 \/ x = loc[p].new BY <1>2 DEF Pending
  <2> QED BY <1>1, <1>3, <2>1
<1>5. loc[p].op = "add" => loc[p].new \in Live BY DEF ListIs, Lists
<1>6. loc[p].op # "add" => loc[p].new = Head0 BY DEF IInv, Control, InPlace
<1> QED BY <1>1, <1>3, <1>4, <1>5, <1>6 DEF Holding

\* A read goes on seeing what it saw, if no node leaves the list.
LEMMA SeenGrows ==
    ASSUME NEW q \in Procs, NEW s, NEW t, Seen(q, s), Range(s) \subseteq Range(t),
           pc'[q] = pc[q], loc'[q] = loc[q]
    PROVE  (Seen(q, t))'
BY DEF Seen, HasSeen, Listing

\* What the change of the list leaves of the nodes and their order.
LEMMA ChangedNodes ==
    ASSUME IInv, overlap < 3, NEW p \in Procs, Writer(p), Stepping(p), NEW s, ListIs(s),
           NEW t, Changed(p, s, t)
    PROVE  /\ (Range(t) = Live \ {loc[p].new})' /\ (loc[p].op = "add" => loc[p].new \in Live)'
           /\ \A i, j \in 1 .. Len(t) : i < j => t[i] < t[j]
           /\ (loc[p].op = "add" => \A i \in 1 .. Len(t) : t[i] < loc[p].new)'
           /\ loc[p].op = "add" => Range(s) \subseteq Range(t)
<1>1. Holding(p, s) /\ Range(s) = Live \ {loc[p].new} /\ (loc[p].op # "add" => Range(s) = Live)
  BY WriterHolds
<1>2. Types /\ Types' /\ InPlace(p) /\ (InPlace(p))' /\ loc'[p].op \in {loc[p].op, "none"}
  BY DEF IInv, Control, Stepping
<1>3. /\ Sequential(s) /\ s \in Seq(Nodes) /\ Len(s) \in Nat
      /\ loc[p].op = "add" => loc[p].new \in Live \ Range(s)
  BY <1>1, <1>2, HoldingFacts
<1>4. /\ \A i, j \in 1 .. Len(s) : i < j => s[i] < s[j]
      /\ loc[p].op = "add" => \A i \in 1 .. Len(s) : s[i] < loc[p].new
  BY DEF ListIs, InOrder
<1>5. Head0 \notin Live /\ Head0 \notin Live' BY DEF Live, Head0, Nodes
<1>6. loc'[p].op # "add" => loc'[p].new = Head0 BY <1>2 DEF InPlace
<1>7. CASE /\ t = s /\ Live' = Live
           /\ loc[p].op = "add" => loc'[p].op = "add" /\ loc'[p].new = loc[p].new
  BY <1>1, <1>2, <1>3, <1>4, <1>5, <1>6, <1>7
<1>8. CASE loc[p].op = "add" /\ loc'[p].op = "none" /\ t = Append(s, loc[p].new) /\ Live' = Live
  <2>1. PICK new : new = loc[p].new OBVIOUS
  <2>2. new \in Nodes /\ new \in Live BY <1>3, <1>8, <2>1 DEF Live
  <2>3. /\ Len(t) = Len(s) + 1 /\ Range(t) = Range(s) \cup {new}
        /\ \A i \in 1 .. Len(s) : t[i] = s[i]
        /\ t[Len(s) + 1] = new
    BY <1>3, <1>8, <2>1, <2>2, AtAppend
  <2>4. \A i, j \in 1 .. Len(t) : i < j => t[i] < t[j] BY <1>3, <1>4, <1>8, <2>1, <2>3
  <2>5. (Range(t) = Live \ {loc[p].new})' BY <1>1, <1>5, <1>6, <1>8, <2>1, <2>2, <2>3
  <2> QED BY <1>8, <2>3, <2>4, <2>5
<1>9. ASSUME loc[p].op # "add", NEW k \in 1 .. Len(s), t = Drop(s, k), Live' = Live \ {At(s, k)}
      PROVE  /\ (Range(t) = Live \ {loc[p].new})' /\ loc'[p].op # "add"
             /\ \A i, j \in 1 .. Len(t) : i < j => t[i] < t[j]
  <2>1. Len(t) = Len(s) - 1 /\ Range(t) = Range(s) \ {At(s, k)} BY <1>3, <1>9, AtDrop
  <2>2. \A a \in 1 .. Len(s) - 1 : t[a] = IF a < k THEN s[a] ELSE s[a + 1] BY <1>9 DEF Drop
  <2>3. ASSUME NEW i \in 1 .. Len(t), NEW j \in 1 .. Len(t), i < j PROVE t[i] < t[j]
    <3>1. PICK n \in Nat : n = Len(s) BY <1>3
    <3>2. i \in 1 .. n - 1 /\ j \in 1 .. n - 1 /\ k \in 1 .. n BY <2>1, <3>1
    <3>3. PICK a, b \in 1 .. n : /\ a = (IF i < k THEN i ELSE i + 1)
                                /\ b = (IF j < k THEN j ELSE j + 1)
      BY <3>2
    <3>4. a < b BY <2>3, <3>2, <3>3
    <3>5. t[i] = s[a] /\ t[j] = s[b] BY <2>2, <3>1, <3>2, <3>3
    <3> QED BY <1>4, <3>1, <3>3, <3>4, <3>5
  <2>4. loc'[p].op # "add" BY <1>2, <1>9
  <2> QED BY <1>1, <1>5, <1>6, <1>9, <2>1, <2>3, <2>4
<1> QED BY <1>7, <1>8, <1>9 DEF Changed

LEMMA WriterKeeps ==
    ASSUME IInv, overlap < 3, NEW p \in Procs, Writer(p), Stepping(p), loaded' = loaded,
           NEW s, ListIs(s), NEW t, Changed(p, s, t)
    PROVE  UnloadInv' /\ (\E u \in Seq(Nodes) : ListIs(u))' /\ (overlap' < 2 => ~misuse')
<1>1. \A q \in Procs : q # p => pc'[q] = pc[q] /\ loc'[q] = loc[q] /\ ~Writer(q)
  BY WriterAlone DEF IInv, Stepping, Frame
<1>2. Control BY DEF IInv
<1>3. \A q \in Procs : q # p => ~(Writer(q))' /\ loc'[q].new = Head0 /\ loc'[q].op # "add"
  BY <1>1, <1>2 DEF Control, InPlace, Writer
<1>4. Head0 \notin Live' BY DEF Live, Head0, Nodes
<1>5. /\ (Range(t) = Live \ {loc[p].new})' /\ (loc[p].op = "add" => loc[p].new \in Live)'
      /\ \A i, j \in 1 .. Len(t) : i < j => t[i] < t[j]
      /\ (loc[p].op = "add" => \A i \in 1 .. Len(t) : t[i] < loc[p].new)'
      /\ loc[p].op = "add" => Range(s) \subseteq Range(t)
  BY ChangedNodes
<1>6. (Lists(t))'
  <2>1. (Pending \ {Head0} = {loc[p].new} \ {Head0})' BY <1>3 DEF Pending
  <2>2. (Range(t) = Live \ Pending)' BY <1>4, <1>5, <2>1
  <2>3. (\A q \in Procs : loc[q].op = "add" => loc[q].new \in Live)' BY <1>3, <1>5
  <2> QED BY <2>2, <2>3 DEF Lists, Sequential, Changed
<1>7. (InOrder(t))' BY <1>3, <1>5 DEF InOrder, ListIs, Changed
<1>8. \A q \in Procs : (Writer(q) => Phase(q, t))' BY <1>3 DEF Changed
<1>9. ((\A q \in Procs : ~Writer(q)) => BackOK(t))' BY DEF Changed
<1>10. ASSUME overlap < 2, NEW q \in Procs, loc'[q].op = "read" PROVE (Seen(q, t))'
  <2>1. q # p /\ loc[q].op = "read" BY <1>1, <1>10 DEF Stepping, Writer
  <2>2. Seen(q, s) BY <1>10, <2>1 DEF ListIs
  <2>3. loc[p].op = "add" BY <1>10, <2>1, WriterAlone DEF IInv
  <2> QED BY <1>1, <1>5, <2>1, <2>2, <2>3, SeenGrows
<1>11. overlap' = overlap BY DEF Stepping
<1>12. (ListIs(t))' BY <1>6, <1>7, <1>8, <1>9, <1>10, <1>11 DEF ListIs, Changed
<1>13. UnloadInv'
  <2>1. InCall(p) /\ UnloadInv BY <1>2 DEF Control, InPlace, InCall, Writer, IInv, ListInv
  <2>2. loaded BY <2>1 DEF UnloadInv
  <2>3. \A q \in Procs : pc'[q] = "unlist" => q = p
    BY <1>1, <1>2 DEF Control, InPlace, Writer
  <2>4. pc'[p] = "unlist" => Live' = {}
    <3>1. SUFFICES ASSUME pc'[p] = "unlist" PROVE Live' = {} OBVIOUS
    <3>2. loc'[p].op = "unload" /\ loc[p].op # "add"
      BY <3>1 DEF Stepping, InPlace
    <3>3. Range(s) = {} /\ Range(s) = Live BY <3>1, <3>2, WriterHolds DEF Changed
    <3> QED BY <3>2, <3>3 DEF Changed
  <2> QED BY <2>2, <2>3, <2>4 DEF UnloadInv
<1>14. t \in Seq(Nodes) BY DEF Changed, Sequential
<1>15. overlap' < 2 => ~misuse' BY <1>11 DEF Changed, IInv, ListInv
<1> QED BY <1>12, <1>13, <1>14, <1>15

LEMMA WriteKeeps ==
    ASSUME IInv, NEW p \in Procs, overlap' < 3,
           First(p) \/ AddStep(p) \/ Walk(p) \/ Del(p) \/ Unlink(p) \/ Free(p), loc[p].op # "read"
    PROVE  UnloadInv' /\ (\E s \in Seq(Nodes) : ListIs(s))' /\ (overlap' < 2 => ~misuse')
<1>1. Types /\ InPlace(p) BY DEF IInv, Control
<1>2. Step(p) BY DEF Step, DeleteStep
<1>3. Stepping(p) /\ InCall(p) BY <1>1, <1>2, StepStepping
<1>4. overlap < 3 BY <1>3 DEF Stepping
<1>5. Writer(p) BY <1>1, <1>3 DEF InCall, InPlace, Writer, Types, Locals, Ops
<1>6. PICK s : ListIs(s) BY <1>4 DEF IInv, ListInv
<1>7. PICK t : Changed(p, s, t) BY <1>1, <1>4, <1>5, <1>6, WriterHolds, WriterRing
<1>8. loaded' = loaded
  BY DEF First, AddStep, AddPrev, AddHead, AddNode, AddLink, Walk, Del, Unlink, Free
<1> QED BY <1>3, <1>4, <1>5, <1>6, <1>7, <1>8, WriterKeeps

-----------------------------------------------------------------------------
(* Calls, reads, and the unloading. *)

\* A call that will write finds nobody who writes.
LEMMA WriterEnters ==
    ASSUME IInv, overlap' < 3, NEW p \in Procs, NEW place \in PCs, NEW l \in Locals,
           Enter(p, place, l), l.op \in {"add", "delete", "unload"}
    PROVE  /\ overlap < 3 /\ ListInv
           /\ \A q \in Procs : ~Writer(q) /\ loc[q].new = Head0
           /\ \A q \in Procs : q # p => pc'[q] = pc[q] /\ loc'[q] = loc[q]
           /\ pc'[p] = place /\ loc'[p] = l /\ misuse' = misuse
           /\ overlap' < 2 => overlap < 2
<1>1. /\ pc[p] = "idle" /\ pc'[p] = place /\ loc'[p] = l /\ Frame(p)
      /\ overlap' \in 0 .. 3 /\ overlap <= overlap'
      /\ \A q \in Procs \ {p} : InCall(q) => Clash(l.op, loc[q].op) <= overlap'
      /\ misuse' = misuse
  BY EnterFacts DEF IInv
<1>2. Control /\ overlap \in 0 .. 3 /\ ListInv BY DEF IInv, Types
<1>3. ASSUME NEW q \in Procs PROVE ~Writer(q)
  <2>1. CASE q = p BY <1>1, <1>2, <2>1 DEF Control, InPlace, Writer
  <2>2. CASE q # p
    <3>1. SUFFICES ASSUME Writer(q) PROVE FALSE OBVIOUS
    <3>2. InCall(q) BY <1>2, <3>1 DEF Control, InPlace, InCall, Writer
    <3>3. Clash(l.op, loc[q].op) = 3 BY <3>1 DEF Clash, Writer
    <3> QED BY <1>1, <2>2, <3>2, <3>3
  <2> QED BY <2>1, <2>2
<1>4. \A q \in Procs : loc[q].new = Head0 BY <1>2, <1>3 DEF Control, InPlace, Writer
<1> QED BY <1>1, <1>2, <1>3, <1>4 DEF Frame

LEMMA CallAddKeeps ==
    ASSUME IInv, NEW p \in Procs, CallAdd(p), overlap' < 3
    PROVE  UnloadInv' /\ (\E s \in Seq(Nodes) : ListIs(s))' /\ (overlap' < 2 => ~misuse')
<1>1. PICK i \in Nodes, v \in Values :
          /\ ring[i].state = "unused" /\ \A j \in 1 .. i - 1 : ring[j].state # "unused"
          /\ ring' = [ring EXCEPT ![i].state = "live", ![i].data = v]
          /\ Enter(p, "prev", [NoLocals EXCEPT !.op = "add", !.new = i])
          /\ loaded' = loaded
  BY DEF CallAdd
<1>2. PICK l \in Locals : l = [NoLocals EXCEPT !.op = "add", !.new = i] BY CallTypes
<1>3. l.op = "add" /\ l.new = i /\ "prev" \in PCs BY <1>2 DEF NoLocals, PCs, Adding
<1>4. /\ overlap < 3 /\ ListInv
      /\ \A q \in Procs : ~Writer(q) /\ loc[q].new = Head0
      /\ \A q \in Procs : q # p => pc'[q] = pc[q] /\ loc'[q] = loc[q]
      /\ pc'[p] = "prev" /\ loc'[p] = l /\ misuse' = misuse
      /\ overlap' < 2 => overlap < 2
  <2>1. Enter(p, "prev", l) /\ l.op \in {"add", "delete", "unload"} BY <1>1, <1>2, <1>3
  <2> QED BY <1>3, <2>1, WriterEnters
<1>5. loaded BY <1>1 DEF Enter
<1>6. PICK s \in Seq(Nodes) : ListIs(s) BY <1>4 DEF ListInv
<1>7. /\ i \in Links /\ i # Head0 /\ Head0 \notin Live BY DEF Links, Head0, Nodes, Live
<1>8. /\ ring'[i].state = "live" /\ ring'[i].next = ring[i].next /\ ring'[i].prev = ring[i].prev
      /\ \A j \in Links : j # i => ring'[j] = ring[j]
  <2> DEFINE r == ring[i]
  <2>1. r \in NodeRecs /\ ring \in [Links -> NodeRecs] BY <1>7 DEF IInv, Types
  <2>2. ring'[i] = [r EXCEPT !.state = "live", !.data = v] /\ \A j \in Links : j # i => ring'[j] = ring[j]
    BY <1>1, <1>7, <2>1
  <2> HIDE DEF r
  <2>3. LET n == [r EXCEPT !.state = "live", !.data = v]
        IN  n.state = "live" /\ n.next = r.next /\ n.prev = r.prev
    BY <2>1 DEF NodeRecs
  <2> QED BY <2>2, <2>3 DEF r
<1>9. \A j \in Links : ring'[j].next = ring[j].next /\ ring'[j].prev = ring[j].prev BY <1>8
<1>10. Live' = Live \cup {i} /\ i \notin Live
  <2>1. \A j \in Nodes : ring'[j].state = IF j = i THEN "live" ELSE ring[j].state BY <1>8 DEF Links
  <2> QED BY <1>1, <2>1 DEF Live
<1>11. Range(s) = Live
  <2>1. Range(s) = Live \ Pending BY <1>6 DEF ListIs, Lists
  <2>2. \A x \in Pending : x = Head0 BY <1>4 DEF Pending
  <2> QED BY <1>7, <2>1, <2>2
<1>12. (Lists(s))'
  <2>1. \A x \in Pending' : x = Head0 \/ x = i BY <1>3, <1>4 DEF Pending
  <2>2. i \in Pending' BY <1>3, <1>4 DEF Pending
  <2>3. (Range(s) = Live \ Pending)' BY <1>7, <1>10, <1>11, <2>1, <2>2
  <2>4. ASSUME NEW q \in Procs, loc'[q].op = "add" PROVE loc'[q].new \in Live'
    BY <1>3, <1>4, <1>10, <2>4 DEF Writer
  <2>5. Sequential(s) BY <1>6 DEF ListIs, Lists
  <2> QED BY <2>3, <2>4, <2>5 DEF Lists, Sequential
<1>13. (InOrder(s))'
  <2>1. /\ \A a, b \in Nodes : a < b /\ ring[a].state = "unused" => ring[b].state = "unused"
        /\ \A a, b \in 1 .. Len(s) : a < b => s[a] < s[b]
    BY <1>6 DEF ListIs, InOrder
  <2>2. \A j \in Nodes : ring'[j].state = IF j = i THEN "live" ELSE ring[j].state BY <1>8 DEF Links
  <2>3. ASSUME NEW a \in Nodes, NEW b \in Nodes, a < b, ring'[a].state = "unused"
        PROVE  ring'[b].state = "unused"
    <3>1. a # i /\ ring[a].state = "unused" BY <2>2, <2>3
    <3>2. b # i BY <1>1, <2>3, <3>1 DEF Nodes
    <3> QED BY <2>1, <2>2, <2>3, <3>1, <3>2
  <2>4. ASSUME NEW a \in 1 .. Len(s) PROVE s[a] < i
    <3>1. s[a] \in Live /\ s[a] \in Nodes BY <1>11, AtFacts DEF Live
    <3>2. ring[s[a]].state = "live" BY <3>1 DEF Live
    <3>3. ~(i < s[a]) BY <1>1, <2>1, <3>1, <3>2
    <3> QED BY <1>10, <3>1, <3>3 DEF Nodes
  <2>5. ASSUME NEW q \in Procs, loc'[q].op = "add" PROVE loc'[q].new = i
    BY <1>3, <1>4, <2>5 DEF Writer
  <2> QED BY <2>1, <2>3, <2>4, <2>5 DEF InOrder
<1>14. ForthOK(s) /\ BackOK(s) BY <1>4, <1>6 DEF ListIs
<1>15. (ForthOK(s))' /\ (BackOK(s))'
  <2>1. \A j : At(s, j) \in Links BY AtFacts
  <2> QED BY <1>9, <1>14, <2>1 DEF ForthOK, BackOK
<1>16. (Phase(p, s))' BY <1>4, <1>15 DEF Phase
<1>17. \A q \in Procs : (Writer(q))' => q = p BY <1>4 DEF Writer
<1>18. ASSUME overlap' < 2, NEW q \in Procs, loc'[q].op = "read" PROVE (Seen(q, s))'
  <2>1. q # p BY <1>3, <1>4, <1>18
  <2>2. Seen(q, s) BY <1>4, <1>6, <1>18, <2>1 DEF ListIs
  <2> QED BY <1>4, <2>1, <2>2, SeenGrows
<1>19. (ListIs(s))' BY <1>12, <1>13, <1>15, <1>16, <1>17, <1>18 DEF ListIs
<1>20. UnloadInv'
  <2>1. \A q \in Procs : pc'[q] # "unlist" BY <1>4 DEF IInv, Control, InPlace, Writer
  <2> QED BY <1>1, <1>5, <2>1 DEF UnloadInv
<1>21. overlap' < 2 => ~misuse' BY <1>4 DEF ListInv
<1>22. s \in Seq(Nodes) BY <1>6
<1> QED BY <1>19, <1>20, <1>21, <1>22

LEMMA CallDeleteKeeps ==
    ASSUME IInv, NEW p \in Procs, CallRemove(p) \/ CallUnload(p), overlap' < 3
    PROVE  UnloadInv' /\ (\E s \in Seq(Nodes) : ListIs(s))' /\ (overlap' < 2 => ~misuse')
<1>1. PICK l \in Locals : Enter(p, "first", l) /\ l.op \in {"delete", "unload"} /\ l.new = Head0
  <2>1. CASE CallRemove(p)
    <3>1. PICK v \in Values \cup {Every} : Enter(p, "first", [NoLocals EXCEPT !.op = "delete", !.v = v])
      BY <2>1 DEF CallRemove
    <3> QED BY <3>1, CallTypes DEF NoLocals
  <2>2. CASE CallUnload(p)
    <3>1. Enter(p, "first", [NoLocals EXCEPT !.op = "unload"]) BY <2>2 DEF CallUnload
    <3> QED BY <3>1, CallTypes DEF NoLocals
  <2> QED BY <2>1, <2>2
<1>2. UNCHANGED <<ring, loaded>> BY DEF CallRemove, CallUnload
<1>3. "first" \in PCs BY DEF PCs
<1>4. /\ overlap < 3 /\ ListInv
      /\ \A q \in Procs : ~Writer(q) /\ loc[q].new = Head0
      /\ \A q \in Procs : q # p => pc'[q] = pc[q] /\ loc'[q] = loc[q]
      /\ pc'[p] = "first" /\ loc'[p] = l /\ misuse' = misuse
      /\ overlap' < 2 => overlap < 2
  BY <1>1, <1>3, WriterEnters
<1>5. loaded BY <1>1 DEF Enter
<1>6. PICK s \in Seq(Nodes) : ListIs(s) BY <1>4 DEF ListInv
<1>7. Live' = Live BY <1>2 DEF Live
<1>8. Head0 \notin Live BY DEF Live, Head0, Nodes
<1>9. (Lists(s))'
  <2>1. Lists(s) BY <1>6 DEF ListIs
  <2>2. \A x \in Pending \cup Pending' : x = Head0 BY <1>1, <1>4 DEF Pending
  <2>3. \A q \in Procs : loc'[q].op # "add" BY <1>1, <1>4 DEF Writer
  <2> QED BY <1>7, <1>8, <2>1, <2>2, <2>3 DEF Lists, Sequential
<1>10. (InOrder(s))'
  <2>1. InOrder(s) BY <1>6 DEF ListIs
  <2>2. \A q \in Procs : loc'[q].op # "add" BY <1>1, <1>4 DEF Writer
  <2> QED BY <1>2, <2>1, <2>2 DEF InOrder
<1>11. (ForthOK(s))' /\ (BackOK(s))'
  <2>1. ForthOK(s) /\ BackOK(s) BY <1>4, <1>6 DEF ListIs
  <2> QED BY <1>2, <2>1, SameLinks
<1>12. (Phase(p, s))' BY <1>4, <1>11 DEF Phase
<1>13. \A q \in Procs : (Writer(q))' => q = p BY <1>4 DEF Writer
<1>14. ASSUME overlap' < 2, NEW q \in Procs, loc'[q].op = "read" PROVE (Seen(q, s))'
  <2>1. q # p BY <1>1, <1>4, <1>14
  <2>2. Seen(q, s) BY <1>4, <1>6, <1>14, <2>1 DEF ListIs
  <2> QED BY <1>4, <2>1, <2>2, SeenGrows
<1>15. (ListIs(s))' BY <1>9, <1>10, <1>11, <1>12, <1>13, <1>14 DEF ListIs
<1>16. UnloadInv'
  <2>1. \A q \in Procs : pc'[q] # "unlist" BY <1>4 DEF IInv, Control, InPlace, Writer
  <2> QED BY <1>2, <1>5, <2>1 DEF UnloadInv
<1>17. overlap' < 2 => ~misuse' BY <1>4 DEF ListInv
<1>18. s \in Seq(Nodes) BY <1>6
<1> QED BY <1>15, <1>16, <1>17, <1>18

\* A read changes no node: what the others see is as it was.
LEMMA ReadLists ==
    ASSUME IInv, overlap < 3, NEW p \in Procs, ring' = ring, loaded' = loaded, Frame(p),
           ~Writer(p), loc[p].new = Head0, loc'[p].op \in {"read", "none"}, loc'[p].new = Head0,
           pc'[p] # "unlist",
           overlap' < 2 => overlap < 2 /\ ~misuse',
           (InCall(p))' => loaded,
           NEW s \in Seq(Nodes), ListIs(s),
           overlap' < 2 /\ loc'[p].op = "read" => (Seen(p, s))'
    PROVE  UnloadInv' /\ (\E t \in Seq(Nodes) : ListIs(t))' /\ (overlap' < 2 => ~misuse')
<1>1. \A q \in Procs : q # p => pc'[q] = pc[q] /\ loc'[q] = loc[q] BY DEF Frame
<1>2. Live' = Live BY DEF Live
<1>3. Pending' = Pending BY <1>1 DEF Pending
<1>4. Lists(s) /\ InOrder(s) /\ ForthOK(s) BY DEF ListIs
<1>5. \A q \in Procs : loc'[q].op = "add" => loc[q].op = "add" /\ loc'[q].new = loc[q].new BY <1>1
<1>6. (Lists(s))' BY <1>2, <1>3, <1>4, <1>5 DEF Lists, Sequential
<1>7. (InOrder(s))' BY <1>4, <1>5 DEF InOrder
<1>8. (ForthOK(s))' BY <1>4, SameLinks
<1>9. \A q \in Procs : (Writer(q))' <=> Writer(q) BY <1>1 DEF Writer
<1>10. ASSUME NEW q \in Procs, (Writer(q))' PROVE (Phase(q, s))'
  <2>1. q # p /\ Writer(q) BY <1>9, <1>10
  <2>2. Phase(q, s) BY <2>1 DEF ListIs
  <2>3. pc'[q] = pc[q] /\ loc'[q] = loc[q] BY <1>1, <2>1
  <2> QED BY <2>2, <2>3 DEF Phase, ForthOK, BackOK, WalkAt
<1>11. (\A q \in Procs : ~(Writer(q))') => (BackOK(s))'
  <2>1. (\A q \in Procs : ~Writer(q)) => BackOK(s) BY DEF ListIs
  <2> QED BY <1>9, <2>1, SameLinks
<1>12. ASSUME overlap' < 2, NEW q \in Procs, loc'[q].op = "read" PROVE (Seen(q, s))'
  <2>1. CASE q = p BY <1>12, <2>1
  <2>2. CASE q # p
    <3>1. Seen(q, s) BY <1>1, <1>12, <2>2 DEF ListIs
    <3> QED BY <1>1, <2>2, <3>1, SeenGrows
  <2> QED BY <2>1, <2>2
<1>13. (ListIs(s))' BY <1>6, <1>7, <1>8, <1>10, <1>11, <1>12 DEF ListIs
<1>14. UnloadInv'
  <2>1. UnloadInv BY DEF IInv, ListInv
  <2> QED BY <1>1, <1>2, <2>1 DEF UnloadInv, InCall
<1> QED BY <1>13, <1>14

LEMMA CallReadKeeps ==
    ASSUME IInv, NEW p \in Procs, CallRead(p), overlap' < 3
    PROVE  UnloadInv' /\ (\E s \in Seq(Nodes) : ListIs(s))' /\ (overlap' < 2 => ~misuse')
<1>1. PICK l \in Locals : /\ Enter(p, "first", l) /\ l.op = "read" /\ l.new = Head0 /\ l.pos = Head0
                          /\ l.text = << >> /\ l.start = Live \ Pending
  <2>1. Enter(p, "first", [NoLocals EXCEPT !.op = "read", !.start = Live \ Pending])
    BY DEF CallRead, Pending
  <2>2. Live \ Pending \in SUBSET Nodes BY DEF Live
  <2> QED BY <2>1, <2>2, CallTypes DEF NoLocals
<1>2. ring' = ring /\ loaded' = loaded BY DEF CallRead
<1>3. "first" \in PCs BY DEF PCs
<1>4. /\ pc[p] = "idle" /\ loaded /\ pc'[p] = "first" /\ loc'[p] = l /\ Frame(p)
      /\ overlap' \in 0 .. 3 /\ overlap <= overlap' /\ misuse' = misuse
  BY <1>1, <1>3, EnterFacts DEF IInv
<1>5. overlap \in 0 .. 3 /\ Control /\ ListInv BY DEF IInv, Types
<1>6. overlap < 3 /\ (overlap' < 2 => overlap < 2 /\ ~misuse') BY <1>4, <1>5 DEF ListInv
<1>7. PICK s \in Seq(Nodes) : ListIs(s) BY <1>5, <1>6 DEF ListInv
<1>8. ~Writer(p) /\ loc[p].new = Head0 BY <1>4, <1>5 DEF Control, InPlace, Writer
<1>9. (Seen(p, s))'
  <2>1. l.start = Range(s) BY <1>1, <1>7 DEF ListIs, Lists
  <2>2. Len(<< >>) = 0 /\ Range(<< >>) = {} BY DEF Range
  <2> QED BY <1>1, <1>4, <2>1, <2>2 DEF Seen, HasSeen, Listing
<1> QED BY <1>1, <1>2, <1>4, <1>6, <1>7, <1>8, <1>9, ReadLists

LEMMA ReadFacts ==
    ASSUME IInv, NEW p \in Procs, loc[p].op = "read"
    PROVE  /\ ~Writer(p) /\ loc[p].new = Head0 /\ InCall(p)
           /\ Stepping(p) => /\ Frame(p) /\ overlap' = overlap /\ loc'[p].op \in {"read", "none"}
                             /\ loc'[p].new = Head0 /\ pc'[p] # "unlist"
           /\ overlap < 3 => /\ InCall(p) => loaded
                             /\ \E s \in Seq(Nodes) : ListIs(s)
           /\ overlap < 2 => ~misuse
<1>1. ~Writer(p) /\ loc[p].new = Head0 /\ InCall(p)
  BY DEF IInv, Control, InPlace, Writer, InCall
<1>2. ASSUME Stepping(p)
      PROVE  /\ Frame(p) /\ overlap' = overlap /\ loc'[p].op \in {"read", "none"}
             /\ loc'[p].new = Head0 /\ pc'[p] # "unlist"
  BY <1>1, <1>2 DEF Stepping, InPlace
<1>3. overlap < 3 => UnloadInv /\ \E s \in Seq(Nodes) : ListIs(s) BY DEF IInv, ListInv
<1>4. overlap < 2 => ~misuse BY DEF IInv, ListInv
<1> QED BY <1>1, <1>2, <1>3, <1>4 DEF UnloadInv

LEMMA ReadFirstKeeps ==
    ASSUME IInv, NEW p \in Procs, First(p), loc[p].op = "read", overlap' < 3
    PROVE  UnloadInv' /\ (\E s \in Seq(Nodes) : ListIs(s))' /\ (overlap' < 2 => ~misuse')
<1>1. /\ Stepping(p) /\ ring' = ring /\ loaded' = loaded /\ pc[p] = "first" /\ pc'[p] = "read"
      /\ loc'[p] = [loc[p] EXCEPT !.pos = ring[Head0].next, !.aux = ring[ring[Head0].next].next]
  BY FirstEffect DEF IInv, Control
<1>2. misuse' = misuse BY DEF First
<1>3. /\ ~Writer(p) /\ loc[p].new = Head0 /\ InCall(p) /\ Frame(p) /\ overlap' = overlap
      /\ loc'[p].op \in {"read", "none"} /\ loc'[p].new = Head0 /\ pc'[p] # "unlist"
      /\ overlap < 2 => ~misuse
      /\ overlap < 3 => loaded /\ \E s \in Seq(Nodes) : ListIs(s)
  BY <1>1, ReadFacts
<1>4. PICK s \in Seq(Nodes) : ListIs(s) BY <1>3
<1>5. ASSUME overlap' < 2 PROVE (Seen(p, s))'
  <2>1. Seen(p, s) BY <1>3, <1>4, <1>5 DEF ListIs
  <2>2. loc[p].text = << >> /\ loc[p].start \subseteq Range(s) BY <1>1, <2>1 DEF Seen, HasSeen, Listing
  <2>3. loc'[p].text = << >> /\ loc'[p].start = loc[p].start /\ loc'[p].pos = ring[Head0].next
    BY <1>1, <2>2, TypeFacts DEF IInv, Locals
  <2>4. ring[Head0].next = At(s, 1)
    <3>1. At(s, 0) = Head0 /\ 0 \in 0 .. Len(s) /\ 0 + 1 = 1 BY AtFacts
    <3> QED BY <1>4, <3>1 DEF ListIs, ForthOK
  <2>5. Len(<< >>) = 0 /\ Range(<< >>) = {} BY DEF Range
  <2>6. \A a, b \in 1 .. Len(s) : a < b => s[a] < s[b] BY <1>4 DEF ListIs, InOrder
  <2>7. CASE Len(s) = 0
    <3>1. 1 \notin 1 .. Len(s) /\ 1 .. Len(s) = {} BY <2>7
    <3>2. At(s, 1) = Head0 /\ Range(s) = {} BY <3>1, AtFacts
    <3> QED BY <1>1, <2>2, <2>3, <2>4, <2>5, <3>2 DEF Seen, HasSeen, Listing
  <2>8. CASE Len(s) # 0
    <3>1. 1 \in 1 .. Len(s) BY <2>8
    <3>2. At(s, 1) = s[1] /\ At(s, 1) \in Range(s) /\ At(s, 1) # Head0 BY <3>1, AtFacts
    <3>3. ASSUME NEW x \in Range(s) PROVE x >= s[1]
      <4>1. PICK a \in 1 .. Len(s) : s[a] = x BY AtFacts
      <4>2. a = 1 \/ 1 < a BY <4>1
      <4>3. s[1] \in Nodes /\ x \in Nodes BY <3>1, <4>1
      <4> QED BY <2>6, <3>1, <4>1, <4>2, <4>3 DEF Nodes
    <3> QED BY <1>1, <2>2, <2>3, <2>4, <2>5, <3>2, <3>3 DEF Seen, HasSeen, Listing
  <2> QED BY <2>7, <2>8
<1> QED BY <1>1, <1>2, <1>3, <1>4, <1>5, ReadLists

LEMMA ReadNodeKeeps ==
    ASSUME IInv, NEW p \in Procs, ReadNode(p), overlap' < 3
    PROVE  UnloadInv' /\ (\E s \in Seq(Nodes) : ListIs(s))' /\ (overlap' < 2 => ~misuse')
<1>0. PICK i, x : i = loc[p].pos /\ x = loc[p].text OBVIOUS
<1>1. /\ Stepping(p) /\ ring' = ring /\ loaded' = loaded
      /\ pc[p] = "read" /\ pc'[p] = "read" /\ i # Head0
      /\ misuse' = (misuse \/ ring[i].state # "live")
      /\ loc'[p] = [loc[p] EXCEPT !.text = Append(x, i), !.pos = ring[i].next]
  BY <1>0, ReadNodeEffect DEF IInv, Control
<1>2. loc[p].op = "read" BY <1>1 DEF IInv, Control, InPlace
<1>3. /\ ~Writer(p) /\ loc[p].new = Head0 /\ InCall(p) /\ Frame(p) /\ overlap' = overlap
      /\ loc'[p].op \in {"read", "none"} /\ loc'[p].new = Head0 /\ pc'[p] # "unlist"
      /\ overlap < 2 => ~misuse
      /\ overlap < 3 => loaded /\ \E s \in Seq(Nodes) : ListIs(s)
  BY <1>1, <1>2, ReadFacts
<1>4. PICK s \in Seq(Nodes) : ListIs(s) BY <1>3
<1>5. ASSUME overlap' < 2 PROVE (Seen(p, s))' /\ ~misuse'
  <2>1. Seen(p, s) BY <1>2, <1>3, <1>4, <1>5 DEF ListIs
  <2>2. i \in Range(s) BY <1>0, <1>1, <2>1 DEF Seen, HasSeen, Listing
  <2>3. PICK k \in 1 .. Len(s) : At(s, k) = i BY <2>2, AtFacts
  <2>4. ring[i].next = At(s, k + 1)
    <3>1. k \in 0 .. Len(s) OBVIOUS
    <3> QED BY <1>4, <2>3, <3>1 DEF ListIs, ForthOK
  <2>5. i \in Nodes /\ s[k] = i BY <2>2, <2>3, AtFacts
  <2>6. ring[i].state = "live" BY <1>4, <2>2 DEF ListIs, Lists, Live
  <2>7. \A a, b \in 1 .. Len(s) : a < b => s[a] < s[b] BY <1>4 DEF ListIs, InOrder
  <2>8. x \in Seq(Nodes) /\ Len(x) \in Nat BY <1>0, TypeFacts DEF IInv, Locals
  <2>9. PICK y : y = Append(x, i) OBVIOUS
  <2>10. PICK j : j = ring[i].next OBVIOUS
  <2>11. /\ loc'[p].text = y /\ loc'[p].pos = j /\ loc'[p].start = loc[p].start
    BY <1>1, <2>9, <2>10, TypeFacts DEF IInv, Locals
  <2>12. /\ Len(y) = Len(x) + 1 /\ \A a \in 1 .. Len(x) : y[a] = x[a] /\ x[a] \in Nodes
         /\ y[Len(x) + 1] = i /\ Range(y) = Range(x) \cup {i}
    BY <2>5, <2>8, <2>9, AtAppend
  <2>13. /\ \A a, b \in 1 .. Len(x) : a < b => x[a] < x[b]
         /\ \A a \in 1 .. Len(x) : x[a] < i
         /\ Range(x) \subseteq Range(s) /\ loc[p].start \subseteq Range(s)
         /\ \A z \in loc[p].start : z \in Range(x) \/ z >= i
    BY <1>0, <1>1, <2>1 DEF Seen, HasSeen, Listing
  <2>14. \A a, b \in 1 .. Len(y) : a < b => y[a] < y[b] BY <2>8, <2>12, <2>13
  <2>15. Range(y) \subseteq Range(s) BY <2>2, <2>12, <2>13
  <2>16. ASSUME NEW z \in loc[p].start, z \notin Range(y)
         PROVE  k + 1 \in 1 .. Len(s) /\ z >= s[k + 1]
    <3>1. z > i /\ z \in Nodes
      <4>1. z \in Nodes /\ z >= i /\ z # i BY <2>12, <2>13, <2>16, AtFacts
      <4> QED BY <2>5, <4>1 DEF Nodes
    <3>2. PICK m \in 1 .. Len(s) : s[m] = z BY <2>13, AtFacts
    <3>3. m > k
      <4>1. m = k => FALSE BY <2>5, <3>1, <3>2 DEF Nodes
      <4>2. m < k => FALSE BY <2>5, <2>7, <3>1, <3>2 DEF Nodes
      <4> QED BY <4>1, <4>2
    <3>4. k + 1 \in 1 .. Len(s) /\ (m = k + 1 \/ k + 1 < m) BY <3>3
    <3>5. s[k + 1] \in Nodes BY <3>4
    <3> QED BY <2>7, <3>1, <3>2, <3>4, <3>5 DEF Nodes
  <2>17. CASE k = Len(s)
    <3>1. j = Head0 BY <2>4, <2>10, <2>17, AtFacts
    <3>2. loc[p].start \subseteq Range(y) BY <2>16, <2>17
    <3> QED BY <1>1, <1>3, <1>5, <2>6, <2>11, <2>13, <2>14, <2>15, <3>1, <3>2 DEF Seen, HasSeen, Listing
  <2>18. CASE k < Len(s)
    <3>1. k + 1 \in 1 .. Len(s) /\ k < k + 1 BY <2>18
    <3>2. j = s[k + 1] /\ j \in Range(s) /\ j # Head0 /\ j \in Nodes BY <2>4, <2>10, <3>1, AtFacts
    <3>3. i < j BY <2>5, <2>7, <3>1, <3>2
    <3>4. ASSUME NEW a \in 1 .. Len(y) PROVE y[a] < j
      <4>1. CASE a = Len(x) + 1 BY <2>12, <3>3, <4>1
      <4>2. CASE a \in 1 .. Len(x)
        <5>1. y[a] \in Nodes /\ y[a] < i BY <2>12, <2>13, <4>2
        <5> QED BY <2>5, <3>2, <3>3, <5>1 DEF Nodes
      <4> QED BY <2>8, <2>12, <4>1, <4>2
    <3>5. \A z \in loc[p].start : z \in Range(y) \/ z >= j BY <2>16, <3>2
    <3> QED BY <1>1, <1>3, <1>5, <2>6, <2>11, <2>13, <2>14, <2>15, <3>2, <3>4, <3>5 DEF Seen, HasSeen, Listing
  <2> QED BY <2>17, <2>18
<1> QED BY <1>1, <1>3, <1>4, <1>5, ReadLists

LEMMA ReadEndKeeps ==
    ASSUME IInv, NEW p \in Procs, ReadEnd(p), overlap' < 3
    PROVE  UnloadInv' /\ (\E s \in Seq(Nodes) : ListIs(s))' /\ (overlap' < 2 => ~misuse')
<1>1. /\ pc[p] = "read" /\ Return(p) /\ UNCHANGED <<ring, loaded, overlap, late, misuse>>
      /\ loaded' \in BOOLEAN
  BY DEF ReadEnd, IInv, Types
<1>2. Stepping(p) /\ pc'[p] = "idle" /\ loc'[p] = NoLocals BY <1>1, ReturnEffect DEF IInv
<1>3. loc[p].op = "read" BY <1>1 DEF IInv, Control, InPlace
<1>4. /\ ~Writer(p) /\ loc[p].new = Head0 /\ InCall(p) /\ Frame(p) /\ overlap' = overlap
      /\ loc'[p].op \in {"read", "none"} /\ loc'[p].new = Head0 /\ pc'[p] # "unlist"
      /\ overlap < 2 => ~misuse
      /\ overlap < 3 => loaded /\ \E s \in Seq(Nodes) : ListIs(s)
  BY <1>2, <1>3, ReadFacts
<1>5. PICK s \in Seq(Nodes) : ListIs(s) BY <1>4
<1>6. loc'[p].op # "read" BY <1>2 DEF NoLocals
<1> QED BY <1>1, <1>4, <1>5, <1>6, ReadLists

LEMMA UnlistKeeps ==
    ASSUME IInv, NEW p \in Procs, Unlist(p), overlap < 3
    PROVE  UnloadInv' /\ (\E s \in Seq(Nodes) : ListIs(s))' /\ (overlap' < 2 => ~misuse')
<1>1. /\ pc[p] = "unlist" /\ Return(p) /\ loaded' = FALSE /\ UNCHANGED <<ring, overlap, late, misuse>>
      /\ \A q \in Procs : q # p => ~InCall(q)
  BY DEF Unlist
<1>2. Stepping(p) /\ pc'[p] = "idle" /\ loc'[p] = NoLocals BY <1>1, ReturnEffect DEF IInv
<1>3. Writer(p) /\ loc[p].op = "unload" BY <1>1 DEF IInv, Control, InPlace, Writer
<1>4. PICK s \in Seq(Nodes) : ListIs(s) BY DEF IInv, ListInv
<1>5. Phase(p, s) /\ ForthOK(s) /\ BackOK(s) /\ Range(s) = Live /\ Sequential(s)
  <2>1. Phase(p, s) /\ Range(s) = Live /\ Sequential(s) BY <1>3, <1>4, WriterHolds DEF Holding
  <2> QED BY <1>1, <2>1 DEF Phase
<1>6. Live = {} BY <1>1 DEF IInv, ListInv, UnloadInv
<1>7. Live' = Live BY <1>1 DEF Live
<1>8. \A q \in Procs : pc'[q] = "idle" BY <1>1, <1>2 DEF Stepping, Frame, InCall
<1>9. \A q \in Procs : loc'[q].op = "none"
  <2>1. ASSUME NEW q \in Procs, q # p PROVE loc'[q].op = "none"
    <3>1. pc[q] = "idle" /\ loc'[q] = loc[q] BY <1>1, <1>2, <2>1 DEF Stepping, Frame, InCall
    <3> QED BY <3>1 DEF IInv, Control, InPlace
  <2> QED BY <1>2, <2>1 DEF NoLocals
<1>10. (Lists(s))' BY <1>5, <1>6, <1>7, <1>9 DEF Lists, Sequential
<1>11. (InOrder(s))'
  <2>1. InOrder(s) BY <1>4 DEF ListIs
  <2> QED BY <1>1, <1>9, <2>1 DEF InOrder
<1>12. (ForthOK(s))' /\ (BackOK(s))' BY <1>1, <1>5, SameLinks
<1>13. (ListIs(s))' BY <1>9, <1>10, <1>11, <1>12 DEF ListIs, Writer
<1>14. UnloadInv' BY <1>6, <1>7, <1>8 DEF UnloadInv, InCall
<1>15. overlap' < 2 => ~misuse' BY <1>1 DEF IInv, ListInv
<1> QED BY <1>13, <1>14, <1>15

LEMMA InitIInv == Init => IInv
<1> SUFFICES ASSUME Init PROVE IInv OBVIOUS
<1>1. /\ ring \in [Links -> NodeRecs] /\ ring[Head0].state = "live"
      /\ \A i \in Nodes : ring[i] = Unused
      /\ ring[Head0].next = Head0 /\ ring[Head0].prev = Head0
  <2>1. [Unused EXCEPT !.state = "live"] \in NodeRecs /\ Unused \in NodeRecs
    BY NoLocalsType DEF NodeRecs, States
  <2>2. ring = [i \in Links |-> IF i = Head0 THEN [Unused EXCEPT !.state = "live"] ELSE Unused]
    BY DEF Init
  <2>3. Head0 \in Links /\ \A i \in Nodes : i \in Links /\ i # Head0 BY DEF Links, Nodes, Head0
  <2> QED BY <2>1, <2>2, <2>3 DEF Unused
<1>2. /\ loaded = TRUE /\ overlap = 0 /\ late = FALSE /\ misuse = FALSE
      /\ pc = [p \in Procs |-> "idle"] /\ loc = [p \in Procs |-> NoLocals]
  BY DEF Init
<1>3. pc \in [Procs -> PCs] /\ loc \in [Procs -> Locals] BY <1>2, NoLocalsType DEF PCs
<1>4. Types
  <2>1. loaded \in BOOLEAN /\ late \in BOOLEAN /\ misuse \in BOOLEAN BY <1>2, Zenon
  <2>2. overlap \in 0 .. 3 BY <1>2
  <2> QED BY <1>1, <1>3, <2>1, <2>2 DEF Types
<1>5. \A p \in Procs : /\ pc[p] = "idle" /\ loc[p].op = "none" /\ loc[p].new = Head0
  BY <1>2 DEF NoLocals
<1>6. Control BY <1>5 DEF Control, OwnNode, InPlace, Adding, Deleting, Listing
<1>7. Clashes BY <1>5 DEF Clashes, InCall
<1>8. Live = {} BY <1>1 DEF Live, Unused
<1>9. UnloadInv BY <1>2, <1>5 DEF UnloadInv
<1>10. PICK s \in Seq(Nodes) : Len(s) = 0 /\ Range(s) = {}
  <2>1. << >> \in Seq(Nodes) /\ Len(<< >>) = 0 BY EmptySeq
  <2>2. Range(<< >>) = {} BY DEF Range
  <2> QED BY <2>1, <2>2
<1>11. ListIs(s)
  <2>1. Lists(s) BY <1>5, <1>8, <1>10 DEF Lists, Sequential
  <2>2. InOrder(s) BY <1>1, <1>5, <1>10 DEF InOrder, Unused
  <2>3. \A i \in 0 .. 1 : At(s, i) = Head0 BY <1>10, AtFacts
  <2>4. ForthOK(s) /\ BackOK(s) BY <1>1, <1>10, <2>3 DEF ForthOK, BackOK
  <2> QED BY <1>5, <2>1, <2>2, <2>4 DEF ListIs, Writer
<1> QED BY <1>2, <1>4, <1>6, <1>7, <1>9, <1>11 DEF IInv, ListInv

LEMMA NextListInv ==
    ASSUME IInv, NEW p \in Procs, Call(p) \/ Step(p), overlap' < 3
    PROVE  UnloadInv' /\ (\E s \in Seq(Nodes) : ListIs(s))' /\ (overlap' < 2 => ~misuse')
<1>1. CASE Call(p) BY <1>1, CallAddKeeps, CallDeleteKeeps, CallReadKeeps DEF Call
<1>2. CASE Step(p)
  <2>1. overlap < 3
    <3>1. overlap' = overlap BY <1>2, StepStepping DEF Stepping, IInv, Control
    <3> QED BY <3>1
  <2>2. CASE /\ First(p) \/ AddStep(p) \/ Walk(p) \/ Del(p) \/ Unlink(p) \/ Free(p)
             /\ loc[p].op # "read"
    BY <2>2, WriteKeeps
  <2>3. CASE First(p) /\ loc[p].op = "read" BY <2>3, ReadFirstKeeps
  <2>4. CASE loc[p].op = "read" /\ (AddStep(p) \/ Walk(p) \/ Del(p) \/ Unlink(p) \/ Free(p))
    <3>1. InPlace(p) BY DEF IInv, Control
    <3> QED BY <2>4, <3>1
      DEF InPlace, Adding, Deleting, Listing, AddStep, AddPrev, AddHead, AddNode, AddLink, Walk, Del, Unlink, Free
  <2>5. CASE Unlist(p) BY <2>1, <2>5, UnlistKeeps
  <2>6. CASE ReadNode(p) BY <2>6, ReadNodeKeeps
  <2>7. CASE ReadEnd(p) BY <2>7, ReadEndKeeps
  <2> QED BY <1>2, <2>2, <2>3, <2>4, <2>5, <2>6, <2>7 DEF Step, DeleteStep
<1> QED BY <1>1, <1>2

LEMMA NextIInv ==
    ASSUME IInv, [Next]_vars
    PROVE  IInv'
<1>1. CASE Next
  <2>1. PICK p \in Procs : Call(p) \/ Step(p) BY <1>1 DEF Next
  <2>2. Types /\ Control /\ Clashes /\ InPlace(p) BY DEF IInv, Control
  <2>3. Stepped(p) BY <2>1, <2>2, NextStepped
  <2>4. Types' /\ Control' /\ Clashes' BY <2>1, <2>2, <2>3, NextControl, NextClashes DEF Stepped
  <2>5. overlap' \in 0 .. 3 BY <2>4 DEF Types
  <2>6. ListInv' BY <2>1, <2>5, NextListInv DEF ListInv
  <2> QED BY <2>4, <2>6 DEF IInv
<1>2. CASE UNCHANGED vars
  <2>1. /\ ring' = ring /\ loaded' = loaded /\ pc' = pc /\ loc' = loc
        /\ overlap' = overlap /\ late' = late /\ misuse' = misuse
    BY <1>2 DEF vars
  <2>2. Types' /\ Control' /\ Clashes'
    BY <2>1 DEF IInv, Types, Control, OwnNode, InPlace, Clashes, InCall
  <2>3. ASSUME NEW s, ListIs(s) PROVE (ListIs(s))'
    <3>1. (Lists(s))' /\ (InOrder(s))' /\ (ForthOK(s))'
      <4>1. Lists(s) /\ InOrder(s) /\ ForthOK(s) BY <2>3 DEF ListIs
      <4>2. Live' = Live /\ Pending' = Pending BY <2>1 DEF Live, Pending
      <4>3. (Lists(s))' BY <2>1, <4>1, <4>2 DEF Lists, Sequential
      <4>4. (InOrder(s))' BY <2>1, <4>1 DEF InOrder
      <4>5. (ForthOK(s))' BY <2>1, <4>1 DEF ForthOK
      <4> QED BY <4>3, <4>4, <4>5
    <3>2. \A p \in Procs : (Writer(p))' = Writer(p) BY <2>1 DEF Writer
    <3>3. \A p \in Procs : Phase(p, s) => (Phase(p, s))'
      BY <2>1 DEF Phase, ForthOK, BackOK, WalkAt
    <3>4. BackOK(s) => (BackOK(s))' BY <2>1 DEF BackOK
    <3>5. \A p \in Procs : Seen(p, s) => (Seen(p, s))' BY <2>1 DEF Seen, HasSeen, Listing
    <3> QED BY <2>1, <2>3, <3>1, <3>2, <3>3, <3>4, <3>5 DEF ListIs
  <2>4. UnloadInv => UnloadInv' BY <2>1 DEF UnloadInv, Live, InCall
  <2>5. ListInv' BY <2>1, <2>3, <2>4 DEF IInv, ListInv
  <2> QED BY <2>2, <2>5 DEF IInv
<1> QED BY <1>1, <1>2

\* Whatever the processes that use modlist.c do, the invariant holds: types,
\* program points and locals agree, overlap tells how badly calls have overlapped,
\* and if no two writers have, there is one list that everybody sees his part of.
THEOREM Invariant == Spec => []IInv
BY InitIInv, NextIInv, PTL DEF Spec

-----------------------------------------------------------------------------
(* The properties. *)

LEMMA ListFacts ==
    ASSUME IInv, overlap < 3
    PROVE  \E s \in Seq(Nodes) : ListIs(s)
BY DEF IInv, ListInv

\* Every variable of modlist.c keeps its type: no link leaves the nodes.
THEOREM TypeCorrect == Spec => []TypeOK
<1>1. IInv => TypeOK BY DEF IInv, Types, TypeOK, NodeRecs, Locals, States, Ops
<1> QED BY <1>1, Invariant, PTL

\* A link of a node that list_del() has taken out, or vfree() given back, is
\* followed by modlist.c only if a deletion overlapped another call, or two
\* additions did: an addition and any number of reads do no harm.
THEOREM MemoryIsSafe == Spec => []MemorySafe
<1>1. IInv => MemorySafe BY DEF IInv, Types, ListInv, MemorySafe
<1> QED BY <1>1, Invariant, PTL

\* A read() of modlist.c that no deletion overlaps returns the nodes in the order
\* of their addition, every one that was listed when it began, and none twice.
THEOREM ReadsAreConsistent == Spec => []ReadsConsistent
<1>1. ASSUME IInv PROVE ReadsConsistent
  <2> SUFFICES ASSUME NEW p \in Procs, pc[p] = "read", loc[p].pos = Head0, overlap < 2
      PROVE  /\ \A i \in 1 .. Len(loc[p].text) - 1 : loc[p].text[i] < loc[p].text[i + 1]
             /\ Range(loc[p].text) \subseteq Live
             /\ loc[p].start \subseteq Range(loc[p].text)
    BY DEF ReadsConsistent
  <2>1. loc[p].op = "read" /\ loc[p].text \in Seq(Nodes)
    BY <1>1, TypeFacts DEF IInv, Control, InPlace, Locals
  <2>2. overlap < 3 BY <1>1 DEF IInv, Types
  <2>3. PICK s \in Seq(Nodes) : ListIs(s) BY <1>1, <2>2, ListFacts
  <2>4. Seen(p, s) BY <2>1, <2>3 DEF ListIs
  <2>5. Range(s) \subseteq Live BY <2>3 DEF ListIs, Lists
  <2>6. \A i, j \in 1 .. Len(loc[p].text) : i < j => loc[p].text[i] < loc[p].text[j]
    BY <2>4 DEF Seen, HasSeen, Listing
  <2>7. \A i \in 1 .. Len(loc[p].text) - 1 :
            i \in 1 .. Len(loc[p].text) /\ i + 1 \in 1 .. Len(loc[p].text) /\ i < i + 1
    BY <2>1
  <2>8. \A i \in 1 .. Len(loc[p].text) - 1 : loc[p].text[i] < loc[p].text[i + 1] BY <2>6, <2>7
  <2> QED BY <2>4, <2>5, <2>8 DEF Seen, HasSeen, Listing
<1> QED BY <1>1, Invariant, PTL

\* Once modlist.c is unloaded no node is left, unless an addition came after
\* cleanup() had begun or two writers overlapped.
THEOREM UnloadingFreesAll == Spec => []UnloadFreesAll
<1>1. IInv => UnloadFreesAll BY DEF IInv, Types, ListInv, UnloadInv, UnloadFreesAll
<1> QED BY <1>1, Invariant, PTL

-----------------------------------------------------------------------------
(* The ring, followed from the head. *)

\* Path is the function it is defined by: following the ring from the head goes
\* round it.
LEMMA PathRecursive ==
    ASSUME NEW s \in Seq(Nodes), ForthOK(s)
    PROVE  \A n \in 0 .. MaxNodes : Path[n] = IF n = 0 THEN ring[Head0].next ELSE ring[Path[n - 1]].next
<1> DEFINE F(f) == [n \in 0 .. MaxNodes |-> IF n = 0 THEN ring[Head0].next ELSE ring[f[n - 1]].next]
           round == [n \in 0 .. MaxNodes |-> At(s, (n + 1) % (Len(s) + 1))]
<1>1. Len(s) \in Nat /\ \A i : i \notin 1 .. Len(s) => At(s, i) = Head0 BY AtFacts
<1>2. \A i \in 0 .. Len(s) : ring[At(s, i)].next = At(s, i + 1) BY DEF ForthOK
<1>3. MaxNodes \in Nat OBVIOUS
<1>4. round = F(round)
  <2>1. ASSUME NEW n \in 0 .. MaxNodes
        PROVE  At(s, (n + 1) % (Len(s) + 1))
                 = IF n = 0 THEN ring[Head0].next ELSE ring[round[n - 1]].next
    <3>1. CASE n = 0
      <4>1. At(s, 0) = Head0 /\ 0 \in 0 .. Len(s) BY <1>1
      <4>2. ring[Head0].next = At(s, 1) BY <1>2, <4>1
      <4>3. CASE Len(s) = 0
        <5>1. 1 % (Len(s) + 1) = 0 BY <4>3
        <5>2. At(s, 1) = Head0 BY <1>1, <4>3
        <5> QED BY <3>1, <4>1, <4>2, <5>1, <5>2
      <4>4. CASE Len(s) # 0
        <5>1. 1 % (Len(s) + 1) = 1 BY <1>1, <4>4
        <5> QED BY <3>1, <4>2, <5>1
      <4> QED BY <4>3, <4>4
    <3>2. CASE n # 0
      <4>1. n - 1 \in 0 .. MaxNodes /\ (n - 1) + 1 = n BY <3>2
      <4>2. round[n - 1] = At(s, n % (Len(s) + 1)) BY <4>1
      <4> DEFINE m == n % (Len(s) + 1)
      <4>3. m \in 0 .. Len(s) BY <1>1, <3>2
      <4>4. ring[round[n - 1]].next = At(s, m + 1) BY <1>2, <4>2, <4>3
      <4>5. CASE m < Len(s)
        <5>1. (n + 1) % (Len(s) + 1) = m + 1 BY <1>1, <3>2, <4>3, <4>5
        <5> QED BY <3>2, <4>4, <5>1
      <4>6. CASE m = Len(s)
        <5>1. (n + 1) % (Len(s) + 1) = 0 BY <1>1, <3>2, <4>3, <4>6
        <5>2. At(s, 0) = Head0 /\ At(s, m + 1) = Head0 BY <1>1, <4>6
        <5> QED BY <3>2, <4>4, <5>1, <5>2
      <4> QED BY <4>3, <4>5, <4>6
    <3> QED BY <3>1, <3>2
  <2> QED BY <2>1
<1>5. Path = CHOOSE f : f = F(f) BY DEF Path
<1> HIDE DEF round
<1>6. Path = F(Path) BY <1>4, <1>5
<1> QED BY <1>6

LEMMA PathFollows ==
    ASSUME NEW s \in Seq(Nodes), ForthOK(s), Len(s) <= MaxNodes
    PROVE  \A n \in 0 .. Len(s) : Path[n] = At(s, n + 1)
<1> DEFINE wrong == {n \in 0 .. Len(s) : Path[n] # At(s, n + 1)}
<1>1. SUFFICES ASSUME wrong # {} PROVE FALSE OBVIOUS
<1>2. wrong \subseteq Nat OBVIOUS
<1> HIDE DEF wrong
<1>3. PICK n \in wrong : \A m \in wrong : ~(m < n)
  <2>1. PICK n \in wrong : \A m \in wrong : <<m, n>> \notin OpToRel(<, Nat)
    BY <1>1, <1>2, NatLessThanWellFounded, WFMin
  <2> QED BY <1>2, <2>1 DEF OpToRel
<1>4. n \in 0 .. Len(s) /\ Path[n] # At(s, n + 1) BY DEF wrong
<1>5. Path[n] = IF n = 0 THEN ring[Head0].next ELSE ring[Path[n - 1]].next BY <1>4, PathRecursive
<1>6. CASE n = 0
  <2>1. At(s, 0) = Head0 /\ 0 \in 0 .. Len(s) /\ 0 + 1 = 1 BY AtFacts
  <2> QED BY <1>4, <1>5, <1>6, <2>1 DEF ForthOK
<1>7. CASE n # 0
  <2>1. n - 1 \in 0 .. Len(s) /\ n - 1 < n /\ (n - 1) + 1 = n BY <1>4, <1>7
  <2>2. n - 1 \notin wrong BY <1>3, <2>1
  <2>3. Path[n - 1] = At(s, n) BY <2>1, <2>2 DEF wrong
  <2> QED BY <1>4, <1>5, <1>7, <2>3 DEF ForthOK
<1> QED BY <1>6, <1>7

\* Distinct nodes: there are no more than MaxNodes of them.
LEMMA DistinctLength ==
    ASSUME NEW s, Sequential(s)
    PROVE  Len(s) <= MaxNodes
<1>1. s \in Seq(Nodes) /\ Len(s) \in Nat /\ \A i, j \in 1 .. Len(s) : s[i] = s[j] => i = j
  BY DEF Sequential
<1>2. MaxNodes \in Nat OBVIOUS
<1>3. IsFiniteSet(1 .. Len(s)) /\ Cardinality(1 .. Len(s)) = Len(s)
  <2>1. PICK n \in Nat : n = Len(s) BY <1>1
  <2>2. IsFiniteSet(1 .. n) /\ Cardinality(1 .. n) = IF 1 > n THEN 0 ELSE n - 1 + 1 BY FS_Interval
  <2>3. Cardinality(1 .. n) = n BY <2>2
  <2> QED BY <2>1, <2>2, <2>3
<1>4. IsFiniteSet(Nodes) /\ Cardinality(Nodes) = MaxNodes
  <2>1. IsFiniteSet(1 .. MaxNodes)
        /\ Cardinality(1 .. MaxNodes) = IF 1 > MaxNodes THEN 0 ELSE MaxNodes - 1 + 1
    BY <1>2, FS_Interval
  <2>2. Cardinality(1 .. MaxNodes) = MaxNodes BY <1>2, <2>1
  <2> QED BY <2>1, <2>2 DEF Nodes
<1>5. SUFFICES ASSUME Len(s) > MaxNodes PROVE FALSE BY <1>1, <1>2
<1>6. s \in [1 .. Len(s) -> Nodes] BY <1>1
<1>7. Cardinality(1 .. Len(s)) > Cardinality(Nodes) BY <1>3, <1>4, <1>5
<1>8. \E i, j \in 1 .. Len(s) : i # j /\ s[i] = s[j] BY <1>3, <1>4, <1>6, <1>7, FS_PigeonHole
<1> QED BY <1>1, <1>8

LEMMA ListedRange ==
    ASSUME NEW s \in Seq(Nodes), ForthOK(s), Len(s) <= MaxNodes
    PROVE  Listed = Range(s)
<1>1. \A n \in 0 .. Len(s) : Path[n] = At(s, n + 1) BY PathFollows
<1>2. ASSUME NEW i \in Range(s) PROVE i \in Listed
  <2>1. PICK k \in 1 .. Len(s) : At(s, k) = i BY AtFacts
  <2>2. k - 1 \in 0 .. MaxNodes /\ k - 1 \in 0 .. Len(s) /\ (k - 1) + 1 = k OBVIOUS
  <2>3. Path[k - 1] = i BY <1>1, <2>1, <2>2
  <2>4. ASSUME NEW m \in 0 .. k - 1 PROVE Path[m] # Head0
    <3>1. m \in 0 .. Len(s) /\ m + 1 \in 1 .. Len(s) OBVIOUS
    <3> QED BY <1>1, <3>1, AtFacts
  <2>5. i \in Nodes BY AtFacts
  <2> QED BY <2>2, <2>3, <2>4, <2>5 DEF Listed
<1>3. ASSUME NEW i \in Listed PROVE i \in Range(s)
  <2>1. PICK n \in 0 .. MaxNodes : Path[n] = i /\ \A m \in 0 .. n : Path[m] # Head0 BY DEF Listed
  <2>2. n < Len(s)
    <3>1. SUFFICES ASSUME n >= Len(s) PROVE FALSE OBVIOUS
    <3>2. Len(s) \in 0 .. n /\ Len(s) \in 0 .. Len(s) /\ Len(s) + 1 \notin 1 .. Len(s) BY <3>1
    <3> QED BY <1>1, <2>1, <3>2, AtFacts
  <2>3. n \in 0 .. Len(s) /\ n + 1 \in 1 .. Len(s) BY <2>2
  <2> QED BY <1>1, <2>1, <2>3, AtFacts
<1> QED BY <1>2, <1>3

\* As long as no two writers of modlist.c have overlapped, the ring is whole when
\* none is at work: following next from the head meets the nodes that were not
\* freed, in order, and the links prev match.
THEOREM RingIsIntact == Spec => []RingIntact
<1>1. ASSUME IInv PROVE RingIntact
  <2> SUFFICES ASSUME overlap < 3, ~Writing
      PROVE  /\ Listed = Live
             /\ \A i \in Live : ring[i].next = Head0 \/ ring[i].next > i
             /\ \A i \in Live \cup {Head0} : ring[ring[i].next].prev = i
    BY DEF RingIntact
  <2>1. PICK s \in Seq(Nodes) : ListIs(s) BY <1>1, ListFacts
  <2>2. ForthOK(s) /\ Range(s) = Live \ Pending /\ \A i, j \in 1 .. Len(s) : i < j => s[i] < s[j]
    BY <2>1 DEF ListIs, Lists, InOrder
  <2>3. \A p \in Procs : Writer(p) => pc[p] \in {"first", "unlist"} BY DEF Writing, Writer
  <2>4. BackOK(s)
    <3>1. CASE \A p \in Procs : ~Writer(p) BY <2>1, <3>1 DEF ListIs
    <3>2. ASSUME NEW p \in Procs, Writer(p) PROVE BackOK(s)
      <4>1. Phase(p, s) BY <2>1, <3>2 DEF ListIs
      <4> QED BY <2>3, <3>2, <4>1 DEF Phase
    <3> QED BY <3>1, <3>2
  <2>5. Range(s) = Live
    <3>1. \A p \in Procs : loc[p].op # "add"
      BY <1>1, <2>3 DEF Writer, IInv, Control, InPlace, Adding
    <3>2. \A x \in Pending : x = Head0 BY <1>1, <3>1 DEF Pending, IInv, Control, InPlace
    <3>3. Head0 \notin Live BY DEF Live, Head0, Nodes
    <3> QED BY <2>2, <3>2, <3>3
  <2>6. Len(s) <= MaxNodes BY <2>1, DistinctLength DEF ListIs, Lists
  <2>7. Listed = Live BY <2>2, <2>5, <2>6, ListedRange
  <2>8. ASSUME NEW i \in Live PROVE ring[i].next = Head0 \/ ring[i].next > i
    <3>1. PICK k \in 1 .. Len(s) : At(s, k) = i BY <2>5, AtFacts
    <3>2. ring[i].next = At(s, k + 1)
      <4>1. k \in 0 .. Len(s) OBVIOUS
      <4> QED BY <2>2, <3>1, <4>1 DEF ForthOK
    <3>3. s[k] = i BY <3>1, AtFacts
    <3>4. CASE k = Len(s)
      <4>1. k + 1 \notin 1 .. Len(s) BY <3>4
      <4> QED BY <3>2, <4>1, AtFacts
    <3>5. CASE k < Len(s)
      <4>1. k + 1 \in 1 .. Len(s) /\ k < k + 1 BY <3>5
      <4>2. At(s, k + 1) = s[k + 1] /\ s[k + 1] \in Nodes /\ s[k] \in Nodes BY <4>1, AtFacts
      <4>3. s[k] < s[k + 1] BY <2>2, <4>1
      <4> QED BY <3>2, <3>3, <4>2, <4>3 DEF Nodes
    <3> QED BY <3>4, <3>5
  <2>9. ASSUME NEW i \in Live \cup {Head0} PROVE ring[ring[i].next].prev = i
    <3>1. PICK k \in 0 .. Len(s) : At(s, k) = i
      <4>1. CASE i = Head0
        <5>1. 0 \in 0 .. Len(s) /\ At(s, 0) = Head0 BY AtFacts
        <5> QED BY <4>1, <5>1
      <4>2. CASE i \in Live
        <5>1. PICK k \in 1 .. Len(s) : At(s, k) = i BY <2>5, <4>2, AtFacts
        <5>2. k \in 0 .. Len(s) OBVIOUS
        <5> QED BY <5>1, <5>2
      <4> QED BY <4>1, <4>2
    <3>2. k + 1 \in 1 .. Len(s) + 1 /\ (k + 1) - 1 = k OBVIOUS
    <3>3. ring[i].next = At(s, k + 1) BY <2>2, <3>1 DEF ForthOK
    <3>4. ring[At(s, k + 1)].prev = At(s, k) BY <2>4, <3>2 DEF BackOK
    <3> QED BY <3>1, <3>3, <3>4
  <2> QED BY <2>7, <2>8, <2>9
<1> QED BY <1>1, Invariant, PTL

-----------------------------------------------------------------------------
(* With the lock. *)

Locked == {"addhead", "addnode", "addlink", "read"} \cup Deleting

LockOK ==
    /\ sp \in Procs \cup {None}
    /\ \A p \in Procs : (pc[p] \in Locked => sp = p) /\ (pc[p] \in {"idle", "unlist"} => sp # p)

\* Who holds the lock has the list to itself.
SMPList(s) ==
    /\ Lists(s) /\ ForthOK(s)
    /\ \A p \in Procs : sp = p /\ Writer(p) => Phase(p, s)
    /\ (\A p \in Procs : sp = p => ~Writer(p)) => BackOK(s)
    /\ \A p \in Procs : pc[p] = "read" => loc[p].pos \in Range(s) \cup {Head0}

SMPInv == Types /\ Control /\ ~misuse /\ LockOK /\ \E s \in Seq(Nodes) : SMPList(s)

LEMMA InitSMPInv == SMPInit => SMPInv
<1> SUFFICES ASSUME SMPInit PROVE SMPInv OBVIOUS
<1>1. Init /\ sp = None BY DEF SMPInit
<1>2. IInv BY <1>1, InitIInv
<1>3. misuse = FALSE /\ overlap < 3 /\ \A p \in Procs : pc[p] = "idle" /\ loc[p].op = "none"
  BY <1>1 DEF Init, NoLocals
<1>4. LockOK BY <1>1, <1>3, SMPAssumption DEF LockOK, Locked, Deleting
<1>5. PICK s \in Seq(Nodes) : ListIs(s) BY <1>2, <1>3, ListFacts
<1>6. SMPList(s) BY <1>3, <1>5 DEF SMPList, ListIs, Writer
<1> QED BY <1>2, <1>3, <1>4, <1>6 DEF SMPInv, IInv

\* The phase of a process is as it was when neither it nor a link has changed.
LEMMA SamePhase ==
    ASSUME NEW q \in Procs, NEW s \in Seq(Nodes), Phase(q, s), pc'[q] = pc[q], loc'[q] = loc[q],
           \A i \in Links : ring'[i].next = ring[i].next /\ ring'[i].prev = ring[i].prev,
           Types, \A i \in Links : ring[i].state = "poisoned" => ring'[i].state = "poisoned"
    PROVE  (Phase(q, s))'
<1>1. \A i : At(s, i) \in Links BY AtFacts
<1>2. (ForthOK(s))' = ForthOK(s) /\ (BackOK(s))' = BackOK(s) BY <1>1 DEF ForthOK, BackOK
<1>3. PICK l, place : l = loc[q] /\ place = pc[q] OBVIOUS
<1>4. loc'[q] = l /\ pc'[q] = place BY <1>3
<1>5. l.new \in Links /\ l.pos \in Links /\ Head0 \in Links BY <1>3, TypeFacts
<1>6. \A k : (WalkAt(q, s, k))' = WalkAt(q, s, k) BY <1>3, <1>4 DEF WalkAt
<1>7. pc[q] = "addlink" => (BackOK(Append(s, l.new)))' /\ ring'[l.new].next = Head0
  <2>1. SUFFICES ASSUME pc[q] = "addlink" PROVE (BackOK(Append(s, l.new)))' /\ ring'[l.new].next = Head0
    OBVIOUS
  <2>2. BackOK(Append(s, l.new)) /\ ring[l.new].next = Head0 BY <1>3, <2>1 DEF Phase
  <2>3. PICK t : t = Append(s, l.new) OBVIOUS
  <2>4. \A i : At(t, i) \in Links
    <3>1. l.new = Head0 \/ l.new \in Nodes BY <1>5 DEF Links
    <3> QED BY <1>5, <2>3, AtFacts, AtAppend DEF At, Links
  <2>5. (BackOK(t))' BY <2>2, <2>3, <2>4 DEF BackOK
  <2> QED BY <1>5, <2>2, <2>3, <2>5
<1>8. pc[q] = "unlink" =>
        \E k \in 1 .. Len(s) :
            /\ (WalkAt(q, s, k))' /\ (BackOK(Drop(s, k)))'
            /\ l.prev = At(s, k - 1) /\ l.succ = At(s, k + 1)
  <2>1. SUFFICES ASSUME pc[q] = "unlink"
        PROVE  \E k \in 1 .. Len(s) :
                  /\ (WalkAt(q, s, k))' /\ (BackOK(Drop(s, k)))'
                  /\ l.prev = At(s, k - 1) /\ l.succ = At(s, k + 1)
    OBVIOUS
  <2>2. PICK k \in 1 .. Len(s) : /\ WalkAt(q, s, k) /\ BackOK(Drop(s, k))
                                 /\ l.prev = At(s, k - 1) /\ l.succ = At(s, k + 1)
    BY <1>3, <2>1 DEF Phase
  <2>3. PICK t : t = Drop(s, k) OBVIOUS
  <2>4. \A i : At(t, i) \in Links
    <3>1. \A i \in 1 .. Len(s) - 1 : t[i] \in Nodes BY <2>3 DEF Drop
    <3>2. t \in Seq(Nodes) /\ Len(t) = Len(s) - 1
      <4>1. t \in [1 .. Len(s) - 1 -> Nodes] BY <2>3, <3>1 DEF Drop
      <4>2. Len(s) - 1 \in Nat OBVIOUS
      <4> QED BY <4>1, <4>2, IsASeq, LenProperties
    <3> QED BY <3>2, AtFacts
  <2>5. (BackOK(t))' BY <2>2, <2>3, <2>4 DEF BackOK
  <2> QED BY <1>6, <2>2, <2>3, <2>5
<1>9. pc[q] = "addnode" => /\ \A i \in 1 .. Len(s) : ring'[At(s, i)].prev = At(s, i - 1)
                           /\ ring'[Head0].prev = l.new
  BY <1>1, <1>3, <1>5 DEF Phase
<1>10. pc[q] = "free" => /\ \E k \in 1 .. Len(s) + 1 : l.aux = At(s, k) /\ (l.v = Every => k = 1)
                         /\ ring'[l.pos].state = "poisoned"
  BY <1>3, <1>5 DEF Phase
<1>11. pc[q] \in {"walk", "del"} => \E k \in 1 .. Len(s) + 1 : (WalkAt(q, s, k))'
  BY <1>6 DEF Phase
<1>12. /\ (ForthOK(s))'
       /\ pc[q] \notin {"addnode", "addlink", "unlink"} => (BackOK(s))'
       /\ pc[q] \in {"addhead", "addnode", "addlink"} => l.prev = At(s, Len(s))
  BY <1>2, <1>3 DEF Phase
<1> QED BY <1>3, <1>4, <1>7, <1>8, <1>9, <1>10, <1>11, <1>12 DEF Phase

\* A step that leaves the list alone: it may take the lock or give it back.
LEMMA SMPQuiet ==
    ASSUME SMPInv, Types', Control', LockOK', ~misuse', NEW p \in Procs, Frame(p),
           ring' = ring, loc'[p].new = loc[p].new, loc'[p].op = "add" => loc[p].op = "add",
           NEW s \in Seq(Nodes), SMPList(s),
           \A q \in Procs : (sp = q /\ Writer(q) => Phase(q, s))',
           ((\A q \in Procs : sp = q => ~Writer(q)) => BackOK(s))',
           (pc[p] = "read" => loc[p].pos \in Range(s) \cup {Head0})'
    PROVE  SMPInv'
<1>1. \A q \in Procs : q # p => pc'[q] = pc[q] /\ loc'[q] = loc[q] BY DEF Frame
<1>2. Live' = Live BY DEF Live
<1>3. Pending' = Pending BY <1>1 DEF Pending
<1>4. Lists(s) /\ ForthOK(s) BY DEF SMPList
<1>5. \A q \in Procs : loc'[q].op = "add" => loc[q].op = "add" /\ loc'[q].new = loc[q].new BY <1>1
<1>6. (Lists(s))' BY <1>2, <1>3, <1>4, <1>5 DEF Lists, Sequential
<1>7. (ForthOK(s))' BY <1>4, SameLinks
<1>8. \A q \in Procs : (pc[q] = "read" => loc[q].pos \in Range(s) \cup {Head0})'
  BY <1>1 DEF SMPList
<1>9. (SMPList(s))' BY <1>6, <1>7, <1>8 DEF SMPList
<1> QED BY <1>9 DEF SMPInv

\* Only who holds the lock can be in a critical section.
LEMMA SMPStepTypes ==
    ASSUME SMPInv, NEW p \in Procs, Call(p) \/ Step(p)
    PROVE  Types' /\ Control' /\ Frame(p) /\ Types /\ InPlace(p)
<1>1. Types /\ Control /\ InPlace(p) BY DEF SMPInv, Control
<1>2. Stepped(p) BY <1>1, NextStepped
<1> QED BY <1>1, <1>2, NextControl DEF Stepped

LEMMA SMPLockKeeps ==
    ASSUME SMPInv, NEW p \in Procs, Lock(p)
    PROVE  SMPInv'
<1>1. /\ pc[p] \in {"prev", "first"} /\ sp = None /\ sp' = p
      /\ ring' = ring /\ loaded' = loaded /\ pc' = pc /\ loc' = loc
      /\ overlap' = overlap /\ late' = late /\ misuse' = misuse
  BY DEF Lock, vars
<1>2. Types' /\ Control' BY <1>1 DEF SMPInv, Types, Control, OwnNode, InPlace
<1>3. LockOK'
  <2>1. \A q \in Procs : pc[q] \notin Locked BY <1>1, SMPAssumption DEF SMPInv, LockOK
  <2> QED BY <1>1, <2>1 DEF LockOK
<1>4. PICK s \in Seq(Nodes) : SMPList(s) BY DEF SMPInv
<1>5. BackOK(s) /\ ForthOK(s) BY <1>1, <1>4, SMPAssumption DEF SMPList
<1>6. (BackOK(s))' /\ (ForthOK(s))' BY <1>1, <1>5, SameLinks
<1>7. (Phase(p, s))' BY <1>1, <1>6 DEF Phase
<1>8. Frame(p) BY <1>1 DEF Frame
<1>9. pc'[p] # "read" BY <1>1
<1> QED BY <1>1, <1>2, <1>3, <1>4, <1>6, <1>7, <1>8, <1>9, SMPQuiet DEF SMPInv

LEMMA SMPCallKeeps ==
    ASSUME SMPInv, NEW p \in Procs, SMPCall(p)
    PROVE  SMPInv'
<1>1. Call(p) /\ sp' = sp BY DEF SMPCall
<1>2. Types' /\ Control' /\ Frame(p) /\ Types /\ InPlace(p) BY <1>1, SMPStepTypes
<1>3. PICK s \in Seq(Nodes) : SMPList(s) BY DEF SMPInv
<1>4. \A q \in Procs : q # p => pc'[q] = pc[q] /\ loc'[q] = loc[q] BY <1>2 DEF Frame
<1>5. pc[p] = "idle" /\ sp # p /\ loc[p].op = "none" /\ loc[p].new = Head0
  <2>1. pc[p] = "idle" BY <1>1 DEF Call, CallAdd, CallRemove, CallUnload, CallRead, Enter
  <2> QED BY <1>2, <2>1 DEF SMPInv, LockOK, InPlace
<1>6. pc'[p] \in {"prev", "first"} /\ misuse' = misuse
  <2>1. pc \in [Procs -> PCs] BY <1>2 DEF Types
  <2> QED BY <1>1, <2>1 DEF Call, CallAdd, CallRemove, CallUnload, CallRead, Enter, Goto
<1>7. LockOK' BY <1>1, <1>4, <1>5, <1>6 DEF LockOK, SMPInv, Locked, Deleting
<1>8. \A q \in Procs : (sp = q => q # p)' BY <1>1, <1>5
<1>9. CASE CallAdd(p)
  <2>1. PICK i \in Nodes, v \in Values :
          /\ ring[i].state = "unused" /\ ring' = [ring EXCEPT ![i].state = "live", ![i].data = v]
          /\ Enter(p, "prev", [NoLocals EXCEPT !.op = "add", !.new = i])
    BY <1>9 DEF CallAdd
  <2>2. loc'[p].op = "add" /\ loc'[p].new = i BY <1>2, <2>1 DEF Enter, NoLocals, Types
  <2>3. /\ i \in Links /\ i # Head0 /\ Head0 \notin Live BY DEF Links, Head0, Nodes, Live
  <2>4. /\ ring'[i].state = "live" /\ ring'[i].next = ring[i].next /\ ring'[i].prev = ring[i].prev
        /\ \A j \in Links : j # i => ring'[j] = ring[j]
    <3> DEFINE r == ring[i]
    <3>1. r \in NodeRecs /\ ring \in [Links -> NodeRecs] BY <1>2, <2>3 DEF Types
    <3>2. ring'[i] = [r EXCEPT !.state = "live", !.data = v] /\ \A j \in Links : j # i => ring'[j] = ring[j]
      BY <2>1, <2>3, <3>1
    <3> HIDE DEF r
    <3>3. LET n == [r EXCEPT !.state = "live", !.data = v]
          IN  n.state = "live" /\ n.next = r.next /\ n.prev = r.prev
      BY <3>1 DEF NodeRecs
    <3> QED BY <3>2, <3>3 DEF r
  <2>5. /\ \A j \in Links : ring'[j].next = ring[j].next /\ ring'[j].prev = ring[j].prev
        /\ \A j \in Links : ring[j].state = "poisoned" => ring'[j].state = "poisoned"
    BY <2>1, <2>4
  <2>6. Live' = Live \cup {i} /\ i \notin Live
    <3>1. \A j \in Nodes : ring'[j].state = IF j = i THEN "live" ELSE ring[j].state
      BY <2>4 DEF Links
    <3> QED BY <2>1, <3>1 DEF Live
  <2>7. (Lists(s))'
    <3>1. Lists(s) BY <1>3 DEF SMPList
    <3>2. Pending' \ {Head0} = (Pending \ {Head0}) \cup {i} BY <1>4, <1>5, <2>2, <2>3 DEF Pending
    <3>3. (Range(s) = Live \ Pending)' BY <2>3, <2>6, <3>1, <3>2 DEF Lists
    <3>4. ASSUME NEW q \in Procs, loc'[q].op = "add" PROVE loc'[q].new \in Live'
      BY <1>4, <2>2, <2>6, <3>1, <3>4 DEF Lists
    <3> QED BY <3>1, <3>3, <3>4 DEF Lists, Sequential
  <2>8. \A j : At(s, j) \in Links BY AtFacts
  <2>9. (ForthOK(s))' = ForthOK(s) /\ (BackOK(s))' = BackOK(s) BY <2>5, <2>8 DEF ForthOK, BackOK
  <2>10. ASSUME NEW q \in Procs, sp' = q, (Writer(q))' PROVE (Phase(q, s))'
    <3>1. q # p /\ sp = q /\ Writer(q) BY <1>1, <1>4, <1>5, <2>10 DEF Writer
    <3>2. Phase(q, s) BY <1>3, <3>1 DEF SMPList
    <3> QED BY <1>2, <1>4, <2>5, <3>1, <3>2, SamePhase
  <2>11. ((\A q \in Procs : sp = q => ~Writer(q)) => BackOK(s))'
    BY <1>1, <1>3, <1>4, <1>5, <2>9 DEF SMPList, Writer
  <2>12. \A q \in Procs : (pc[q] = "read" => loc[q].pos \in Range(s) \cup {Head0})'
    BY <1>3, <1>4, <1>6 DEF SMPList
  <2>13. (SMPList(s))' BY <1>3, <2>7, <2>9, <2>10, <2>11, <2>12 DEF SMPList
  <2>14. s \in Seq(Nodes) BY <1>3
  <2> QED BY <1>2, <1>6, <1>7, <2>13, <2>14 DEF SMPInv
<1>10. CASE CallRemove(p) \/ CallUnload(p) \/ CallRead(p)
  <2>1. ring' = ring BY <1>10 DEF CallRemove, CallUnload, CallRead
  <2>2. loc'[p].op # "add" /\ loc'[p].new = Head0
    <3>1. loc'[p].op # "add" BY <1>2, <1>10 DEF CallRemove, CallUnload, CallRead, Enter, NoLocals, Types
    <3> QED BY <1>2, <3>1 DEF Control, InPlace
  <2>3. \A j \in Links : /\ ring'[j].next = ring[j].next /\ ring'[j].prev = ring[j].prev
                         /\ ring[j].state = "poisoned" => ring'[j].state = "poisoned"
    BY <2>1
  <2>4. ASSUME NEW q \in Procs, sp' = q, (Writer(q))' PROVE (Phase(q, s))'
    <3>1. q # p /\ sp = q /\ Writer(q) BY <1>1, <1>4, <1>5, <2>4 DEF Writer
    <3>2. Phase(q, s) BY <1>3, <3>1 DEF SMPList
    <3> QED BY <1>2, <1>4, <2>3, <3>1, <3>2, SamePhase
  <2>5. ((\A q \in Procs : sp = q => ~Writer(q)) => BackOK(s))'
    <3>1. (\A q \in Procs : sp = q => ~Writer(q))' => \A q \in Procs : sp = q => ~Writer(q)
      BY <1>1, <1>4, <1>5 DEF Writer
    <3>2. (\A q \in Procs : sp = q => ~Writer(q)) => BackOK(s) BY <1>3 DEF SMPList
    <3> QED BY <2>1, <3>1, <3>2, SameLinks
  <2>6. pc'[p] # "read" BY <1>6
  <2> QED BY <1>2, <1>3, <1>5, <1>6, <1>7, <2>1, <2>2, <2>4, <2>5, <2>6, SMPQuiet DEF SMPInv
<1> QED BY <1>1, <1>9, <1>10 DEF Call

\* The lock after the step of who held it, or of an unloading that is over.
LEMMA SMPUnlock ==
    ASSUME SMPInv, NEW p \in Procs, sp = p \/ pc[p] = "unlist", Frame(p), Unlock(p),
           sp # p => pc'[p] = "idle"
    PROVE  LockOK' /\ (sp = p => sp' = IF pc'[p] \in {"idle", "unlist"} THEN None ELSE p)
<1>1. LockOK /\ None \notin Procs BY SMPAssumption DEF SMPInv
<1>2. \A q \in Procs : q # p => pc'[q] = pc[q] BY DEF Frame
<1>3. sp' = IF sp = p /\ pc'[p] \in {"idle", "unlist"} THEN None ELSE sp BY DEF Unlock
<1>4. CASE sp = p
  <2>1. "idle" \notin Locked /\ "unlist" \notin Locked BY DEF Locked, Deleting
  <2>2. sp' = IF pc'[p] \in {"idle", "unlist"} THEN None ELSE p BY <1>3, <1>4
  <2>3. \A q \in Procs : q # p => pc'[q] \notin Locked BY <1>1, <1>2, <1>4 DEF LockOK
  <2>4. \A q \in Procs : q # p => sp' # q BY <1>1, <2>2
  <2> QED BY <1>1, <1>4, <2>1, <2>2, <2>3, <2>4 DEF LockOK
<1>5. CASE sp # p
  <2>1. "idle" \notin Locked BY DEF Locked, Deleting
  <2> QED BY <1>1, <1>2, <1>3, <1>5, <2>1 DEF LockOK
<1> QED BY <1>4, <1>5

\* A step of the writer that holds the lock.
LEMMA SMPWriterKeeps ==
    ASSUME SMPInv, NEW p \in Procs, sp = p, Unlock(p), loc[p].op # "read",
           First(p) \/ AddStep(p) \/ Walk(p) \/ Del(p) \/ Unlink(p) \/ Free(p)
    PROVE  SMPInv'
<1>1. Types /\ Control /\ InPlace(p) /\ ~misuse /\ LockOK /\ None \notin Procs
  BY SMPAssumption DEF SMPInv, Control
<1>2. Step(p) BY DEF Step, DeleteStep
<1>3. Stepping(p) /\ InCall(p) BY <1>1, <1>2, StepStepping
<1>4. Types' /\ Control' /\ Frame(p) BY <1>2, SMPStepTypes
<1>5. Writer(p) BY <1>1, <1>3 DEF InCall, InPlace, Writer, Types, Locals, Ops
<1>6. PICK s \in Seq(Nodes) : SMPList(s) BY DEF SMPInv
<1>7. Lists(s) /\ Sequential(s) /\ Range(s) = Live \ Pending BY <1>6 DEF SMPList, Lists
<1>8. Holding(p, s)
  <2>1. Phase(p, s) BY <1>5, <1>6 DEF SMPList
  <2>2. loc[p].op = "add" => loc[p].new \in Live /\ loc[p].new \in Pending BY <1>7 DEF Lists, Pending
  <2> QED BY <1>7, <2>1, <2>2 DEF Holding
<1>9. PICK t : Changed(p, s, t) BY <1>1, <1>8, WriterRing
<1>10. LockOK' /\ sp' = IF pc'[p] \in {"idle", "unlist"} THEN None ELSE p BY <1>4, SMPUnlock
<1>11. \A q \in Procs : q # p => pc'[q] = pc[q] /\ loc'[q] = loc[q] BY <1>4 DEF Frame
<1>12. Head0 \notin Live /\ Head0 \notin Live' BY DEF Live, Head0, Nodes
<1>13. /\ loc'[p].op \in {loc[p].op, "none"} /\ loc'[p].new \in {loc[p].new, Head0}
       /\ loc'[p].op # "add" => loc'[p].new = Head0
       /\ loc[p].op # "add" => loc[p].new = Head0
  BY <1>1, <1>3 DEF Stepping, InPlace
<1>14. (Lists(t))'
  <2>1. CASE /\ t = s /\ Live' = Live
             /\ loc[p].op = "add" => loc'[p].op = "add" /\ loc'[p].new = loc[p].new
    <3>1. loc'[p].new = loc[p].new BY <1>13, <2>1
    <3>2. Pending' = Pending BY <1>11, <3>1 DEF Pending
    <3>3. \A q \in Procs : loc'[q].op = "add" => loc[q].op = "add" /\ loc'[q].new = loc[q].new
      BY <1>11, <1>13, <3>1
    <3> QED BY <1>7, <2>1, <3>2, <3>3 DEF Lists, Sequential
  <2>2. CASE loc[p].op = "add" /\ loc'[p].op = "none" /\ t = Append(s, loc[p].new) /\ Live' = Live
    <3>1. PICK new : new = loc[p].new OBVIOUS
    <3>2. new \in Live /\ new \in Nodes BY <1>7, <2>2, <3>1 DEF Lists, Live
    <3>3. Range(t) = Range(s) \cup {new} BY <2>2, <3>1, <3>2, AtAppend
    <3>4. \A q \in Procs : q # p => loc[q].new # new BY <1>1, <2>2, <3>1 DEF Control, OwnNode
    <3>5. loc'[p].new = Head0 BY <1>13, <2>2
    <3>6. Pending' \ {Head0} = Pending \ {Head0, new} BY <1>11, <1>12, <3>1, <3>2, <3>4, <3>5 DEF Pending
    <3>7. new \in Pending BY <3>1 DEF Pending
    <3>8. Range(t) = Live' \ Pending' BY <1>7, <1>12, <2>2, <3>2, <3>3, <3>6, <3>7
    <3>9. \A q \in Procs : loc'[q].op = "add" => loc'[q].new \in Live'
      BY <1>7, <1>11, <2>2 DEF Lists
    <3> QED BY <1>9, <3>8, <3>9 DEF Lists, Sequential, Changed
  <2>3. ASSUME loc[p].op # "add", NEW k \in 1 .. Len(s), t = Drop(s, k), Live' = Live \ {At(s, k)}
        PROVE  (Lists(t))'
    <3>1. loc'[p].new = loc[p].new /\ loc'[p].op # "add" BY <1>13, <2>3
    <3>2. Pending' = Pending BY <1>11, <3>1 DEF Pending
    <3>3. Range(t) = Range(s) \ {At(s, k)} BY <1>7, <2>3, AtDrop
    <3>4. Range(t) = Live' \ Pending' BY <1>7, <2>3, <3>2, <3>3
    <3>5. At(s, k) \notin Pending BY <1>6, <1>7, <2>3, AtFacts
    <3>6. ASSUME NEW q \in Procs, loc'[q].op = "add" PROVE loc'[q].new \in Live'
      <4>1. q # p BY <3>1, <3>6
      <4>2. loc'[q] = loc[q] BY <1>11, <4>1
      <4>3. loc[q].new \in Live /\ loc[q].new \in Pending BY <1>7, <3>6, <4>2 DEF Lists, Pending
      <4> QED BY <2>3, <3>5, <4>2, <4>3
    <3> QED BY <1>9, <3>4, <3>6 DEF Lists, Sequential, Changed
  <2> QED BY <1>9, <2>1, <2>2, <2>3 DEF Changed
<1>15. \A q \in Procs : sp' = q => q = p BY <1>1, <1>10
<1>16. \A q \in Procs : (sp = q /\ Writer(q) => Phase(q, t))' BY <1>9, <1>15 DEF Changed
<1>17. ((\A q \in Procs : sp = q => ~Writer(q)) => BackOK(t))'
  <2>1. CASE ~(Writer(p))' BY <1>9, <2>1 DEF Changed
  <2>2. CASE (Writer(p))' /\ sp' = p BY <2>2
  <2>3. CASE (Writer(p))' /\ sp' # p
    <3>1. pc'[p] \in {"idle", "unlist"} BY <1>10, <2>3
    <3>2. (Phase(p, t))' BY <1>9, <2>3 DEF Changed
    <3>3. pc'[p] \notin {"addnode", "addlink", "unlink"} BY <3>1
    <3>4. (BackOK(t))' BY <3>2, <3>3 DEF Phase
    <3> QED BY <3>4
  <2> QED BY <2>1, <2>2, <2>3
<1>18. \A q \in Procs : pc'[q] # "read"
  <2>1. ASSUME NEW q \in Procs, q # p PROVE pc'[q] # "read"
    <3>1. pc[q] \notin Locked BY <1>1, <2>1 DEF LockOK
    <3>2. pc[q] # "read" BY <3>1 DEF Locked
    <3> QED BY <1>11, <2>1, <3>2
  <2>2. pc'[p] # "read" BY <1>3, <1>13 DEF Stepping, InPlace
  <2> QED BY <2>1, <2>2
<1>19. (SMPList(t))'
  <2>1. (ForthOK(t))' BY <1>9 DEF Changed
  <2> QED BY <1>14, <1>16, <1>17, <1>18, <2>1 DEF SMPList
<1>20. t \in Seq(Nodes) /\ ~misuse' BY <1>1, <1>9 DEF Changed, Sequential
<1> QED BY <1>4, <1>10, <1>19, <1>20 DEF SMPInv

\* A step of the read that holds the lock.
LEMMA SMPReadKeeps ==
    ASSUME SMPInv, NEW p \in Procs, sp = p, Unlock(p), loc[p].op = "read", Stepping(p),
           ring' = ring, ~misuse', NEW s \in Seq(Nodes), SMPList(s),
           pc'[p] = "read" => loc'[p].pos \in Range(s) \cup {Head0}
    PROVE  SMPInv'
<1>1. Types /\ Control /\ InPlace(p) /\ None \notin Procs BY SMPAssumption DEF SMPInv, Control
<1>2. Types' /\ Frame(p) BY DEF Stepping
<1>3. Stepped(p) BY DEF Stepping, Stepped
<1>4. Control' BY <1>1, <1>3, NextControl
<1>5. LockOK' /\ sp' = IF pc'[p] \in {"idle", "unlist"} THEN None ELSE p BY <1>2, SMPUnlock
<1>6. loc'[p].new = loc[p].new /\ loc'[p].op # "add" /\ ~Writer(p) /\ ~(Writer(p))'
  BY <1>1 DEF Stepping, InPlace, Writer
<1>7. \A q \in Procs : sp' = q => q = p BY <1>1, <1>5
<1>8. BackOK(s) BY <1>6 DEF SMPList
<1>9. (BackOK(s))' BY <1>8, SameLinks
<1> QED BY <1>2, <1>4, <1>5, <1>6, <1>7, <1>9, SMPQuiet

LEMMA SMPFirstReadKeeps ==
    ASSUME SMPInv, NEW p \in Procs, sp = p, Unlock(p), loc[p].op = "read", First(p)
    PROVE  SMPInv'
<1>1. Types /\ InPlace(p) /\ ~misuse BY DEF SMPInv, Control
<1>2. /\ Stepping(p) /\ ring' = ring
      /\ loc'[p] = [loc[p] EXCEPT !.pos = ring[Head0].next, !.aux = ring[ring[Head0].next].next]
  BY <1>1, FirstEffect
<1>3. misuse' = misuse BY DEF First
<1>4. PICK s \in Seq(Nodes) : SMPList(s) BY DEF SMPInv
<1>5. ring[Head0].next = At(s, 1)
  <2>1. At(s, 0) = Head0 /\ 0 \in 0 .. Len(s) /\ 0 + 1 = 1 BY AtFacts
  <2> QED BY <1>4, <2>1 DEF SMPList, ForthOK
<1>6. loc'[p].pos = At(s, 1) BY <1>1, <1>2, <1>5, TypeFacts DEF Locals
<1>7. loc'[p].pos \in Range(s) \cup {Head0} BY <1>6, AtFacts
<1>8. ~misuse' BY <1>1, <1>3
<1> QED BY <1>2, <1>4, <1>7, <1>8, SMPReadKeeps

LEMMA SMPReadLineKeeps ==
    ASSUME SMPInv, NEW p \in Procs, ReadLine(p)
    PROVE  SMPInv'
<1>1. sp = p /\ ReadNode(p) /\ Unlock(p) BY DEF ReadLine, Holds
<1>2. Types /\ InPlace(p) /\ ~misuse BY DEF SMPInv, Control
<1>3. /\ Stepping(p) /\ ring' = ring /\ pc[p] = "read" /\ loc[p].pos # Head0
      /\ misuse' = (misuse \/ ring[loc[p].pos].state # "live")
      /\ loc'[p] = [loc[p] EXCEPT !.text = Append(loc[p].text, loc[p].pos),
                                  !.pos = ring[loc[p].pos].next]
  BY <1>1, <1>2, ReadNodeEffect
<1>4. loc[p].op = "read" BY <1>2, <1>3 DEF InPlace
<1>5. PICK s \in Seq(Nodes) : SMPList(s) BY DEF SMPInv
<1>6. loc[p].pos \in Range(s) BY <1>3, <1>5 DEF SMPList
<1>7. PICK k \in 1 .. Len(s) : At(s, k) = loc[p].pos BY <1>6, AtFacts
<1>8. ring[loc[p].pos].next = At(s, k + 1)
  <2>1. k \in 0 .. Len(s) OBVIOUS
  <2> QED BY <1>5, <1>7, <2>1 DEF SMPList, ForthOK
<1>9. loc'[p].pos = At(s, k + 1) BY <1>2, <1>3, <1>8, TypeFacts DEF Locals
<1>10. At(s, k + 1) \in Range(s) \cup {Head0} BY AtFacts
<1>11. ~misuse'
  <2>1. ring[loc[p].pos].state = "live" BY <1>5, <1>6 DEF SMPList, Lists, Live
  <2> QED BY <1>2, <1>3, <2>1
<1> QED BY <1>1, <1>3, <1>4, <1>5, <1>9, <1>10, <1>11, SMPReadKeeps

\* Both ways out of a read: with its text, and with -ENOSPC.
LEMMA SMPReadOverKeeps ==
    ASSUME SMPInv, NEW p \in Procs, ReadDone(p) \/ ReadFull(p)
    PROVE  SMPInv'
<1>1. /\ sp = p /\ pc[p] = "read" /\ Return(p) /\ Unlock(p)
      /\ ring' = ring /\ loaded' = loaded /\ overlap' = overlap /\ late' = late /\ misuse' = misuse
  BY DEF ReadDone, ReadFull, ReadEnd, Holds, UnlockFull
<1>2. Types /\ InPlace(p) /\ ~misuse BY DEF SMPInv, Control
<1>3. Stepping(p) /\ pc'[p] = "idle"
  <2>1. loaded' \in BOOLEAN BY <1>1, <1>2 DEF Types
  <2> QED BY <1>1, <1>2, <2>1, ReturnEffect
<1>4. loc[p].op = "read" BY <1>1, <1>2 DEF InPlace
<1>5. PICK s \in Seq(Nodes) : SMPList(s) BY DEF SMPInv
<1>6. pc'[p] # "read" BY <1>3
<1> QED BY <1>1, <1>2, <1>3, <1>4, <1>5, <1>6, SMPReadKeeps

\* An unloading ends when nobody is in a call, hence when nobody has the lock.
LEMMA SMPUnlistKeeps ==
    ASSUME SMPInv, NEW p \in Procs, Unlist(p), Unlock(p)
    PROVE  SMPInv'
<1>1. /\ pc[p] = "unlist" /\ Return(p) /\ loaded' = FALSE /\ \A q \in Procs \ {p} : ~InCall(q)
      /\ ring' = ring /\ overlap' = overlap /\ late' = late /\ misuse' = misuse
  BY DEF Unlist
<1>2. Types /\ Control /\ InPlace(p) /\ ~misuse /\ LockOK BY DEF SMPInv, Control
<1>3. Stepping(p) /\ pc'[p] = "idle"
  <2>1. loaded' \in BOOLEAN BY <1>1
  <2> QED BY <1>1, <1>2, <2>1, ReturnEffect
<1>4. Types' /\ Frame(p) BY <1>3 DEF Stepping
<1>5. Stepped(p) BY <1>3 DEF Stepping, Stepped
<1>6. Control' BY <1>2, <1>5, NextControl
<1>7. \A q \in Procs : sp # q BY <1>1, <1>2 DEF LockOK, InCall
<1>8. LockOK' BY <1>1, <1>3, <1>4, SMPUnlock
<1>9. sp' = sp BY <1>7 DEF Unlock
<1>10. loc[p].op = "unload" BY <1>1, <1>2 DEF InPlace
<1>11. loc'[p].op # "add" /\ loc'[p].new = loc[p].new
  BY <1>2, <1>3, <1>10 DEF Stepping, InPlace
<1>12. PICK s \in Seq(Nodes) : SMPList(s) BY DEF SMPInv
<1>13. BackOK(s) BY <1>7, <1>12 DEF SMPList
<1>14. (BackOK(s))' BY <1>1, <1>13, SameLinks
<1>15. \A q \in Procs : sp' # q BY <1>7, <1>9
<1>16. pc'[p] # "read" BY <1>3
<1> QED BY <1>1, <1>2, <1>4, <1>6, <1>8, <1>11, <1>12, <1>14, <1>15, <1>16, SMPQuiet

LEMMA SMPWriteKeeps ==
    ASSUME SMPInv, NEW p \in Procs, WriteStep(p)
    PROVE  SMPInv'
<1>1. Unlock(p) /\ (sp = p \/ pc[p] = "unlist") BY DEF WriteStep, Holds
<1>2. CASE Unlist(p) BY <1>1, <1>2, SMPUnlistKeeps
<1>3. CASE First(p) \/ AddStep(p) \/ Walk(p) \/ Del(p) \/ Unlink(p) \/ Free(p)
  <2>1. pc[p] \in {"first"} \cup Adding \cup Deleting
    BY <1>3 DEF First, AddStep, AddPrev, AddHead, AddNode, AddLink, Walk, Del, Unlink, Free, Adding, Deleting, Listing
  <2>2. sp = p BY <1>1, <2>1 DEF Adding, Deleting, Listing
  <2>3. CASE loc[p].op # "read" BY <1>1, <1>3, <2>2, <2>3, SMPWriterKeeps
  <2>4. CASE loc[p].op = "read"
    <3>1. pc[p] \notin Adding \cup Deleting BY <2>4 DEF SMPInv, Control, InPlace
    <3>2. First(p)
      BY <1>3, <3>1 DEF AddStep, AddPrev, AddHead, AddNode, AddLink, Walk, Del, Unlink, Free, Adding, Deleting, Listing
    <3> QED BY <1>1, <2>2, <2>4, <3>2, SMPFirstReadKeeps
  <2> QED BY <2>3, <2>4
<1> QED BY <1>2, <1>3 DEF WriteStep, DeleteStep

LEMMA NextSMPInv ==
    ASSUME SMPInv, [SMPNext]_smp
    PROVE  SMPInv'
<1>1. CASE SMPNext
  <2>1. PICK p \in Procs : SMPCall(p) \/ SMPStep(p) BY <1>1 DEF SMPNext
  <2> QED BY <2>1, SMPCallKeeps, SMPLockKeeps, SMPWriteKeeps, SMPReadLineKeeps, SMPReadOverKeeps DEF SMPStep
<1>2. CASE UNCHANGED smp
  <2>1. /\ ring' = ring /\ loaded' = loaded /\ pc' = pc /\ loc' = loc
        /\ overlap' = overlap /\ late' = late /\ misuse' = misuse /\ sp' = sp
    BY <1>2 DEF smp, vars
  <2>2. Types' /\ Control' /\ LockOK' /\ ~misuse'
    BY <2>1 DEF SMPInv, Types, Control, OwnNode, InPlace, LockOK
  <2>3. ASSUME NEW s, SMPList(s) PROVE (SMPList(s))'
    <3>1. (Lists(s))' /\ (ForthOK(s))'
      <4>1. Lists(s) /\ ForthOK(s) BY <2>3 DEF SMPList
      <4>2. Live' = Live /\ Pending' = Pending BY <2>1 DEF Live, Pending
      <4> QED BY <2>1, <4>1, <4>2 DEF Lists, Sequential, ForthOK
    <3>2. \A p \in Procs : (Writer(p))' = Writer(p) BY <2>1 DEF Writer
    <3>3. \A p \in Procs : Phase(p, s) => (Phase(p, s))'
      BY <2>1 DEF Phase, ForthOK, BackOK, WalkAt
    <3>4. BackOK(s) => (BackOK(s))' BY <2>1 DEF BackOK
    <3> QED BY <2>1, <2>3, <3>1, <3>2, <3>3, <3>4 DEF SMPList
  <2> QED BY <2>2, <2>3 DEF SMPInv
<1> QED BY <1>1, <1>2

\* What the lock promises follows from the list it protects.
LEMMA SMPPromises ==
    ASSUME SMPInv
    PROVE  LockedSafe /\ LockedIntact /\ LockReleased
<1>1. LockedSafe BY DEF SMPInv, LockedSafe
<1>2. LockReleased BY DEF SMPInv, LockOK, LockReleased
<1>3. ASSUME sp = None
      PROVE  /\ Listed = Live \ {loc[p].new : p \in Procs}
             /\ \A i \in Listed \cup {Head0} : ring[ring[i].next].prev = i
  <2>1. PICK s \in Seq(Nodes) : SMPList(s) BY DEF SMPInv
  <2>2. ForthOK(s) /\ Sequential(s) /\ Range(s) = Live \ Pending BY <2>1 DEF SMPList, Lists
  <2>3. BackOK(s) BY <1>3, <2>1, SMPAssumption DEF SMPList
  <2>4. Listed = Range(s) BY <2>2, DistinctLength, ListedRange
  <2>5. ASSUME NEW i \in Listed \cup {Head0} PROVE ring[ring[i].next].prev = i
    <3>1. PICK k \in 0 .. Len(s) : At(s, k) = i
      <4>1. CASE i = Head0
        <5>1. 0 \in 0 .. Len(s) /\ At(s, 0) = Head0 BY AtFacts
        <5> QED BY <4>1, <5>1
      <4>2. CASE i \in Range(s)
        <5>1. PICK k \in 1 .. Len(s) : At(s, k) = i BY <4>2, AtFacts
        <5>2. k \in 0 .. Len(s) OBVIOUS
        <5> QED BY <5>1, <5>2
      <4> QED BY <2>4, <4>1, <4>2
    <3>2. k + 1 \in 1 .. Len(s) + 1 /\ (k + 1) - 1 = k OBVIOUS
    <3>3. ring[i].next = At(s, k + 1) BY <2>2, <3>1 DEF ForthOK
    <3>4. ring[At(s, k + 1)].prev = At(s, k) BY <2>3, <3>2 DEF BackOK
    <3> QED BY <3>1, <3>3, <3>4
  <2> QED BY <2>2, <2>4, <2>5 DEF Pending
<1> QED BY <1>1, <1>2, <1>3 DEF LockedIntact

\* In SMPmodlist.c no link of a node that is not listed is ever followed, the ring
\* is whole whenever the spin lock is free, and no call keeps it: this holds
\* however the calls overlap, for the reads that fail with -ENOSPC too.
THEOREM LockKeepsListWhole == SMPSpec => [](LockedSafe /\ LockedIntact /\ LockReleased)
<1>1. SMPInv => LockedSafe /\ LockedIntact /\ LockReleased BY SMPPromises
<1> QED BY <1>1, InitSMPInv, NextSMPInv, PTL DEF SMPSpec

\* The same of the three lists beside one another, as they are model-checked.
THEOREM SMPListStaysWhole == ListsSpec => []SMPKeepsListWhole
<1> DEFINE I == version = "smp" => SMPInv
<1>1. ListsInit => I BY InitSMPInv DEF ListsInit
<1>2. ASSUME I, [ListsNext]_<<vars, smpOnly, seqOnly, version>> PROVE I'
  <2>1. version' = version /\ (version = "smp" => [SMPNext]_smp)
    <3>1. CASE ListsNext BY <3>1 DEF ListsNext
    <3>2. CASE UNCHANGED <<vars, smpOnly, seqOnly, version>> BY <3>2 DEF smpOnly, smp
    <3> QED BY <1>2, <3>1, <3>2
  <2>2. version' = "smp" => SMPInv' BY <1>2, <2>1, NextSMPInv
  <2> QED BY <2>2
<1>3. I => SMPKeepsListWhole BY SMPPromises DEF SMPKeepsListWhole
<1> HIDE DEF I
<1> QED BY <1>1, <1>2, <1>3, PTL DEF ListsSpec


-----------------------------------------------------------------------------
(* What a removal leaves. *)

LeftStep(f, d, v, every, n) ==
    IF n = 0 THEN << >> ELSE IF v \in {every, d[n]} THEN f[n - 1] ELSE Append(f[n - 1], d[n])

\* The recursion of Without, up to m.
IsLeft(f, d, v, every, m) == f = [n \in 0 .. m |-> LeftStep(f, d, v, every, n)]

LEMMA LeastOf ==
    ASSUME NEW S \in SUBSET Nat, S # {}
    PROVE  \E n \in S : \A m \in S : ~(m < n)
<1>1. PICK n \in S : \A m \in S : <<m, n>> \notin OpToRel(<, Nat)
  BY NatLessThanWellFounded, WFMin
<1> QED BY <1>1 DEF OpToRel

LEMMA LeftExists ==
    ASSUME NEW d, NEW v, NEW every, NEW k \in Nat
    PROVE  \E f : IsLeft(f, d, v, every, k)
<1> DEFINE bad == {n \in Nat : ~ \E f : IsLeft(f, d, v, every, n)}
<1>1. SUFFICES ASSUME bad # {} PROVE FALSE OBVIOUS
<1>2. bad \subseteq Nat OBVIOUS
<1>3. \A n \in Nat : n \in bad <=> ~ \E f : IsLeft(f, d, v, every, n) OBVIOUS
<1> HIDE DEF bad
<1>4. PICK n \in bad : \A m \in bad : ~(m < n) BY <1>1, <1>2, LeastOf
<1>5. n \in Nat BY <1>2
<1>6. CASE n = 0
  <2> DEFINE f == [m \in 0 .. 0 |-> << >>]
  <2>1. \A m \in 0 .. 0 : LeftStep(f, d, v, every, m) = << >> BY DEF LeftStep
  <2>2. f = [m \in 0 .. 0 |-> LeftStep(f, d, v, every, m)] BY <2>1
  <2>3. IsLeft(f, d, v, every, 0) BY <2>2 DEF IsLeft
  <2> QED BY <1>3, <1>5, <1>6, <2>3
<1>7. CASE n # 0
  <2>1. n - 1 \in Nat /\ n - 1 < n BY <1>5, <1>7
  <2>2. PICK f : IsLeft(f, d, v, every, n - 1) BY <1>3, <1>4, <2>1
  <2> DEFINE g == [m \in 0 .. n |-> LeftStep(f, d, v, every, m)]
  <2>3. \A m \in 0 .. n - 1 : f[m] = g[m] BY <1>5, <2>1, <2>2 DEF IsLeft
  <2>4. ASSUME NEW m \in 0 .. n PROVE LeftStep(f, d, v, every, m) = LeftStep(g, d, v, every, m)
    <3>1. m = 0 \/ m - 1 \in 0 .. n - 1 BY <1>5
    <3> HIDE DEF g
    <3> QED BY <2>3, <3>1 DEF LeftStep
  <2>5. g = [m \in 0 .. n |-> LeftStep(g, d, v, every, m)] BY <2>4
  <2>6. IsLeft(g, d, v, every, n) BY <2>5 DEF IsLeft
  <2> QED BY <1>3, <1>5, <2>6
<1> QED BY <1>6, <1>7

\* Without is what its recursion says.
LEMMA WithoutIs ==
    ASSUME NEW d, NEW v, NEW every, Len(d) \in Nat
    PROVE  \E f : /\ Without(d, v, every) = f[Len(d)]
                  /\ \A n \in 0 .. Len(d) : f[n] = LeftStep(f, d, v, every, n)
<1> DEFINE f == CHOOSE f : IsLeft(f, d, v, every, Len(d))
<1>1. IsLeft(f, d, v, every, Len(d)) BY LeftExists
<1>2. Without(d, v, every) = f[Len(d)] BY DEF Without, IsLeft, LeftStep
<1> HIDE DEF f
<1>3. \A n \in 0 .. Len(d) : f[n] = LeftStep(f, d, v, every, n) BY <1>1 DEF IsLeft
<1> QED BY <1>2, <1>3

\* To take out what has to go anyway changes nothing.
LEMMA DropWithout ==
    ASSUME NEW d, NEW v, NEW every, Len(d) \in Nat, NEW k \in 1 .. Len(d), v \in {every, d[k]},
           Len(Drop(d, k)) = Len(d) - 1
    PROVE  Without(Drop(d, k), v, every) = Without(d, v, every)
<1>1. PICK e : e = Drop(d, k) OBVIOUS
<1>2. Len(e) = Len(d) - 1 /\ \A n \in 1 .. Len(e) : e[n] = IF n < k THEN d[n] ELSE d[n + 1]
  BY <1>1 DEF Drop
<1>3. PICK f : /\ Without(d, v, every) = f[Len(d)]
               /\ \A n \in 0 .. Len(d) : f[n] = LeftStep(f, d, v, every, n)
  BY WithoutIs
<1>4. PICK g : /\ Without(e, v, every) = g[Len(e)]
               /\ \A n \in 0 .. Len(e) : g[n] = LeftStep(g, e, v, every, n)
  <2>1. Len(e) \in Nat BY <1>2
  <2> QED BY <2>1, WithoutIs
<1> DEFINE bad == {n \in 0 .. Len(d) : f[n] # g[IF n < k THEN n ELSE n - 1]}
<1>5. SUFFICES ASSUME bad # {} PROVE FALSE
  <2>1. Len(d) \in 0 .. Len(d) /\ ~(Len(d) < k) OBVIOUS
  <2>2. f[Len(d)] = g[Len(d) - 1] BY <1>5, <2>1
  <2> QED BY <1>1, <1>2, <1>3, <1>4, <2>2
<1>6. bad \subseteq Nat /\ \A n : n \in bad <=> n \in 0 .. Len(d) /\ f[n] # g[IF n < k THEN n ELSE n - 1]
  OBVIOUS
<1> HIDE DEF bad
<1>7. PICK n \in bad : \A m \in bad : ~(m < n) BY <1>5, <1>6, LeastOf
<1>8. n \in 0 .. Len(d) /\ f[n] # g[IF n < k THEN n ELSE n - 1] BY <1>6
<1>9. CASE n = 0
  <2>1. f[0] = << >> BY <1>3, <1>8, <1>9 DEF LeftStep
  <2>2. g[0] = << >>
    <3>1. 0 \in 0 .. Len(e) BY <1>2
    <3> QED BY <1>4, <3>1 DEF LeftStep
  <2> QED BY <1>8, <1>9, <2>1, <2>2
<1>10. CASE n # 0
  <2>1. n - 1 \in 0 .. Len(d) /\ n - 1 < n BY <1>8, <1>10
  <2>2. f[n - 1] = g[IF n - 1 < k THEN n - 1 ELSE (n - 1) - 1] BY <1>6, <1>7, <2>1
  <2>3. f[n] = IF v \in {every, d[n]} THEN f[n - 1] ELSE Append(f[n - 1], d[n])
    BY <1>3, <1>8, <1>10 DEF LeftStep
  <2>4. CASE n < k
    <3>1. n \in 0 .. Len(e) /\ n \in 1 .. Len(e) BY <1>2, <1>8, <1>10, <2>4
    <3>2. e[n] = d[n] BY <1>2, <2>4, <3>1
    <3>3. g[n] = IF v \in {every, e[n]} THEN g[n - 1] ELSE Append(g[n - 1], e[n])
      BY <1>4, <1>10, <3>1 DEF LeftStep
    <3>4. n - 1 < k BY <1>8, <2>4
    <3>5. f[n - 1] = g[n - 1] BY <2>2, <3>4
    <3> QED BY <1>8, <2>3, <2>4, <3>2, <3>3, <3>5
  <2>5. CASE n = k
    <3>1. f[n] = f[n - 1] BY <2>3, <2>5
    <3>2. f[n - 1] = g[n - 1] BY <2>1, <2>2, <2>5
    <3> QED BY <1>8, <2>5, <3>1, <3>2
  <2>6. CASE n > k
    <3>1. n - 1 \in 0 .. Len(e) /\ n - 1 \in 1 .. Len(e) /\ ~(n - 1 < k) /\ n - 1 # 0
      BY <1>2, <1>8, <2>6
    <3>2. e[n - 1] = d[n] BY <1>2, <1>8, <3>1
    <3>3. g[n - 1] = IF v \in {every, e[n - 1]} THEN g[(n - 1) - 1] ELSE Append(g[(n - 1) - 1], e[n - 1])
      BY <1>4, <3>1 DEF LeftStep
    <3>4. f[n - 1] = g[(n - 1) - 1] BY <2>2, <3>1
    <3> QED BY <1>8, <2>3, <2>6, <3>2, <3>3, <3>4
  <2> QED BY <1>8, <2>4, <2>5, <2>6
<1> QED BY <1>9, <1>10

\* Nothing is taken out of a list that has nothing to be taken out.
LEMMA NoneWithout ==
    ASSUME NEW S, NEW d \in Seq(S), NEW v, NEW every, \A n \in 1 .. Len(d) : v \notin {every, d[n]}
    PROVE  Without(d, v, every) = d
<1>1. Len(d) \in Nat OBVIOUS
<1>2. PICK f : /\ Without(d, v, every) = f[Len(d)]
               /\ \A n \in 0 .. Len(d) : f[n] = LeftStep(f, d, v, every, n)
  BY <1>1, WithoutIs
<1> DEFINE Is(n) == f[n] \in Seq(S) /\ Len(f[n]) = n /\ \A i \in 1 .. n : f[n][i] = d[i]
           bad == {n \in 0 .. Len(d) : ~Is(n)}
<1>3. SUFFICES ASSUME bad # {} PROVE FALSE
  <2>1. Is(Len(d)) BY <1>1, <1>3
  <2>2. f[Len(d)] = d BY <2>1, SeqEqual
  <2> QED BY <1>2, <2>2
<1>4. bad \subseteq Nat /\ \A n : n \in bad <=> n \in 0 .. Len(d) /\ ~Is(n) BY <1>1
<1> HIDE DEF bad
<1>5. PICK n \in bad : \A m \in bad : ~(m < n) BY <1>3, <1>4, LeastOf
<1>6. n \in 0 .. Len(d) /\ ~Is(n) BY <1>4
<1>7. CASE n = 0
  <2>1. f[0] = << >> BY <1>2, <1>6, <1>7 DEF LeftStep
  <2>2. << >> \in Seq(S) /\ Len(<< >>) = 0 BY EmptySeq
  <2> QED BY <1>6, <1>7, <2>1, <2>2
<1>8. CASE n # 0
  <2>1. n - 1 \in 0 .. Len(d) /\ n - 1 < n /\ n \in 1 .. Len(d) BY <1>6, <1>8
  <2>2. Is(n - 1) BY <1>4, <1>5, <2>1
  <2>3. f[n] = Append(f[n - 1], d[n]) BY <1>2, <1>6, <1>8, <2>1 DEF LeftStep
  <2>4. d[n] \in S BY <2>1
  <2>5. PICK g \in Seq(S) : g = f[n - 1] BY <2>2
  <2>6. Len(g) = n - 1 /\ \A i \in 1 .. n - 1 : g[i] = d[i] BY <2>2, <2>5
  <2>7. /\ Append(g, d[n]) \in Seq(S) /\ Len(Append(g, d[n])) = Len(g) + 1
        /\ \A i \in 1 .. Len(g) : Append(g, d[n])[i] = g[i]
        /\ Append(g, d[n])[Len(g) + 1] = d[n]
    BY <2>4, AppendProperties
  <2>8. \A i \in 1 .. n : i \in 1 .. n - 1 \/ i = n BY <2>1
  <2>9. Is(n) BY <2>1, <2>3, <2>5, <2>6, <2>7, <2>8
  <2> QED BY <1>6, <2>9
<1> QED BY <1>7, <1>8

-----------------------------------------------------------------------------
\* The links forth say which list it is.
LEMMA OneList ==
    ASSUME NEW s \in Seq(Nodes), NEW t \in Seq(Nodes), ForthOK(s), ForthOK(t)
    PROVE  s = t
<1> DEFINE bad == {n \in 0 .. Len(s) + 1 : n <= Len(t) + 1 /\ At(s, n) # At(t, n)}
<1>1. Len(s) \in Nat /\ Len(t) \in Nat OBVIOUS
<1>2. bad = {}
  <2>1. SUFFICES ASSUME bad # {} PROVE FALSE OBVIOUS
  <2>2. bad \subseteq Nat /\ \A n : n \in bad <=> n \in 0 .. Len(s) + 1 /\ n <= Len(t) + 1 /\ At(s, n) # At(t, n)
    BY <1>1
  <2> HIDE DEF bad
  <2>3. PICK n \in bad : \A m \in bad : ~(m < n) BY <2>1, <2>2, LeastOf
  <2>4. n \in 0 .. Len(s) + 1 /\ n <= Len(t) + 1 /\ At(s, n) # At(t, n) BY <2>2
  <2>5. n # 0
    <3>1. At(s, 0) = Head0 /\ At(t, 0) = Head0 BY AtFacts
    <3> QED BY <2>4, <3>1
  <2>6. n - 1 \in 0 .. Len(s) /\ n - 1 \in 0 .. Len(t) /\ n - 1 < n /\ (n - 1) + 1 = n
    BY <1>1, <2>4, <2>5
  <2>7. At(s, n - 1) = At(t, n - 1) BY <1>1, <2>2, <2>3, <2>6
  <2>8. At(s, n) = ring[At(s, n - 1)].next /\ At(t, n) = ring[At(t, n - 1)].next
    BY <2>6 DEF ForthOK
  <2> QED BY <2>4, <2>7, <2>8
<1>3. \A n \in 0 .. Len(s) + 1 : n <= Len(t) + 1 => At(s, n) = At(t, n) BY <1>2
<1> HIDE DEF bad
<1>4. Len(s) = Len(t)
  <2>1. ~(Len(s) < Len(t))
    <3>1. SUFFICES ASSUME Len(s) < Len(t) PROVE FALSE OBVIOUS
    <3>2. Len(s) + 1 \in 1 .. Len(t) /\ Len(s) + 1 \in 0 .. Len(s) + 1 /\ Len(s) + 1 \notin 1 .. Len(s)
      BY <1>1, <3>1
    <3> QED BY <1>1, <1>3, <3>2, AtFacts
  <2>2. ~(Len(t) < Len(s))
    <3>1. SUFFICES ASSUME Len(t) < Len(s) PROVE FALSE OBVIOUS
    <3>2. Len(t) + 1 \in 1 .. Len(s) /\ Len(t) + 1 \in 0 .. Len(s) + 1 /\ Len(t) + 1 \notin 1 .. Len(t)
      BY <1>1, <3>1
    <3> QED BY <1>1, <1>3, <3>2, AtFacts
  <2> QED BY <1>1, <2>1, <2>2
<1>5. \A n \in 1 .. Len(s) : s[n] = t[n]
  <2>1. SUFFICES ASSUME NEW n \in 1 .. Len(s) PROVE s[n] = t[n] OBVIOUS
  <2>2. n \in 0 .. Len(s) + 1 /\ n <= Len(t) + 1 /\ n \in 1 .. Len(t) BY <1>1, <1>4
  <2>3. At(s, n) = At(t, n) BY <1>3, <2>2
  <2> QED BY <2>2, <2>3, AtFacts
<1> QED BY <1>4, <1>5, SeqEqual


\* The values in the list s.
Vals(s) == [i \in 1 .. Len(s) |-> ring[s[i]].data]

\* What is committed, with the list at hand.
Now(s) ==
    IF sp = None \/ pc[sp] \in {"read", "idle"} THEN Vals(s)
    ELSE IF loc[sp].op = "add" THEN Append(Vals(s), ring[loc[sp].new].data)
    ELSE IF loc[sp].op = "read" THEN Vals(s)
    ELSE Without(Vals(s), loc[sp].v, Every)

OnlyList == \A s, t \in Seq(Nodes) : ForthOK(s) /\ ForthOK(t) => s = t
LEMMA IsOnlyList == OnlyList
BY OneList DEF OnlyList

CommittedNow == \A s \in Seq(Nodes) : SMPInv /\ SMPList(s) => Committed = Now(s)
LEMMA CommittedIs == CommittedNow
<1>1. SUFFICES ASSUME NEW s \in Seq(Nodes), SMPInv, SMPList(s) PROVE Committed = Now(s)
  BY DEF CommittedNow
<1>2. ForthOK(s) /\ Sequential(s) BY <1>1 DEF SMPList, Lists
<1>3. Len(s) <= MaxNodes /\ Len(s) \in Nat BY <1>2, DistinctLength
<1>4. Listed = Range(s) BY <1>2, <1>3, ListedRange
<1>5. Cardinality(Listed) = Len(s)
  <2>1. s \in Bijection(1 .. Len(s), Range(s))
    <3>1. s \in [1 .. Len(s) -> Range(s)] BY DEF Range
    <3>2. \A i, j \in 1 .. Len(s) : s[i] = s[j] => i = j BY <1>2 DEF Sequential
    <3>3. \A x \in Range(s) : \E i \in 1 .. Len(s) : s[i] = x BY DEF Range
    <3> QED BY <3>1, <3>2, <3>3 DEF Bijection, Injection, Surjection, IsInjective
  <2>2. IsFiniteSet(1 .. Len(s)) /\ Cardinality(1 .. Len(s)) = Len(s)
    <3>1. PICK n \in Nat : n = Len(s) BY <1>3
    <3>2. IsFiniteSet(1 .. n) /\ Cardinality(1 .. n) = n BY FS_Interval
    <3> QED BY <3>1, <3>2
  <2>3. ExistsBijection(1 .. Len(s), Range(s)) BY <2>1 DEF ExistsBijection
  <2> QED BY <1>4, <2>2, <2>3, FS_Bijection
<1>6. ListedData = Vals(s)
  <2>1. \A n \in 1 .. Len(s) : Path[n - 1] = s[n]
    <3>1. ASSUME NEW n \in 1 .. Len(s) PROVE Path[n - 1] = s[n]
      <4>1. n - 1 \in 0 .. Len(s) /\ (n - 1) + 1 = n BY <1>3
      <4>2. Path[n - 1] = At(s, n) BY <1>2, <1>3, <4>1, PathFollows
      <4> QED BY <4>2, AtFacts
    <3> QED BY <3>1
  <2> QED BY <1>5, <2>1 DEF ListedData, Vals
<1> QED BY <1>6 DEF Committed, Now

\* The list after a step is the one list that the links forth follow.
LEMMA ListAfter ==
    ASSUME SMPInv', NEW t \in Seq(Nodes), (ForthOK(t))'
    PROVE  (SMPList(t))' /\ Committed' = (Now(t))'
<1>1. OnlyList' /\ CommittedNow' BY IsOnlyList, CommittedIs, PTL
<1>2. PICK u \in Seq(Nodes) : (SMPList(u))' BY DEF SMPInv
<1>3. (ForthOK(u))' BY <1>2 DEF SMPList
<1>4. u = t BY <1>1, <1>3 DEF OnlyList
<1> QED BY <1>1, <1>2, <1>4 DEF CommittedNow

-----------------------------------------------------------------------------
(* How far each call has come. *)

\* A removal by p leaves node i.
Stays(p, i) == loc[p].v \notin {Every, ring[i].data}

\* Node i is in s, and a removal by p leaves all that precede it.
Behind(p, i, s) ==
    \E k \in 1 .. Len(s) + 1 : At(s, k) = i /\ \A j \in 1 .. k - 1 : Stays(p, s[j])

Told(p, s) ==
    LET l == loc[p]
    IN  /\ l.op = "add" => ring[l.new].data \in Values
        /\ pc[p] = "first" => l.text = << >>
        /\ pc[p] = "read" =>
            \E k \in 1 .. Len(s) + 1 :
                /\ At(s, k) = l.pos /\ Len(l.text) = k - 1
                /\ \A i \in 1 .. k - 1 : l.text[i] = s[i]
        /\ pc[p] \in {"walk", "del", "unlink"} => Behind(p, l.pos, s)
        /\ pc[p] = "free" => Behind(p, l.aux, s)
        /\ pc[p] \in {"del", "unlink"} => ~Stays(p, l.pos)

ToldList(s) == SMPList(s) /\ \A p \in Procs : Told(p, s)

\* A step of the shared list, or none.
AtOnce(before, after) ==
    \/ after = before /\ obs' = obs
    \/ \E v \in Values : after = Append(before, v) /\ obs' = obs
    \/ \E v \in Values \cup {Every} : after = Without(before, v, Every) /\ obs' = obs
    \/ \E p \in Procs : obs' = [obs EXCEPT ![p] = before] /\ after = before

\* After the step the list is t, and so is the shared one.
Follows(s, t) == t \in Seq(Nodes) /\ (ToldList(t))' /\ AtOnce(Now(s), (Now(t))')

\* The data of a node that is listed, or about to be, stays.
DataStays == \A i \in Live : ring'[i].data = ring[i].data

LEMMA SameVals ==
    ASSUME NEW s \in Seq(Nodes), SMPList(s), DataStays
    PROVE  /\ (Vals(s))' = Vals(s)
           /\ \A i \in 1 .. Len(s) : s[i] \in Live /\ ring'[s[i]].data = ring[s[i]].data
<1>1. Range(s) \subseteq Live BY DEF SMPList, Lists
<1>2. \A i \in 1 .. Len(s) : s[i] \in Range(s) BY DEF Range
<1>3. \A i \in 1 .. Len(s) : s[i] \in Live /\ ring'[s[i]].data = ring[s[i]].data
  BY <1>1, <1>2 DEF DataStays
<1> QED BY <1>3 DEF Vals

\* Nothing is committed as long as the lock, its holder's call and the data stay.
LEMMA SameNow ==
    ASSUME SMPInv, NEW s \in Seq(Nodes), SMPList(s), DataStays, sp' = sp,
           sp # None => /\ pc[sp] \in {"read", "idle"} <=> pc'[sp] \in {"read", "idle"}
                        /\ loc'[sp].op = loc[sp].op /\ loc'[sp].new = loc[sp].new /\ loc'[sp].v = loc[sp].v
    PROVE  (Now(s))' = Now(s)
<1>1. (Vals(s))' = Vals(s) BY SameVals
<1>2. sp \in Procs \cup {None} BY DEF SMPInv, LockOK
<1>3. sp # None /\ loc[sp].op = "add" => ring'[loc[sp].new].data = ring[loc[sp].new].data
  BY <1>2 DEF DataStays, SMPList, Lists
<1> QED BY <1>1, <1>3 DEF Now

\* What who does not hold the lock has come to does not depend on the list.
LEMMA ToldOutside ==
    ASSUME NEW s, SMPList(s), DataStays, NEW q \in Procs, Told(q, s), pc[q] \notin Locked,
           pc'[q] = pc[q], loc'[q] = loc[q], NEW t
    PROVE  (Told(q, t))'
<1>1. loc[q].op = "add" => ring'[loc[q].new].data = ring[loc[q].new].data
  BY DEF DataStays, SMPList, Lists
<1>2. pc[q] \notin {"read", "walk", "del", "unlink", "free"} BY DEF Locked, Deleting
<1> QED BY <1>1, <1>2 DEF Told

\* Who holds the lock has come as far if another makes a step.
LEMMA ToldHolder ==
    ASSUME SMPInv, NEW s \in Seq(Nodes), SMPList(s), DataStays, NEW q \in Procs, sp = q, Told(q, s),
           pc'[q] = pc[q], loc'[q] = loc[q]
    PROVE  (Told(q, s))'
<1>1. loc[q].op = "add" => ring'[loc[q].new].data = ring[loc[q].new].data
  BY DEF DataStays, SMPList, Lists
<1>2. \A i \in 1 .. Len(s) : ring'[s[i]].data = ring[s[i]].data BY SameVals
<1>3. \A i : Behind(q, i, s) => (Behind(q, i, s))' BY <1>2 DEF Behind, Stays
<1>4. pc[q] \in {"del", "unlink"} => ring'[loc[q].pos].data = ring[loc[q].pos].data
  <2>1. SUFFICES ASSUME pc[q] \in {"del", "unlink"}
                 PROVE  ring'[loc[q].pos].data = ring[loc[q].pos].data
    OBVIOUS
  <2>2. loc[q].pos # Head0 BY <2>1 DEF SMPInv, Control, InPlace
  <2>3. PICK k \in 1 .. Len(s) + 1 : At(s, k) = loc[q].pos BY <2>1 DEF Told, Behind
  <2>4. k \in 1 .. Len(s) /\ s[k] = loc[q].pos BY <2>2, <2>3, AtFacts
  <2> QED BY <1>2, <2>4
<1>5. pc[q] \in {"del", "unlink"} => (~Stays(q, loc[q].pos))' BY <1>4 DEF Told, Stays
<1> QED BY <1>1, <1>3, <1>5 DEF Told

\* A step of a process that does not hold the lock and links nothing.
LEMMA OutsideFollows ==
    ASSUME SMPInv, SMPInv', NEW s \in Seq(Nodes), ToldList(s), DataStays, NEW p \in Procs,
           Frame(p), sp # p, sp' = sp, (ForthOK(s))', (Told(p, s))', obs' = obs
    PROVE  Follows(s, s)
<1>1. SMPList(s) /\ \A q \in Procs : Told(q, s) BY DEF ToldList
<1>2. (SMPList(s))' BY ListAfter
<1>3. ASSUME NEW q \in Procs, q # p PROVE (Told(q, s))'
  <2>1. pc'[q] = pc[q] /\ loc'[q] = loc[q] BY <1>3 DEF Frame
  <2>2. CASE sp = q BY <1>1, <2>1, <2>2, ToldHolder
  <2>3. CASE sp # q
    <3>1. pc[q] \notin Locked BY <2>3 DEF SMPInv, LockOK
    <3> QED BY <1>1, <2>1, <3>1, ToldOutside
  <2> QED BY <2>2, <2>3
<1>4. (Now(s))' = Now(s)
  <2>1. sp \in Procs \cup {None} BY DEF SMPInv, LockOK
  <2>2. sp # None => pc'[sp] = pc[sp] /\ loc'[sp] = loc[sp] BY <2>1 DEF Frame
  <2> QED BY <1>1, <2>2, SameNow
<1> QED BY <1>2, <1>3, <1>4 DEF Follows, ToldList, AtOnce


\* A step of who holds the lock.
LEMMA HolderFollows ==
    ASSUME SMPInv, SMPInv', NEW s \in Seq(Nodes), ToldList(s), DataStays, NEW p \in Procs,
           Frame(p), sp = p, NEW t \in Seq(Nodes), (ForthOK(t))', (Told(p, t))',
           AtOnce(Now(s), (Now(t))')
    PROVE  Follows(s, t)
<1>1. SMPList(s) /\ \A q \in Procs : Told(q, s) BY DEF ToldList
<1>2. (SMPList(t))' BY ListAfter
<1>3. ASSUME NEW q \in Procs, q # p PROVE (Told(q, t))'
  <2>1. pc'[q] = pc[q] /\ loc'[q] = loc[q] BY <1>3 DEF Frame
  <2>2. pc[q] \notin Locked BY <1>3 DEF SMPInv, LockOK
  <2> QED BY <1>1, <2>1, <2>2, ToldOutside
<1> QED BY <1>2, <1>3 DEF Follows, ToldList

\* One that changes no link forth of the list.
LEMMA HolderStays ==
    ASSUME SMPInv, SMPInv', NEW s \in Seq(Nodes), ToldList(s), DataStays, NEW p \in Procs,
           Frame(p), sp = p, sp' = p, (ForthOK(s))', (Told(p, s))', obs' = obs,
           pc[p] \in {"read", "idle"} <=> pc'[p] \in {"read", "idle"},
           loc'[p].op = loc[p].op, loc'[p].new = loc[p].new, loc'[p].v = loc[p].v
    PROVE  Follows(s, s)
<1>1. SMPList(s) BY DEF ToldList
<1>2. (Now(s))' = Now(s) BY <1>1, SameNow
<1> QED BY <1>2, HolderFollows DEF AtOnce

LEMMA DataOfSame ==
    ASSUME ring' = ring
    PROVE  DataStays
BY DEF DataStays

LEMMA LockFollows ==
    ASSUME SMPInv, SMPInv', NEW s \in Seq(Nodes), ToldList(s), NEW p \in Procs, Lock(p)
    PROVE  Follows(s, s)
<1>1. /\ pc[p] \in {"prev", "first"} /\ sp = None /\ sp' = p /\ obs' = obs
      /\ ring' = ring /\ pc' = pc /\ loc' = loc
  BY DEF Lock, vars
<1>2. SMPList(s) /\ \A q \in Procs : Told(q, s) BY DEF ToldList
<1>3. (SMPList(s))'
  <2>1. (ForthOK(s))' BY <1>1, <1>2, SameLinks DEF SMPList
  <2> QED BY <2>1, ListAfter
<1>4. \A q \in Procs : (Told(q, s))'
  <2>1. \A q \in Procs : pc[q] \notin Locked BY <1>1, SMPAssumption DEF SMPInv, LockOK
  <2> QED BY <1>1, <1>2, <2>1, DataOfSame, ToldOutside
<1>5. Now(s) = Vals(s) BY <1>1 DEF Now
<1>6. (Vals(s))' = Vals(s) BY <1>1 DEF Vals
<1>7. InPlace(p) /\ loc[p] \in Locals BY DEF SMPInv, Control, Types
<1>8. /\ sp' # None /\ pc'[sp'] \notin {"read", "idle"}
      /\ loc'[sp'] = loc[p]
  BY <1>1, SMPAssumption
<1>9. AtOnce(Now(s), (Now(s))')
  <2>1. CASE loc[p].op = "add"
    <3>1. (Now(s))' = Append(Vals(s), ring[loc[p].new].data) BY <1>1, <1>6, <1>8, <2>1 DEF Now
    <3>2. ring[loc[p].new].data \in Values BY <1>2, <2>1 DEF Told
    <3> QED BY <1>1, <1>5, <3>1, <3>2 DEF AtOnce
  <2>2. CASE loc[p].op = "read"
    <3>1. (Now(s))' = Vals(s) BY <1>1, <1>6, <1>8, <2>2 DEF Now
    <3> QED BY <1>1, <1>5, <3>1 DEF AtOnce
  <2>3. CASE loc[p].op \notin {"add", "read"}
    <3>1. (Now(s))' = Without(Vals(s), loc[p].v, Every) BY <1>1, <1>6, <1>8, <2>3 DEF Now
    <3>2. loc[p].v \in Values \cup {Every} BY <1>7 DEF Locals
    <3> QED BY <1>1, <1>5, <3>1, <3>2 DEF AtOnce
  <2> QED BY <2>1, <2>2, <2>3
<1> QED BY <1>3, <1>4, <1>9 DEF Follows, ToldList

LEMMA CallFollows ==
    ASSUME SMPInv, SMPInv', NEW s \in Seq(Nodes), ToldList(s), NEW p \in Procs, SMPCall(p)
    PROVE  Follows(s, s)
<1>1. Call(p) /\ sp' = sp /\ obs' = obs BY DEF SMPCall
<1>2. Types' /\ Frame(p) /\ Types /\ InPlace(p) BY <1>1, SMPStepTypes
<1>3. SMPList(s) /\ ForthOK(s) /\ Told(p, s) BY DEF ToldList, SMPList
<1>4. sp # p
  <2>1. pc[p] = "idle" BY <1>1 DEF Call, CallAdd, CallRemove, CallUnload, CallRead, Enter
  <2> QED BY <2>1 DEF SMPInv, LockOK
<1>5. CASE CallAdd(p)
  <2>1. PICK i \in Nodes, v \in Values :
          /\ ring[i].state = "unused" /\ ring' = [ring EXCEPT ![i].state = "live", ![i].data = v]
          /\ Enter(p, "prev", [NoLocals EXCEPT !.op = "add", !.new = i])
    BY <1>5 DEF CallAdd
  <2>2. loc'[p].op = "add" /\ loc'[p].new = i /\ pc'[p] = "prev"
    BY <1>2, <2>1 DEF Enter, NoLocals, Types, Goto
  <2>3. i \in Links BY DEF Links
  <2>4. /\ ring'[i].data = v /\ ring'[i].next = ring[i].next
        /\ \A j \in Links : j # i => ring'[j] = ring[j]
    <3> DEFINE r == ring[i]
    <3>1. r \in NodeRecs /\ ring \in [Links -> NodeRecs] BY <1>2, <2>3 DEF Types
    <3>2. ring'[i] = [r EXCEPT !.state = "live", !.data = v] /\ \A j \in Links : j # i => ring'[j] = ring[j]
      BY <2>1, <2>3, <3>1
    <3> HIDE DEF r
    <3>3. LET n == [r EXCEPT !.state = "live", !.data = v] IN n.data = v /\ n.next = r.next
      BY <3>1 DEF NodeRecs
    <3> QED BY <3>2, <3>3 DEF r
  <2>5. DataStays
    <3>1. i \notin Live /\ \A j \in Live : j \in Links BY <2>1 DEF Live, Links
    <3> QED BY <2>4, <3>1 DEF DataStays
  <2>6. (ForthOK(s))'
    <3>1. \A j : At(s, j) \in Links BY AtFacts
    <3>2. \A j \in Links : ring'[j].next = ring[j].next BY <2>4
    <3> QED BY <1>3, <3>1, <3>2 DEF ForthOK
  <2>7. (Told(p, s))' BY <2>2, <2>4 DEF Told
  <2> QED BY <1>1, <1>2, <1>4, <2>5, <2>6, <2>7, OutsideFollows
<1>6. CASE CallRemove(p) \/ CallUnload(p) \/ CallRead(p)
  <2>1. ring' = ring BY <1>6 DEF CallRemove, CallUnload, CallRead
  <2>2. pc'[p] = "first" /\ loc'[p].text = << >> /\ loc'[p].op # "add"
    <3>1. pc \in [Procs -> PCs] /\ loc \in [Procs -> Locals] BY <1>2 DEF Types
    <3> QED BY <1>6, <3>1 DEF CallRemove, CallUnload, CallRead, Enter, Goto, NoLocals
  <2>3. (Told(p, s))' BY <2>2 DEF Told
  <2>4. (ForthOK(s))' BY <1>3, <2>1, SameLinks
  <2> QED BY <1>1, <1>2, <1>4, <2>1, <2>3, <2>4, DataOfSame, OutsideFollows
<1> QED BY <1>1, <1>5, <1>6 DEF Call

LEMMA UnlistFollows ==
    ASSUME SMPInv, SMPInv', NEW s \in Seq(Nodes), ToldList(s), NEW p \in Procs, Unlist(p), Unlock(p),
           obs' = obs
    PROVE  Follows(s, s)
<1>1. /\ pc[p] = "unlist" /\ Return(p) /\ loaded' = FALSE /\ \A q \in Procs \ {p} : ~InCall(q)
      /\ ring' = ring /\ overlap' = overlap /\ late' = late /\ misuse' = misuse
  BY DEF Unlist
<1>2. Types BY DEF SMPInv
<1>3. Stepping(p) /\ pc'[p] = "idle" /\ loc'[p] = NoLocals
  <2>1. loaded' \in BOOLEAN BY <1>1
  <2> QED BY <1>1, <1>2, <2>1, ReturnEffect
<1>4. Frame(p) BY <1>3 DEF Stepping
<1>5. sp # p /\ sp' = sp BY <1>1 DEF SMPInv, LockOK, Unlock
<1>6. (Told(p, s))' BY <1>3 DEF Told, NoLocals
<1>7. (ForthOK(s))'
  <2>1. ForthOK(s) BY DEF ToldList, SMPList
  <2> QED BY <1>1, <2>1, SameLinks
<1> QED BY <1>1, <1>4, <1>5, <1>6, <1>7, DataOfSame, OutsideFollows

-----------------------------------------------------------------------------
(* Reads. *)

LEMMA FirstReadFollows ==
    ASSUME SMPInv, SMPInv', NEW s \in Seq(Nodes), ToldList(s), NEW p \in Procs, sp = p, Unlock(p),
           obs' = obs, loc[p].op = "read", First(p)
    PROVE  Follows(s, s)
<1>1. Types /\ InPlace(p) BY DEF SMPInv, Control
<1>2. SMPList(s) /\ ForthOK(s) /\ Told(p, s) /\ Len(s) \in Nat BY DEF ToldList, SMPList
<1>3. /\ Stepping(p) /\ ring' = ring /\ pc[p] = "first" /\ pc'[p] = "read"
      /\ loc'[p] = [loc[p] EXCEPT !.pos = ring[Head0].next, !.aux = ring[ring[Head0].next].next]
  BY <1>1, FirstEffect
<1>4. Frame(p) BY <1>3 DEF Stepping
<1>5. sp' = p BY <1>3 DEF Unlock
<1>6. /\ loc'[p].op = loc[p].op /\ loc'[p].new = loc[p].new /\ loc'[p].v = loc[p].v
      /\ loc'[p].text = loc[p].text /\ loc'[p].pos = ring[Head0].next
  BY <1>1, <1>3, TypeFacts DEF Locals
<1>7. ring[Head0].next = At(s, 1)
  <2>1. At(s, 0) = Head0 /\ 0 \in 0 .. Len(s) /\ 0 + 1 = 1 BY AtFacts
  <2> QED BY <1>2, <2>1 DEF ForthOK
<1>8. (Told(p, s))'
  <2>1. loc'[p].text = << >> BY <1>2, <1>3, <1>6 DEF Told
  <2>2. Len(loc'[p].text) = 0 BY <2>1
  <2>3. 1 \in 1 .. Len(s) + 1 /\ 1 - 1 = 0 /\ \A i \in 1 .. 0 : FALSE BY <1>2
  <2> QED BY <1>3, <1>6, <1>7, <2>2, <2>3 DEF Told
<1>9. (ForthOK(s))' BY <1>2, <1>3, SameLinks
<1>10. Now(s) = Vals(s) /\ (Now(s))' = (Vals(s))' BY <1>3, <1>5, <1>6 DEF Now
<1>11. (Vals(s))' = Vals(s) BY <1>3 DEF Vals
<1>12. AtOnce(Now(s), (Now(s))') BY <1>10, <1>11 DEF AtOnce
<1> QED BY <1>3, <1>4, <1>8, <1>9, <1>12, DataOfSame, HolderFollows

LEMMA ReadLineFollows ==
    ASSUME SMPInv, SMPInv', NEW s \in Seq(Nodes), ToldList(s), NEW p \in Procs, ReadLine(p)
    PROVE  Follows(s, s)
<1>1. sp = p /\ ReadNode(p) /\ Unlock(p) /\ obs' = obs BY DEF ReadLine, Holds
<1>2. Types /\ InPlace(p) BY DEF SMPInv, Control
<1>3. SMPList(s) /\ ForthOK(s) /\ Told(p, s) /\ Len(s) \in Nat BY DEF ToldList, SMPList
<1>4. /\ Stepping(p) /\ ring' = ring /\ pc[p] = "read" /\ pc'[p] = "read" /\ loc[p].pos # Head0
      /\ loc'[p] = [loc[p] EXCEPT !.text = Append(loc[p].text, loc[p].pos),
                                  !.pos = ring[loc[p].pos].next]
  BY <1>1, <1>2, ReadNodeEffect
<1>5. Frame(p) /\ sp' = p BY <1>1, <1>4 DEF Stepping, Unlock
<1>6. loc'[p].op = "read" /\ loc[p].op = "read" /\ loc'[p].new = loc[p].new /\ loc'[p].v = loc[p].v
  BY <1>2, <1>4, TypeFacts DEF Locals, InPlace
<1>7. PICK text \in Seq(Nodes) : text = loc[p].text BY <1>2, TypeFacts DEF Locals
<1>8. PICK pos : pos = loc[p].pos OBVIOUS
<1>9. loc'[p].text = Append(text, pos) /\ loc'[p].pos = ring[pos].next
  BY <1>2, <1>4, <1>7, <1>8, TypeFacts DEF Locals
<1>10. PICK k \in 1 .. Len(s) + 1 :
          At(s, k) = pos /\ Len(text) = k - 1 /\ \A i \in 1 .. k - 1 : text[i] = s[i]
  BY <1>3, <1>4, <1>7, <1>8 DEF Told
<1>11. k \in 1 .. Len(s) /\ s[k] = pos /\ pos \in Nodes BY <1>4, <1>8, <1>10, AtFacts
<1>12. /\ Len(Append(text, pos)) = Len(text) + 1
       /\ \A i \in 1 .. Len(text) : Append(text, pos)[i] = text[i]
       /\ Append(text, pos)[Len(text) + 1] = pos
  BY <1>11, AppendProperties
<1>13. ring[pos].next = At(s, k + 1) BY <1>3, <1>10, <1>11 DEF ForthOK
<1>14. (Told(p, s))'
  <2>1. k + 1 \in 1 .. Len(s) + 1 /\ (k + 1) - 1 = k BY <1>3, <1>11
  <2>2. \A i \in 1 .. k : Append(text, pos)[i] = s[i] BY <1>10, <1>11, <1>12
  <2>3. Len(Append(text, pos)) = k BY <1>10, <1>12
  <2>4. \E n \in 1 .. Len(s) + 1 :
          /\ At(s, n) = loc'[p].pos /\ Len(loc'[p].text) = n - 1
          /\ \A i \in 1 .. n - 1 : loc'[p].text[i] = s[i]
    BY <1>9, <1>13, <2>1, <2>2, <2>3
  <2> QED BY <1>4, <1>6, <2>4 DEF Told
<1>15. (ForthOK(s))' BY <1>3, <1>4, SameLinks
<1> QED BY <1>1, <1>4, <1>5, <1>6, <1>14, <1>15, DataOfSame, HolderStays

LEMMA ReadOverFollows ==
    ASSUME SMPInv, SMPInv', NEW s \in Seq(Nodes), ToldList(s), NEW p \in Procs, ReadDone(p) \/ ReadFull(p)
    PROVE  Follows(s, s)
<1>1. /\ sp = p /\ pc[p] = "read" /\ Return(p) /\ Unlock(p)
      /\ ring' = ring /\ loaded' = loaded /\ overlap' = overlap /\ late' = late /\ misuse' = misuse
  BY DEF ReadDone, ReadFull, ReadEnd, Holds, UnlockFull
<1>2. Types BY DEF SMPInv
<1>3. SMPList(s) /\ ForthOK(s) /\ Told(p, s) /\ Len(s) \in Nat BY DEF ToldList, SMPList
<1>4. Stepping(p) /\ pc'[p] = "idle" /\ loc'[p] = NoLocals
  <2>1. loaded' \in BOOLEAN BY <1>1, <1>2 DEF Types
  <2> QED BY <1>1, <1>2, <2>1, ReturnEffect
<1>5. Frame(p) /\ sp' = None BY <1>1, <1>4 DEF Stepping, Unlock
<1>6. (Told(p, s))' BY <1>4 DEF Told, NoLocals
<1>7. (ForthOK(s))' BY <1>1, <1>3, SameLinks
<1>8. Now(s) = Vals(s) /\ (Now(s))' = (Vals(s))' BY <1>1, <1>5 DEF Now
<1>9. (Vals(s))' = Vals(s) BY <1>1 DEF Vals
<1>10. obs' = obs \/ obs' = [obs EXCEPT ![p] = Vals(s)]
  <2>1. CASE ReadFull(p) BY <2>1 DEF ReadFull
  <2>2. CASE ReadDone(p)
    <3>1. loc[p].pos = Head0 /\ (obs' = obs \/ obs' = [obs EXCEPT ![p] = Data(loc[p].text)])
      BY <2>2 DEF ReadDone, ReadEnd
    <3>2. PICK text \in Seq(Nodes) : text = loc[p].text BY <1>2, TypeFacts DEF Locals
    <3>3. PICK k \in 1 .. Len(s) + 1 :
            At(s, k) = Head0 /\ Len(text) = k - 1 /\ \A i \in 1 .. k - 1 : text[i] = s[i]
      BY <1>1, <1>3, <3>1, <3>2 DEF Told
    <3>4. k = Len(s) + 1 BY <1>3, <3>3, AtFacts
    <3>5. Len(text) = Len(s) /\ \A i \in 1 .. Len(s) : text[i] = s[i] BY <1>3, <3>3, <3>4
    <3>6. text = s BY <3>5, SeqEqual
    <3>7. Data(s) = Vals(s) BY DEF Data, Vals
    <3> QED BY <3>1, <3>2, <3>6, <3>7
  <2> QED BY <2>1, <2>2
<1>11. AtOnce(Now(s), (Now(s))') BY <1>8, <1>9, <1>10 DEF AtOnce
<1> QED BY <1>1, <1>5, <1>6, <1>7, <1>11, DataOfSame, HolderFollows


-----------------------------------------------------------------------------
(* Additions and removals. *)

LEMMA HolderHolds ==
    ASSUME SMPInv, NEW p \in Procs, sp = p, Writer(p), NEW s \in Seq(Nodes), SMPList(s)
    PROVE  Holding(p, s) /\ Sequential(s) /\ Len(s) \in Nat /\ ForthOK(s) /\ Phase(p, s)
<1>1. Lists(s) /\ Phase(p, s) /\ ForthOK(s) BY DEF SMPList
<1>2. loc[p].op = "add" => loc[p].new \in Live /\ loc[p].new \in Pending BY <1>1 DEF Lists, Pending
<1> QED BY <1>1, <1>2 DEF Holding, Lists

\* A step that takes no node away and ends no addition changes no link forth.
LEMMA LinksStay ==
    ASSUME SMPInv, NEW s \in Seq(Nodes), SMPList(s), NEW p \in Procs, sp = p, Writer(p),
           First(p) \/ AddStep(p) \/ Walk(p) \/ Del(p) \/ Unlink(p) \/ Free(p),
           Live' = Live, loc'[p].op = "none" => loc[p].op # "add"
    PROVE  (ForthOK(s))'
<1>1. Types /\ InPlace(p) BY DEF SMPInv, Control
<1>2. loc[p].op # "read" BY DEF Writer
<1>3. Holding(p, s) BY HolderHolds
<1>4. PICK t : Changed(p, s, t) BY <1>1, <1>2, <1>3, WriterRing
<1>5. ASSUME NEW k \in 1 .. Len(s), Live' = Live \ {At(s, k)} PROVE FALSE
  <2>1. At(s, k) \in Range(s) BY AtFacts
  <2>2. At(s, k) \in Live BY <2>1 DEF SMPList, Lists
  <2> QED BY <1>5, <2>2
<1>6. t = s BY <1>4, <1>5 DEF Changed
<1> QED BY <1>4, <1>6 DEF Changed

\* The nodes between which a link is stored keep their data and their state.
LEMMA StoredLinks ==
    ASSUME Types, NEW i \in Links, NEW n, Stored(i, n),
           n.data = ring[i].data, n.state = ring[i].state
    PROVE  DataStays /\ Live' = Live
<1>1. \A j \in Links : ring'[j].data = ring[j].data /\ ring'[j].state = ring[j].state BY DEF Stored
<1> QED BY <1>1 DEF DataStays, Live, Links

LEMMA AddPrevFollows ==
    ASSUME SMPInv, SMPInv', NEW s \in Seq(Nodes), ToldList(s), NEW p \in Procs, sp = p, Unlock(p),
           obs' = obs, AddPrev(p)
    PROVE  Follows(s, s)
<1>1. Types /\ InPlace(p) /\ SMPList(s) /\ Told(p, s) BY DEF SMPInv, Control, ToldList
<1>2. /\ Stepping(p) /\ ring' = ring /\ pc[p] = "prev" /\ pc'[p] = "addhead"
      /\ loc'[p] = [loc[p] EXCEPT !.prev = ring[Head0].prev]
  BY <1>1, AddPrevEffect
<1>3. loc[p].op = "add" /\ Writer(p) BY <1>1, <1>2 DEF InPlace, Adding, Writer
<1>4. loc'[p].op = "add" /\ loc'[p].new = loc[p].new /\ loc'[p].v = loc[p].v
  BY <1>1, <1>2, <1>3, TypeFacts DEF Locals
<1>5. (Told(p, s))' BY <1>1, <1>2, <1>3, <1>4 DEF Told
<1>6. (ForthOK(s))' BY <1>1, <1>2, SameLinks DEF SMPList
<1>7. Frame(p) /\ sp' = p BY <1>2 DEF Stepping, Unlock
<1> QED BY <1>2, <1>3, <1>4, <1>5, <1>6, <1>7, DataOfSame, HolderStays

LEMMA AddStoreFollows ==
    ASSUME SMPInv, SMPInv', NEW s \in Seq(Nodes), ToldList(s), NEW p \in Procs, sp = p, Unlock(p),
           obs' = obs, AddHead(p) \/ AddNode(p)
    PROVE  Follows(s, s)
<1>1. Types /\ InPlace(p) /\ SMPList(s) /\ Told(p, s) BY DEF SMPInv, Control, ToldList
<1>2. /\ Stepping(p) /\ DataStays /\ Live' = Live /\ pc[p] \in {"addhead", "addnode"}
      /\ pc'[p] \in {"addnode", "addlink"} /\ loc'[p] = loc[p]
  <2>1. CASE AddHead(p)
    <3>1. PICK n : n = [ring[Head0] EXCEPT !.prev = loc[p].new] OBVIOUS
    <3>2. Head0 \in Links /\ ring[Head0] \in NodeRecs BY <1>1, TypeFacts
    <3>3. n.data = ring[Head0].data /\ n.state = ring[Head0].state BY <3>1, <3>2 DEF NodeRecs
    <3> QED BY <1>1, <2>1, <3>1, <3>2, <3>3, AddHeadEffect, StoredLinks
  <2>2. CASE AddNode(p)
    <3>1. PICK i : i = loc[p].new OBVIOUS
    <3>2. PICK r : r = ring[i] OBVIOUS
    <3>3. i \in Links /\ r \in NodeRecs BY <1>1, <3>1, <3>2, TypeFacts
    <3>4. PICK n : n = [r EXCEPT !.next = Head0, !.prev = loc[p].prev] OBVIOUS
    <3>5. n.data = r.data /\ n.state = r.state BY <3>3, <3>4 DEF NodeRecs
    <3>6. Stored(i, n) BY <1>1, <2>2, <3>1, <3>2, <3>4, AddNodeEffect
    <3> QED BY <1>1, <2>2, <3>2, <3>3, <3>5, <3>6, AddNodeEffect, StoredLinks
  <2> QED BY <2>1, <2>2
<1>3. loc[p].op = "add" /\ Writer(p) BY <1>1, <1>2 DEF InPlace, Adding, Writer
<1>4. (Told(p, s))'
  <2>1. ring'[loc[p].new].data = ring[loc[p].new].data BY <1>1, <1>2, <1>3 DEF DataStays, SMPList, Lists
  <2> QED BY <1>1, <1>2, <1>3, <2>1 DEF Told
<1>5. (ForthOK(s))'
  <2>1. loc'[p].op # "none" BY <1>2, <1>3
  <2> QED BY <1>1, <1>2, <1>3, <2>1, LinksStay DEF AddStep
<1>6. Frame(p) /\ sp' = p BY <1>2 DEF Stepping, Unlock
<1> QED BY <1>2, <1>3, <1>4, <1>5, <1>6, HolderStays

LEMMA AddLinkFollows ==
    ASSUME SMPInv, SMPInv', NEW s \in Seq(Nodes), ToldList(s), NEW p \in Procs, sp = p, Unlock(p),
           obs' = obs, AddLink(p)
    PROVE  \E t : Follows(s, t)
<1>1. Types /\ InPlace(p) /\ SMPList(s) /\ Told(p, s) BY DEF SMPInv, Control, ToldList
<1>2. /\ Stepping(p) /\ pc[p] = "addlink" /\ pc'[p] = "idle" /\ loc'[p] = NoLocals
      /\ Stored(loc[p].prev, [ring[loc[p].prev] EXCEPT !.next = loc[p].new])
  BY <1>1, AddLinkEffect
<1>3. loc[p].op = "add" /\ Writer(p) /\ loc'[p].op = "none"
  BY <1>1, <1>2 DEF InPlace, Adding, Writer, NoLocals
<1>4. DataStays /\ Live' = Live
  <2>1. PICK i : i = loc[p].prev OBVIOUS
  <2>2. PICK r : r = ring[i] OBVIOUS
  <2>3. i \in Links /\ r \in NodeRecs BY <1>1, <2>1, <2>2, TypeFacts
  <2>4. PICK n : n = [r EXCEPT !.next = loc[p].new] OBVIOUS
  <2>5. n.data = r.data /\ n.state = r.state BY <2>3, <2>4 DEF NodeRecs
  <2> QED BY <1>1, <1>2, <2>1, <2>2, <2>3, <2>4, <2>5, StoredLinks
<1>5. PICK new : new = loc[p].new OBVIOUS
<1>6. new \in Live /\ new \in Nodes /\ ring'[new].data = ring[new].data
  BY <1>1, <1>3, <1>4, <1>5 DEF SMPList, Lists, DataStays, Live
<1>7. PICK t : t = Append(s, new) OBVIOUS
<1>8. /\ t \in Seq(Nodes) /\ Len(t) = Len(s) + 1 /\ Len(s) \in Nat
      /\ \A i \in 1 .. Len(s) : t[i] = s[i]
      /\ t[Len(s) + 1] = new
  BY <1>6, <1>7
<1>9. (ForthOK(t))'
  <2>1. Holding(p, s) BY <1>1, <1>3, HolderHolds
  <2>2. PICK u : Changed(p, s, u) BY <1>1, <1>3, <2>1, WriterRing DEF AddStep
  <2>3. u = t BY <1>3, <1>5, <1>7, <2>2 DEF Changed
  <2> QED BY <2>2, <2>3 DEF Changed
<1>10. Frame(p) /\ sp' = None BY <1>2 DEF Stepping, Unlock
<1>11. (Told(p, t))' BY <1>2 DEF Told, NoLocals
<1>12. Now(s) = Append(Vals(s), ring[new].data) BY <1>2, <1>3, <1>5, SMPAssumption DEF Now
<1>13. (Now(t))' = [i \in 1 .. Len(s) + 1 |-> ring'[t[i]].data] BY <1>8, <1>10 DEF Now, Vals
<1>14. Append(Vals(s), ring[new].data) = [i \in 1 .. Len(s) + 1 |-> ring'[t[i]].data]
  <2>1. \A i \in 1 .. Len(s) : ring'[t[i]].data = ring[s[i]].data BY <1>1, <1>4, <1>8, SameVals
  <2>2. ring'[t[Len(s) + 1]].data = ring[new].data BY <1>6, <1>8
  <2>3. PICK d : d = Vals(s) OBVIOUS
  <2>4. PICK n \in Nat : n = Len(s) BY <1>8
  <2>5. d = [i \in 1 .. n |-> ring[s[i]].data] BY <2>3, <2>4 DEF Vals
  <2>6. Len(d) = n BY <2>5
  <2>7. Append(d, ring[new].data) = [i \in 1 .. n + 1 |-> IF i = n + 1 THEN ring[new].data ELSE d[i]]
    BY <2>5, <2>6
  <2>8. \A i \in 1 .. n + 1 : ring'[t[i]].data = IF i = n + 1 THEN ring[new].data ELSE d[i]
    BY <2>1, <2>2, <2>4, <2>5
  <2> QED BY <2>3, <2>4, <2>7, <2>8
<1>15. AtOnce(Now(s), (Now(t))') BY <1>12, <1>13, <1>14 DEF AtOnce
<1> QED BY <1>4, <1>8, <1>9, <1>10, <1>11, <1>15, HolderFollows


LEMMA FirstWalkFollows ==
    ASSUME SMPInv, SMPInv', NEW s \in Seq(Nodes), ToldList(s), NEW p \in Procs, sp = p, Unlock(p),
           obs' = obs, loc[p].op # "read", First(p)
    PROVE  Follows(s, s)
<1>1. Types /\ InPlace(p) /\ SMPList(s) /\ ForthOK(s) /\ Len(s) \in Nat
  BY DEF SMPInv, Control, ToldList, SMPList
<1>2. /\ Stepping(p) /\ ring' = ring /\ pc[p] = "first" /\ pc'[p] = "walk"
      /\ loc'[p] = [loc[p] EXCEPT !.pos = ring[Head0].next, !.aux = ring[ring[Head0].next].next]
  BY <1>1, FirstEffect
<1>3. Frame(p) /\ sp' = p BY <1>2 DEF Stepping, Unlock
<1>4. /\ loc'[p].op = loc[p].op /\ loc'[p].new = loc[p].new /\ loc'[p].v = loc[p].v
      /\ loc'[p].pos = ring[Head0].next
  BY <1>1, <1>2, TypeFacts DEF Locals
<1>5. ring[Head0].next = At(s, 1)
  <2>1. At(s, 0) = Head0 /\ 0 \in 0 .. Len(s) /\ 0 + 1 = 1 BY AtFacts
  <2> QED BY <1>1, <2>1 DEF ForthOK
<1>6. (Behind(p, loc[p].pos, s))'
  <2>1. 1 \in 1 .. Len(s) + 1 /\ 1 - 1 = 0 /\ \A j \in 1 .. 0 : FALSE BY <1>1
  <2> QED BY <1>4, <1>5, <2>1 DEF Behind
<1>7. (Told(p, s))'
  <2>1. loc'[p].op # "add" BY <1>1, <1>2, <1>4 DEF InPlace
  <2> QED BY <1>2, <1>6, <2>1 DEF Told
<1>8. (ForthOK(s))' BY <1>1, <1>2, SameLinks
<1> QED BY <1>2, <1>3, <1>4, <1>7, <1>8, DataOfSame, HolderStays

\* A walk that is over has found nothing left to be removed.
LEMMA WalkOverFollows ==
    ASSUME SMPInv, SMPInv', NEW s \in Seq(Nodes), ToldList(s), NEW p \in Procs, sp = p, Unlock(p),
           obs' = obs, Walk(p), pc'[p] \in {"idle", "unlist"}
    PROVE  Follows(s, s)
<1>1. /\ Types /\ InPlace(p) /\ SMPList(s) /\ ForthOK(s) /\ Told(p, s) /\ Len(s) \in Nat
      /\ Range(s) \subseteq Live
  BY DEF SMPInv, Control, ToldList, SMPList, Lists
<1>2. Stepping(p) /\ ring' = ring /\ pc[p] = "walk" /\ loc[p].pos = Head0 BY <1>1, WalkEffect
<1>3. Frame(p) /\ sp' = None BY <1>2 DEF Stepping, Unlock
<1>4. (Told(p, s))'
  <2>1. (InPlace(p))' BY <1>2 DEF Stepping
  <2> QED BY <2>1 DEF InPlace, Told, Adding
<1>5. (ForthOK(s))' BY <1>1, <1>2, SameLinks
<1>6. loc[p].op \in {"delete", "unload"} BY <1>1, <1>2 DEF InPlace, Deleting
<1>7. Now(s) = Without(Vals(s), loc[p].v, Every) BY <1>2, <1>6, SMPAssumption DEF Now
<1>8. (Now(s))' = Vals(s) BY <1>2, <1>3 DEF Now, Vals
<1>9. Without(Vals(s), loc[p].v, Every) = Vals(s)
  <2>1. PICK k \in 1 .. Len(s) + 1 : At(s, k) = Head0 /\ \A j \in 1 .. k - 1 : Stays(p, s[j])
    BY <1>1, <1>2 DEF Told, Behind
  <2>2. k = Len(s) + 1 BY <1>1, <2>1, AtFacts
  <2>3. \A j \in 1 .. Len(s) : Stays(p, s[j]) BY <1>1, <2>1, <2>2
  <2>4. PICK n \in Nat : n = Len(s) BY <1>1
  <2>5. PICK d : d = [i \in 1 .. n |-> ring[s[i]].data] OBVIOUS
  <2>6. d = Vals(s) BY <2>4, <2>5 DEF Vals
  <2>7. \A i \in 1 .. n : ring[s[i]].data \in Values \cup {Every}
    <3>1. \A i \in 1 .. n : s[i] \in Links BY <2>4 DEF Links
    <3> QED BY <1>1, <3>1, TypeFacts DEF NodeRecs
  <2>8. d \in Seq(Values \cup {Every}) /\ Len(d) = n
    <3>1. d \in [1 .. n -> Values \cup {Every}] BY <2>5, <2>7
    <3> QED BY <3>1, <2>4, IsASeq, LenProperties
  <2>9. \A i \in 1 .. Len(d) : loc[p].v \notin {Every, d[i]} BY <2>3, <2>4, <2>5, <2>8 DEF Stays
  <2> QED BY <2>6, <2>8, <2>9, NoneWithout
<1>10. AtOnce(Now(s), (Now(s))') BY <1>7, <1>8, <1>9 DEF AtOnce
<1> QED BY <1>1, <1>2, <1>3, <1>4, <1>5, <1>10, DataOfSame, HolderFollows

\* Where a walk is in the list: what it will go on with is what comes next.
LEMMA WalkingAt ==
    ASSUME NEW s \in Seq(Nodes), Sequential(s), NEW p \in Procs, NEW n \in 1 .. Len(s) + 1,
           WalkAt(p, s, n), Behind(p, loc[p].pos, s), loc[p].pos # Head0
    PROVE  n \in 1 .. Len(s) /\ loc[p].aux = At(s, n + 1) /\ \A j \in 1 .. n - 1 : Stays(p, s[j])
<1>1. PICK k \in 1 .. Len(s) + 1 : At(s, k) = loc[p].pos /\ \A j \in 1 .. k - 1 : Stays(p, s[j])
  BY DEF Behind
<1>2. At(s, n) = loc[p].pos BY DEF WalkAt
<1>3. k = n BY <1>1, <1>2, AtDistinct
<1>4. n \in 1 .. Len(s) BY <1>2, AtFacts
<1> QED BY <1>1, <1>3, <1>4 DEF WalkAt

LEMMA WalkFollows ==
    ASSUME SMPInv, SMPInv', NEW s \in Seq(Nodes), ToldList(s), NEW p \in Procs, sp = p, Unlock(p),
           obs' = obs, Walk(p), pc'[p] \notin {"idle", "unlist"}
    PROVE  Follows(s, s)
<1>1. /\ Types /\ InPlace(p) /\ SMPList(s) /\ ForthOK(s) /\ Told(p, s) /\ Len(s) \in Nat
      /\ Sequential(s)
  BY DEF SMPInv, Control, ToldList, SMPList, Lists
<1>2. /\ Stepping(p) /\ ring' = ring /\ pc[p] = "walk" /\ loc[p].pos # Head0
      /\ \/ /\ loc[p].v \in {Every, ring[loc[p].pos].data} /\ pc'[p] = "del" /\ loc'[p] = loc[p]
         \/ /\ loc[p].v \notin {Every, ring[loc[p].pos].data} /\ pc'[p] = "walk"
            /\ loc'[p] = [loc[p] EXCEPT !.pos = loc[p].aux, !.aux = ring[loc[p].aux].next]
  BY <1>1, WalkEffect
<1>3. Frame(p) /\ sp' = p BY <1>2 DEF Stepping, Unlock
<1>4. loc[p].op \in {"delete", "unload"} /\ Writer(p) BY <1>1, <1>2 DEF InPlace, Deleting, Writer
<1>5. (ForthOK(s))' BY <1>1, <1>2, SameLinks
<1>6. Behind(p, loc[p].pos, s) BY <1>1, <1>2 DEF Told
<1>7. CASE loc[p].v \in {Every, ring[loc[p].pos].data} /\ pc'[p] = "del" /\ loc'[p] = loc[p]
  <2>1. (Behind(p, loc[p].pos, s))' BY <1>2, <1>6, <1>7 DEF Behind, Stays
  <2>2. (~Stays(p, loc[p].pos))' BY <1>2, <1>7 DEF Stays
  <2>3. (Told(p, s))' BY <1>4, <1>7, <2>1, <2>2 DEF Told
  <2> QED BY <1>2, <1>3, <1>5, <1>7, <2>3, DataOfSame, HolderStays
<1>8. CASE /\ loc[p].v \notin {Every, ring[loc[p].pos].data} /\ pc'[p] = "walk"
           /\ loc'[p] = [loc[p] EXCEPT !.pos = loc[p].aux, !.aux = ring[loc[p].aux].next]
  <2>1. /\ loc'[p].op = loc[p].op /\ loc'[p].new = loc[p].new /\ loc'[p].v = loc[p].v
        /\ loc'[p].pos = loc[p].aux
    BY <1>1, <1>8, TypeFacts DEF Locals
  <2>2. Phase(p, s) BY <1>1, <1>4 DEF SMPList
  <2>3. PICK n \in 1 .. Len(s) + 1 : WalkAt(p, s, n) BY <1>2, <2>2 DEF Phase
  <2>4. n \in 1 .. Len(s) /\ loc[p].aux = At(s, n + 1) /\ \A j \in 1 .. n - 1 : Stays(p, s[j])
    BY <1>1, <1>2, <1>6, <2>3, WalkingAt
  <2>5. Stays(p, s[n])
    <3>1. loc[p].pos = s[n] BY <2>3, <2>4, AtFacts DEF WalkAt
    <3> QED BY <1>8, <3>1 DEF Stays
  <2>6. n + 1 \in 1 .. Len(s) + 1 /\ \A j \in 1 .. (n + 1) - 1 : Stays(p, s[j]) BY <1>1, <2>4, <2>5
  <2>7. (Behind(p, loc[p].pos, s))' BY <1>2, <2>1, <2>4, <2>6 DEF Behind, Stays
  <2>8. (Told(p, s))' BY <1>4, <1>8, <2>1, <2>7 DEF Told
  <2> QED BY <1>2, <1>3, <1>5, <1>8, <2>1, <2>8, DataOfSame, HolderStays
<1> QED BY <1>2, <1>7, <1>8

\* The list that a step leaves alone is behind a walk as it was.
LEMMA BehindStays ==
    ASSUME NEW s \in Seq(Nodes), SMPList(s), DataStays, NEW p \in Procs, loc'[p].v = loc[p].v, NEW i,
           Behind(p, i, s)
    PROVE  (Behind(p, i, s))'
<1>1. \A j \in 1 .. Len(s) : ring'[s[j]].data = ring[s[j]].data BY SameVals
<1>2. \A j \in 1 .. Len(s) : Stays(p, s[j]) => (Stays(p, s[j]))' BY <1>1 DEF Stays
<1> QED BY <1>2 DEF Behind

LEMMA DelFollows ==
    ASSUME SMPInv, SMPInv', NEW s \in Seq(Nodes), ToldList(s), NEW p \in Procs, sp = p, Unlock(p),
           obs' = obs, Del(p)
    PROVE  Follows(s, s)
<1>1. Types /\ InPlace(p) /\ SMPList(s) /\ Told(p, s) BY DEF SMPInv, Control, ToldList
<1>2. PICK i : i = ring[loc[p].pos].next OBVIOUS
<1>3. PICK r : r = ring[i] OBVIOUS
<1>4. PICK q : q = ring[loc[p].pos].prev OBVIOUS
<1>5. /\ Stepping(p) /\ pc[p] = "del" /\ pc'[p] = "unlink"
      /\ loc'[p] = [loc[p] EXCEPT !.prev = q, !.succ = i]
      /\ Stored(i, [r EXCEPT !.prev = q])
  BY <1>1, <1>2, <1>3, <1>4, DelEffect
<1>6. i \in Links /\ r \in NodeRecs BY <1>1, <1>2, <1>3, TypeFacts
<1>7. DataStays /\ Live' = Live
  <2>1. PICK n : n = [r EXCEPT !.prev = q] OBVIOUS
  <2>2. n.data = r.data /\ n.state = r.state BY <1>6, <2>1 DEF NodeRecs
  <2> QED BY <1>1, <1>3, <1>5, <1>6, <2>1, <2>2, StoredLinks
<1>8. /\ loc'[p].op = loc[p].op /\ loc'[p].new = loc[p].new /\ loc'[p].v = loc[p].v
      /\ loc'[p].pos = loc[p].pos
  BY <1>1, <1>5, TypeFacts DEF Locals
<1>9. loc[p].op \in {"delete", "unload"} /\ Writer(p) /\ loc[p].pos # Head0
  BY <1>1, <1>5 DEF InPlace, Deleting, Writer
<1>10. (ForthOK(s))' BY <1>1, <1>7, <1>8, <1>9, LinksStay
<1>11. Frame(p) /\ sp' = p BY <1>5 DEF Stepping, Unlock
<1>12. (Behind(p, loc[p].pos, s))' /\ (~Stays(p, loc[p].pos))'
  <2>1. Behind(p, loc[p].pos, s) /\ ~Stays(p, loc[p].pos) BY <1>1, <1>5 DEF Told
  <2>2. PICK j : j = loc[p].pos OBVIOUS
  <2>3. (Behind(p, j, s))' BY <1>1, <1>7, <1>8, <2>1, <2>2, BehindStays
  <2>4. PICK k \in 1 .. Len(s) + 1 : At(s, k) = j BY <2>1, <2>2 DEF Behind
  <2>5. k \in 1 .. Len(s) /\ s[k] = j BY <1>9, <2>2, <2>4, AtFacts
  <2>6. ring'[j].data = ring[j].data BY <1>1, <1>7, <2>5, SameVals
  <2> QED BY <1>8, <2>1, <2>2, <2>3, <2>6 DEF Stays
<1>13. (Told(p, s))' BY <1>5, <1>8, <1>9, <1>12 DEF Told
<1> QED BY <1>5, <1>7, <1>8, <1>10, <1>11, <1>13, HolderStays


LEMMA UnlinkFollows ==
    ASSUME SMPInv, SMPInv', NEW s \in Seq(Nodes), ToldList(s), NEW p \in Procs, sp = p, Unlock(p),
           obs' = obs, Unlink(p)
    PROVE  \E t : Follows(s, t)
<1>1. Types /\ InPlace(p) /\ SMPList(s) /\ Told(p, s) /\ Range(s) \subseteq Live
  BY DEF SMPInv, Control, ToldList, SMPList, Lists
<1>2. /\ Stepping(p) /\ pc[p] = "unlink" /\ pc'[p] = "free" /\ loc'[p] = loc[p]
      /\ \A j \in Links :
           /\ ring'[j].data = ring[j].data
           /\ ring'[j].state = IF j = loc[p].pos THEN "poisoned" ELSE ring[j].state
  BY <1>1, UnlinkEffect
<1>3. loc[p].op \in {"delete", "unload"} /\ Writer(p) /\ loc[p].pos # Head0
  BY <1>1, <1>2 DEF InPlace, Deleting, Writer
<1>4. Holding(p, s) /\ Sequential(s) /\ Len(s) \in Nat /\ Phase(p, s) BY <1>1, <1>3, HolderHolds
<1>5. PICK n \in 1 .. Len(s) : WalkAt(p, s, n) BY <1>2, <1>4 DEF Phase
<1>6. /\ loc[p].aux = At(s, n + 1) /\ \A j \in 1 .. n - 1 : Stays(p, s[j])
      /\ loc[p].pos = s[n] /\ s[n] \in Live /\ s[n] \in Links
  <2>1. Behind(p, loc[p].pos, s) BY <1>1, <1>2 DEF Told
  <2>2. n \in 1 .. Len(s) + 1 BY <1>4
  <2>3. loc[p].pos = s[n] /\ s[n] \in Range(s) /\ s[n] \in Links BY <1>5, AtFacts DEF WalkAt
  <2> QED BY <1>1, <1>3, <1>4, <1>5, <2>1, <2>2, <2>3, WalkingAt
<1>7. DataStays BY <1>2 DEF DataStays, Live, Links
<1>8. PICK t : Changed(p, s, t) BY <1>1, <1>3, <1>4, WriterRing
<1>9. t = Drop(s, n)
  <2>1. s[n] \notin Live' BY <1>2, <1>6 DEF Live
  <2>2. PICK k \in 1 .. Len(s) : t = Drop(s, k) /\ Live' = Live \ {At(s, k)}
    BY <1>3, <1>6, <1>8, <2>1 DEF Changed
  <2>3. At(s, k) = At(s, n) BY <1>6, <2>1, <2>2, AtFacts
  <2>4. k = n BY <1>4, <2>3, AtDistinct
  <2> QED BY <2>2, <2>4
<1>10. /\ t \in Seq(Nodes) /\ Len(t) = Len(s) - 1
       /\ \A i \in 1 .. Len(t) : t[i] = IF i < n THEN s[i] ELSE s[i + 1]
       /\ \A i \in n .. Len(s) : At(t, i) = At(s, i + 1)
  <2>1. Sequential(t) /\ Len(t) = Len(s) - 1 /\ \A i \in n .. Len(s) : At(t, i) = At(s, i + 1)
    BY <1>4, <1>9, AtDrop
  <2> QED BY <1>9, <2>1 DEF Drop, Sequential
<1>11. Frame(p) /\ sp' = p BY <1>2 DEF Stepping, Unlock
<1>12. \A i \in 1 .. Len(s) : ring'[s[i]].data = ring[s[i]].data BY <1>1, <1>7, SameVals
<1>13. (Behind(p, loc[p].aux, t))'
  <2>1. n \in 1 .. Len(t) + 1 /\ At(t, n) = loc[p].aux BY <1>4, <1>6, <1>10
  <2>2. ASSUME NEW j \in 1 .. n - 1 PROVE (Stays(p, t[j]))'
    <3>1. j \in 1 .. Len(t) /\ t[j] = s[j] /\ j \in 1 .. Len(s) BY <1>4, <1>10
    <3> QED BY <1>2, <1>6, <1>12, <3>1 DEF Stays
  <2> QED BY <1>2, <2>1, <2>2 DEF Behind
<1>14. (Told(p, t))' BY <1>2, <1>3, <1>13 DEF Told
<1>15. (ForthOK(t))' BY <1>8 DEF Changed
<1>16. PICK d : d = Vals(s) OBVIOUS
<1>17. Len(d) = Len(s) /\ \A i \in 1 .. Len(s) : d[i] = ring[s[i]].data
  <2>1. PICK m \in Nat : m = Len(s) BY <1>4
  <2>2. d = [i \in 1 .. m |-> ring[s[i]].data] BY <1>16, <2>1 DEF Vals
  <2> QED BY <2>1, <2>2
<1>18. (Vals(t))' = Drop(d, n)
  <2>1. (Vals(t))' = [i \in 1 .. Len(t) |-> ring'[t[i]].data] BY DEF Vals
  <2>2. \A i \in 1 .. Len(t) : ring'[t[i]].data = IF i < n THEN d[i] ELSE d[i + 1]
    <3>1. SUFFICES ASSUME NEW i \in 1 .. Len(t)
                   PROVE  ring'[t[i]].data = IF i < n THEN d[i] ELSE d[i + 1]
      OBVIOUS
    <3>2. t[i] = IF i < n THEN s[i] ELSE s[i + 1] BY <1>10
    <3>3. i \in 1 .. Len(s) /\ i + 1 \in 1 .. Len(s) BY <1>4, <1>10
    <3> QED BY <1>12, <1>17, <3>2, <3>3
  <2> QED BY <1>10, <1>17, <2>1, <2>2 DEF Drop
<1>19. Without(Drop(d, n), loc[p].v, Every) = Without(d, loc[p].v, Every)
  <2>1. loc[p].v \in {Every, d[n]} BY <1>1, <1>2, <1>6, <1>17 DEF Told, Stays
  <2>2. Len(Drop(d, n)) = Len(d) - 1
    <3>1. Len(d) - 1 \in Nat BY <1>4, <1>17
    <3>2. PICK m \in Nat : m = Len(d) - 1 BY <3>1
    <3> QED BY <3>2 DEF Drop
  <2> QED BY <1>4, <1>17, <2>1, <2>2, DropWithout
<1>20. Now(s) = Without(d, loc[p].v, Every) BY <1>2, <1>3, <1>16, SMPAssumption DEF Now
<1>21. (Now(t))' = Without(Drop(d, n), loc[p].v, Every)
  <2>1. sp' # None /\ pc'[sp'] = "free" /\ loc'[sp'] = loc[p] BY <1>2, <1>11, SMPAssumption
  <2> QED BY <1>3, <1>18, <2>1 DEF Now
<1>22. AtOnce(Now(s), (Now(t))') BY <1>19, <1>20, <1>21 DEF AtOnce
<1> QED BY <1>7, <1>10, <1>11, <1>14, <1>15, <1>22, HolderFollows

LEMMA FreeFollows ==
    ASSUME SMPInv, SMPInv', NEW s \in Seq(Nodes), ToldList(s), NEW p \in Procs, sp = p, Unlock(p),
           obs' = obs, Free(p)
    PROVE  Follows(s, s)
<1>1. Types /\ InPlace(p) /\ SMPList(s) /\ Told(p, s) BY DEF SMPInv, Control, ToldList
<1>2. /\ Stepping(p) /\ pc[p] = "free" /\ pc'[p] = "walk"
      /\ loc'[p] = [loc[p] EXCEPT !.pos = loc[p].aux, !.aux = ring[loc[p].aux].next,
                                  !.prev = Head0, !.succ = Head0]
      /\ Stored(loc[p].pos, [Unused EXCEPT !.state = "freed"])
  BY <1>1, FreeEffect
<1>3. loc[p].op \in {"delete", "unload"} /\ Writer(p) BY <1>1, <1>2 DEF InPlace, Deleting, Writer
<1>4. /\ loc'[p].op = loc[p].op /\ loc'[p].new = loc[p].new /\ loc'[p].v = loc[p].v
      /\ loc'[p].pos = loc[p].aux
  <2>1. PICK l : l = loc[p] OBVIOUS
  <2>2. l \in Locals BY <1>1, <2>1, TypeFacts
  <2>3. PICK m : m = [l EXCEPT !.pos = l.aux, !.aux = ring[l.aux].next, !.prev = Head0, !.succ = Head0]
    OBVIOUS
  <2>4. m.op = l.op /\ m.new = l.new /\ m.v = l.v /\ m.pos = l.aux BY <2>2, <2>3 DEF Locals
  <2> QED BY <1>2, <2>1, <2>3, <2>4
<1>5. DataStays /\ Live' = Live
  <2>1. PICK i : i = loc[p].pos OBVIOUS
  <2>2. Phase(p, s) BY <1>1, <1>3 DEF SMPList
  <2>3. ring[i].state = "poisoned" /\ i \in Links BY <1>1, <1>2, <2>1, <2>2, TypeFacts DEF Phase
  <2>4. ring'[i].state = "freed" /\ \A j \in Links : j # i => ring'[j] = ring[j]
    BY <1>2, <2>1 DEF Stored, Unused
  <2>5. i \notin Live /\ \A j \in Live : j \in Links BY <2>3 DEF Live, Links
  <2>6. DataStays BY <2>4, <2>5 DEF DataStays
  <2>7. \A j \in Nodes : ring'[j].state = "live" <=> ring[j].state = "live"
    BY <2>3, <2>4 DEF Links
  <2> QED BY <2>6, <2>7 DEF Live
<1>6. (ForthOK(s))' BY <1>1, <1>3, <1>4, <1>5, LinksStay
<1>7. Frame(p) /\ sp' = p BY <1>2 DEF Stepping, Unlock
<1>8. (Behind(p, loc[p].pos, s))'
  <2>1. PICK i : i = loc[p].aux OBVIOUS
  <2>2. Behind(p, i, s) BY <1>1, <1>2, <2>1 DEF Told
  <2>3. (Behind(p, i, s))' BY <1>1, <1>4, <1>5, <2>2, BehindStays
  <2> QED BY <1>4, <2>1, <2>3
<1>9. (Told(p, s))' BY <1>2, <1>3, <1>4, <1>8 DEF Told
<1> QED BY <1>2, <1>4, <1>5, <1>6, <1>7, <1>9, HolderStays

-----------------------------------------------------------------------------
(* Against the shared list. *)

AtomicInv == SMPInv /\ \E s \in Seq(Nodes) : ToldList(s)

LEMMA WriteFollows ==
    ASSUME SMPInv, SMPInv', NEW s \in Seq(Nodes), ToldList(s), NEW p \in Procs, WriteStep(p)
    PROVE  \E t : Follows(s, t)
<1>1. Unlock(p) /\ obs' = obs /\ (sp = p \/ pc[p] = "unlist") BY DEF WriteStep, Holds
<1>2. CASE Unlist(p) BY <1>1, <1>2, UnlistFollows
<1>3. CASE First(p) \/ AddStep(p) \/ Walk(p) \/ Del(p) \/ Unlink(p) \/ Free(p)
  <2>1. sp = p
    BY <1>1, <1>3 DEF First, AddStep, AddPrev, AddHead, AddNode, AddLink, Walk, Del, Unlink, Free
  <2>2. CASE First(p) BY <1>1, <2>1, <2>2, FirstReadFollows, FirstWalkFollows
  <2>3. CASE AddStep(p) BY <1>1, <2>1, <2>3, AddPrevFollows, AddStoreFollows, AddLinkFollows DEF AddStep
  <2>4. CASE Walk(p) BY <1>1, <2>1, <2>4, WalkOverFollows, WalkFollows
  <2>5. CASE Del(p) BY <1>1, <2>1, <2>5, DelFollows
  <2>6. CASE Unlink(p) BY <1>1, <2>1, <2>6, UnlinkFollows
  <2>7. CASE Free(p) BY <1>1, <2>1, <2>7, FreeFollows
  <2> QED BY <1>3, <2>2, <2>3, <2>4, <2>5, <2>6, <2>7
<1> QED BY <1>2, <1>3 DEF WriteStep, DeleteStep

\* A step of the list is a step of the shared list, or none.
LEMMA NextAtomic ==
    ASSUME AtomicInv, [SMPNext]_smp
    PROVE  AtomicInv' /\ AtOnce(Committed, Committed')
<1>1. SMPInv /\ SMPInv' BY NextSMPInv DEF AtomicInv
<1>2. PICK s \in Seq(Nodes) : ToldList(s) BY DEF AtomicInv
<1>3. Committed = Now(s) BY <1>1, <1>2, CommittedIs DEF CommittedNow, ToldList
<1>4. \E t : Follows(s, t)
  <2>1. CASE SMPNext
    <3>1. PICK p \in Procs : SMPCall(p) \/ SMPStep(p) BY <2>1 DEF SMPNext
    <3> QED BY <1>1, <1>2, <3>1, CallFollows, LockFollows, WriteFollows, ReadLineFollows,
               ReadOverFollows DEF SMPStep
  <2>2. CASE UNCHANGED smp
    <3>1. ring' = ring /\ pc' = pc /\ loc' = loc /\ sp' = sp /\ obs' = obs
      BY <2>2 DEF smp, vars
    <3>2. (ForthOK(s))' BY <1>2, <3>1, SameLinks DEF ToldList, SMPList
    <3>3. (SMPList(s))' BY <1>1, <3>2, ListAfter
    <3>4. \A p \in Procs : (Told(p, s))' BY <1>2, <3>1 DEF ToldList, Told, Behind, Stays
    <3>5. (Now(s))' = Now(s) BY <3>1 DEF Now, Vals
    <3> QED BY <3>1, <3>3, <3>4, <3>5 DEF Follows, ToldList, AtOnce
  <2> QED BY <2>1, <2>2
<1>5. PICK t : Follows(s, t) BY <1>4
<1>6. t \in Seq(Nodes) /\ (ToldList(t))' BY <1>5 DEF Follows
<1>7. Committed' = (Now(t))' BY <1>1, <1>6, ListAfter DEF ToldList, SMPList
<1> QED BY <1>1, <1>3, <1>5, <1>6, <1>7 DEF Follows, AtomicInv

LEMMA InitAtomic ==
    ASSUME SMPInit
    PROVE  AtomicInv /\ Committed = << >>
<1>1. SMPInv BY InitSMPInv
<1>2. PICK s \in Seq(Nodes) : SMPList(s) BY <1>1 DEF SMPInv
<1>3. Range(s) = {}
  <2>1. \A i \in Nodes : ring[i].state # "live" BY DEF SMPInit, Init, Unused, Head0, Nodes, Links
  <2> QED BY <1>2, <2>1 DEF SMPList, Lists, Live
<1>4. Len(s) = 0
  <2>1. \A i \in 1 .. Len(s) : s[i] \in Range(s) BY DEF Range
  <2>2. Len(s) \in Nat OBVIOUS
  <2> QED BY <1>3, <2>1, <2>2
<1>5. \A p \in Procs : Told(p, s)
  <2>1. \A p \in Procs : pc[p] = "idle" /\ loc[p].op = "none" BY DEF SMPInit, Init, NoLocals
  <2> QED BY <2>1 DEF Told
<1>6. Committed = Vals(s)
  <2>1. Committed = Now(s) BY <1>1, <1>2, CommittedIs DEF CommittedNow
  <2> QED BY <2>1 DEF Now, SMPInit
<1>7. Vals(s) = << >> BY <1>4 DEF Vals
<1> QED BY <1>1, <1>2, <1>5, <1>6, <1>7 DEF AtomicInv, ToldList

\* The list of SMPmodlist.c is a list that changes and is read at once: an addition
\* or removal takes effect when its call gets the lock, and a read when it ends.
THEOREM SMPListIsAtomic == ListsSpec => SMPIsAtomic
<1> DEFINE I == version = "smp" => AtomicInv
           contents == IF version = "smp" THEN Committed ELSE << >>
<1>1. ListsInit => I /\ Atomic!Init
  <2>1. SUFFICES ASSUME ListsInit PROVE I /\ Atomic!Init OBVIOUS
  <2>2. SMPInit BY <2>1 DEF ListsInit
  <2>3. obs = [p \in Procs |-> << >>] BY <2>2 DEF SMPInit
  <2> QED BY <2>2, <2>3, InitAtomic DEF Atomic!Init
<1>2. ASSUME I, [ListsNext]_<<vars, smpOnly, seqOnly, version>>
      PROVE  I' /\ [Atomic!Next]_<<contents, obs>>
  <2>1. version' = version BY <1>2 DEF ListsNext
  <2>2. CASE version = "smp"
    <3>1. [SMPNext]_smp BY <1>2, <2>2 DEF ListsNext, smpOnly, smp
    <3>2. AtomicInv' /\ AtOnce(Committed, Committed') BY <1>2, <2>2, <3>1, NextAtomic
    <3>3. contents = Committed /\ contents' = Committed' BY <2>1, <2>2
    <3>4. AtOnce(contents, contents') BY <3>2, <3>3
    <3>5. [Atomic!Next]_<<contents, obs>>
      <4>1. \A d, v, every : Atomic!Without(d, v, every) = Without(d, v, every)
        BY DEF Without, Atomic!Without
      <4>2. CASE \E v \in Values : contents' = Append(contents, v) /\ obs' = obs
        BY <4>2 DEF Atomic!Next, Atomic!Add
      <4>3. CASE \E v \in Values \cup {Every} : contents' = Without(contents, v, Every) /\ obs' = obs
        BY <4>1, <4>3 DEF Atomic!Next, Atomic!Remove
      <4>4. CASE \E p \in Procs : obs' = [obs EXCEPT ![p] = contents] /\ contents' = contents
        BY <4>4 DEF Atomic!Next, Atomic!Read
      <4>5. CASE contents' = contents /\ obs' = obs BY <4>5
      <4> QED BY <3>4, <4>2, <4>3, <4>4, <4>5 DEF AtOnce
    <3> QED BY <3>2, <3>5
  <2>3. CASE version # "smp"
    <3>1. obs' = obs BY <1>2, <2>3 DEF ListsNext, smpOnly
    <3>2. contents' = contents BY <2>1, <2>3
    <3> QED BY <2>1, <2>3, <3>1, <3>2
  <2> QED BY <2>2, <2>3
<1> HIDE DEF I
<1> QED BY <1>1, <1>2, PTL DEF ListsSpec, SMPIsAtomic, Atomic!Spec

-----------------------------------------------------------------------------
(* The sequence file of modlist2.c. *)

USE SeqAssumption

\* Quotient and remainder are the only ones.
LEMMA Remainder ==
    ASSUME NEW c \in Nat \ {0}, NEW q \in Int, NEW r \in 0 .. c - 1
    PROVE  (q * c + r) % c = r
<1>1. PICK u \in Int, v \in 0 .. c - 1 : q * c + r = u * c + v /\ v = (q * c + r) % c
  <2>1. PICK b \in Int : b = q * c + r OBVIOUS
  <2>2. b = (b \div c) * c + (b % c) /\ b \div c \in Int /\ b % c \in 0 .. c - 1 OBVIOUS
  <2> QED BY <2>1, <2>2
<1>2. (q - u) * c = v - r /\ q - u \in Int BY <1>1
<1>3. \A a \in Int : (a >= 1 => a * c >= c) /\ (a <= -1 => a * c <= -c) OBVIOUS
<1>4. q = u BY <1>2, <1>3
<1> QED BY <1>1, <1>2, <1>4

LEMMA NextRemainder ==
    ASSUME NEW b \in Nat, NEW c \in Nat \ {0}
    PROVE  /\ b % c \in 0 .. c - 1 /\ b % c <= b /\ 0 % c = 0
           /\ (b + 1) % c = IF (b % c) + 1 = c THEN 0 ELSE (b % c) + 1
<1>1. PICK q \in Int, r \in 0 .. c - 1 : b = q * c + r /\ r = b % c
  <2>1. b = (b \div c) * c + (b % c) /\ b \div c \in Int /\ b % c \in 0 .. c - 1 OBVIOUS
  <2> QED BY <2>1
<1>2. CASE r + 1 = c
  <2>1. b + 1 = (q + 1) * c + 0 /\ q + 1 \in Int /\ 0 \in 0 .. c - 1 BY <1>1, <1>2
  <2>2. (b + 1) % c = 0 BY <2>1, Remainder
  <2> QED BY <1>1, <1>2, <2>2
<1>3. CASE r + 1 # c
  <2>1. b + 1 = q * c + (r + 1) /\ r + 1 \in 0 .. c - 1 BY <1>1, <1>3
  <2>2. (b + 1) % c = r + 1 BY <2>1, Remainder
  <2> QED BY <1>1, <1>3, <2>2
<1> QED BY <1>2, <1>3

\* As many values as there are places, if they are distinct.
LEMMA DistinctCount ==
    ASSUME NEW n \in Nat, NEW s, \A i, j \in 1 .. n : s[i] = s[j] => i = j
    PROVE  Cardinality({s[i] : i \in 1 .. n}) = n
<1> DEFINE S == {s[i] : i \in 1 .. n}
           f == [i \in 1 .. n |-> s[i]]
<1>1. f \in Bijection(1 .. n, S) BY DEF Bijection, Injection, Surjection, IsInjective
<1>2. ExistsBijection(1 .. n, S) BY <1>1 DEF ExistsBijection
<1> HIDE DEF S
<1>3. Cardinality(S) = n BY <1>2, FS_CountingElements
<1> QED BY <1>3 DEF S

\* The nodes of a list that is in order are told by how many are before them.
LEMMA OrderedCount ==
    ASSUME NEW s \in Seq(Nodes), \A i, j \in 1 .. Len(s) : i < j => s[i] < s[j]
    PROVE  /\ Cardinality(Range(s)) = Len(s)
           /\ \A k \in 1 .. Len(s) : Cardinality({j \in Range(s) : j < s[k]}) = k - 1
<1>1. Len(s) \in Nat /\ DOMAIN s = 1 .. Len(s) /\ \A i \in 1 .. Len(s) : s[i] \in Nat
  <2>1. Nodes \subseteq Nat BY DEF Nodes
  <2>2. Len(s) \in Nat /\ DOMAIN s = 1 .. Len(s) /\ \A i \in 1 .. Len(s) : s[i] \in Nodes OBVIOUS
  <2> QED BY <2>1, <2>2
<1>2. \A i, j \in 1 .. Len(s) : s[i] = s[j] => i = j BY <1>1
<1>3. Cardinality(Range(s)) = Len(s)
  <2>1. PICK n \in Nat : n = Len(s) BY <1>1
  <2>2. \A i, j \in 1 .. n : s[i] = s[j] => i = j BY <1>2, <2>1
  <2>3. Cardinality({s[i] : i \in 1 .. n}) = n BY <2>2, DistinctCount
  <2>4. Range(s) = {s[i] : i \in 1 .. n} BY <1>1, <2>1 DEF Range
  <2> QED BY <2>1, <2>3, <2>4
<1>4. ASSUME NEW k \in 1 .. Len(s) PROVE Cardinality({j \in Range(s) : j < s[k]}) = k - 1
  <2>1. {j \in Range(s) : j < s[k]} = {s[i] : i \in 1 .. k - 1}
    <3>1. \A i \in 1 .. Len(s) : s[i] < s[k] <=> i < k BY <1>1
    <3>2. \A i : i \in 1 .. k - 1 <=> i \in 1 .. Len(s) /\ i < k BY <1>1
    <3> QED BY <1>1, <3>1, <3>2 DEF Range
  <2>2. k - 1 \in Nat /\ \A i, j \in 1 .. k - 1 : s[i] = s[j] => i = j BY <1>1, <1>2
  <2> QED BY <2>1, <2>2, DistinctCount
<1> QED BY <1>3, <1>4

\* A node is unlinked and still to be freed.
Freeing == \E p \in Procs : pc[p] = "free"
\* The nodes that were ever allocated.
Allocated == {i \in Nodes : ring[i].state # "unused"}

\* The processes list rather than read, and no listing has shown more lines than
\* nodes were ever counted.
SeqControl ==
    /\ off \in [Procs -> Nat] /\ numElems \in Int /\ headShown \in BOOLEAN
    /\ numElems <= Cardinality(Allocated)
    /\ \A p \in Procs :
        /\ pc[p] # "read" /\ (pc[p] = "first" => loc[p].op # "read")
        /\ pc[p] = "show" => loc[p].aux <= off[p] /\ off[p] < MaxNodes
        /\ pc[p] = "next" => loc[p].aux <= off[p] + 1 /\ off[p] < MaxNodes

\* A node that was unlinked is counted until it is freed.
CountInv == overlap < 3 => numElems = Cardinality(Live) + (IF Freeing THEN 1 ELSE 0)

\* Where a listing of s is: off lines were shown, in parts of Chunk lines each of which
\* began with the first node.
Lines(p, s) ==
    LET l == loc[p]
        lines == IF pc[p] = "next" THEN off[p] + 1 ELSE off[p]
    IN  /\ Len(l.text) = lines /\ lines <= Len(s)
        /\ \A i \in 1 .. lines : l.text[i] = At(s, 1 + ((i - 1) % Chunk))
        /\ pc[p] \in {"start", "pause"} => off[p] % Chunk = 0 \/ off[p] = Len(s)
        /\ pc[p] = "show" => /\ off[p] < Len(s)
                             /\ l.aux = off[p] % Chunk /\ l.pos = At(s, l.aux + 1)
        /\ pc[p] = "next" => l.aux = (off[p] % Chunk) + 1 /\ l.pos = At(s, l.aux)
        /\ pc[p] = "end" => off[p] = Len(s)

LinesInv ==
    overlap = 0 =>
        /\ ~headShown
        /\ \A s \in Seq(Nodes) : ForthOK(s) => \A p \in Procs : loc[p].op = "read" => Lines(p, s)

SeqInv == IInv /\ SeqControl /\ CountInv /\ LinesInv

ListingStep(p) ==
    SeqCallRead(p) \/ SeqReadOn(p) \/ Start(p) \/ Show(p) \/ SeqNextNode(p) \/ SeqEnd(p)

-----------------------------------------------------------------------------
(* The steps of a listing. *)

\* There are MaxNodes nodes at most, allocated or live.
LEMMA NodesCount ==
    /\ IsFiniteSet(Nodes) /\ Cardinality(Nodes) = MaxNodes
    /\ IsFiniteSet(Live) /\ Cardinality(Live) \in Nat
    /\ IsFiniteSet(Allocated) /\ Cardinality(Allocated) \in Nat
    /\ Cardinality(Allocated) <= MaxNodes
<1>1. IsFiniteSet(Nodes) /\ Cardinality(Nodes) = MaxNodes
  <2>1. IsFiniteSet(1 .. MaxNodes)
        /\ Cardinality(1 .. MaxNodes) = IF 1 > MaxNodes THEN 0 ELSE MaxNodes - 1 + 1
    BY FS_Interval
  <2>2. Cardinality(1 .. MaxNodes) = MaxNodes BY <2>1
  <2> QED BY <2>1, <2>2 DEF Nodes
<1>2. Live \subseteq Nodes /\ Allocated \subseteq Nodes BY DEF Live, Allocated
<1> QED BY <1>1, <1>2, FS_Subset, FS_CardinalityType

\* What a step of a listing is to the others.
LEMMA ListingTypes ==
    ASSUME IInv, SeqControl, NEW p \in Procs, ListingStep(p)
    PROVE  /\ Stepped(p) /\ Clashes' /\ UNCHANGED <<ring, loaded, late, numElems>>
           /\ loc[p].op \in {"read", "none"} /\ loc'[p].op \in {"read", "none"}
           /\ loc[p].new = Head0 /\ loc'[p].new = Head0
           /\ pc[p] \in Listing \cup {"idle"} /\ pc'[p] \in Listing \cup {"idle"}
           /\ overlap \in 0 .. 3 /\ overlap' \in 0 .. 3 /\ overlap <= overlap'
           /\ pc[p] = "idle" => loaded
<1>1. /\ Types /\ Control /\ Clashes /\ InPlace(p) /\ overlap \in 0 .. 3
      /\ loc[p] \in Locals /\ pc[p] \in PCs
      /\ ring \in [Links -> NodeRecs] /\ ring[Head0].state = "live"
      /\ loaded \in BOOLEAN /\ late \in BOOLEAN /\ misuse \in BOOLEAN
  BY TypeFacts DEF IInv, Control, Types
<1>2. UNCHANGED <<ring, loaded, late, numElems>>
  BY DEF ListingStep, SeqCallRead, SeqReadOn, Start, Show, SeqNextNode, SeqEnd
<1>3. Listing \subseteq PCs /\ "idle" \in PCs BY DEF PCs
<1>4. CASE SeqCallRead(p)
  <2> DEFINE l == [NoLocals EXCEPT !.op = "read"]
  <2>1. l \in Locals /\ l.op = "read" /\ l.new = Head0 BY NoLocalsType DEF Locals, Ops, NoLocals
  <2>2. Enter(p, "start", l) /\ "start" \in Listing BY <1>4 DEF SeqCallRead, Listing
  <2> HIDE DEF l
  <2>3. /\ pc' \in [Procs -> PCs] /\ loc' \in [Procs -> Locals]
        /\ pc[p] = "idle" /\ loaded /\ pc'[p] = "start" /\ loc'[p] = l /\ Frame(p)
        /\ overlap' \in 0 .. 3 /\ overlap <= overlap' /\ misuse' = misuse
    BY <1>1, <1>3, <2>1, <2>2, EnterFacts
  <2>4. Clashes' BY <1>1, <1>3, <2>1, <2>2, CallClashes
  <2>5. Types' BY <1>1, <1>2, <2>3 DEF Types
  <2>6. loc[p].op = "none" /\ loc[p].new = Head0 BY <1>1, <2>3 DEF InPlace
  <2>7. (InPlace(p))' BY <2>1, <2>3 DEF InPlace, Adding, Deleting, Listing
  <2> QED BY <1>1, <1>2, <2>1, <2>2, <2>3, <2>4, <2>5, <2>6, <2>7 DEF Stepped
<1>5. CASE SeqReadOn(p)
  <2>1. /\ pc[p] = "pause" /\ pc' = [pc EXCEPT ![p] = "start"] /\ loc' = loc /\ misuse' = misuse
        /\ overlap' = LET clashes == {Clash("read", loc[q].op) : q \in {q \in Procs \ {p} : InCall(q)}}
                      IN  CHOOSE n \in clashes \cup {overlap} : \A c \in clashes \cup {overlap} : c <= n
    BY <1>5 DEF SeqReadOn, Goto
  <2>2. loc[p].op = "read" /\ loc[p].new = Head0 BY <1>1, <2>1 DEF InPlace, Listing
  <2>3. /\ overlap' \in 0 .. 3 /\ overlap <= overlap'
        /\ \A q \in Procs \ {p} : InCall(q) => Clash("read", loc[q].op) <= overlap'
    BY <1>1, <2>1, WorstClash
  <2>4. /\ pc' \in [Procs -> PCs] /\ loc' \in [Procs -> Locals] /\ pc'[p] = "start"
        /\ loc'[p] = loc[p] /\ Frame(p) /\ "start" \in Listing /\ "pause" \in Listing
    BY <1>1, <1>3, <2>1 DEF Types, Frame, Listing
  <2>5. Clashes' BY <1>1, <2>2, <2>3, <2>4, JoinClashes
  <2>6. Types' BY <1>1, <1>2, <2>1, <2>3, <2>4 DEF Types
  <2>7. (InPlace(p))' BY <1>1, <2>1, <2>2, <2>4 DEF InPlace, Adding, Deleting, Listing
  <2> QED BY <1>1, <1>2, <2>1, <2>2, <2>3, <2>4, <2>5, <2>6, <2>7 DEF Stepped
<1>6. ASSUME NEW place \in Listing \cup {"idle"}, NEW l \in Locals,
             pc[p] \in Listing, overlap' = overlap, misuse' \in BOOLEAN,
             pc' = [pc EXCEPT ![p] = place], loc' = [loc EXCEPT ![p] = l],
             \/ place \in Listing /\ l.op = loc[p].op /\ l.new = loc[p].new
             \/ place = "idle" /\ l = NoLocals
      PROVE  /\ Stepping(p) /\ InCall(p) /\ pc'[p] = place /\ loc'[p] = l
             /\ loc[p].op = "read" /\ l.op \in {"read", "none"}
             /\ loc[p].new = Head0 /\ l.new = Head0
  <2>1. Types' /\ Frame(p) /\ pc'[p] = place /\ loc'[p] = l
    BY <1>1, <1>2, <1>3, <1>6, EffectType
  <2>2. loc[p].op = "read" /\ loc[p].new = Head0 BY <1>1, <1>6 DEF InPlace
  <2>3. l.op \in {"read", "none"} /\ l.new = Head0 BY <1>6, <2>2 DEF NoLocals
  <2>4. (InPlace(p))' BY <1>6, <2>1, <2>2 DEF InPlace, Adding, Deleting, Listing, NoLocals
  <2>5. InCall(p) BY <1>6 DEF InCall, Listing
  <2> QED BY <1>2, <1>6, <2>1, <2>2, <2>3, <2>4, <2>5 DEF Stepping
<1>7. CASE Start(p) \/ Show(p) \/ SeqNextNode(p) \/ SeqEnd(p)
  <2>1. \E place \in Listing \cup {"idle"}, l \in Locals :
            /\ pc[p] \in Listing /\ overlap' = overlap /\ misuse' \in BOOLEAN
            /\ pc' = [pc EXCEPT ![p] = place] /\ loc' = [loc EXCEPT ![p] = l]
            /\ \/ place \in Listing /\ l.op = loc[p].op /\ l.new = loc[p].new
               \/ place = "idle" /\ l = NoLocals
    <3>1. CASE loc' = loc /\ ~SeqEnd(p)
      <4>1. loc' = [loc EXCEPT ![p] = loc[p]] BY <1>1, <3>1 DEF Types
      <4>2. /\ pc[p] \in Listing /\ overlap' = overlap /\ misuse' \in BOOLEAN
            /\ \E place \in Listing : pc' = [pc EXCEPT ![p] = place]
        BY <1>1, <1>7, <3>1 DEF Start, Show, SeqNextNode, Goto, Touch, Listing
      <4> QED BY <1>1, <4>1, <4>2
    <3>2. CASE SeqEnd(p)
      BY <1>1, <3>2, NoLocalsType DEF SeqEnd, Return, Goto, Listing
    <3>3. CASE Start(p) /\ loc' # loc
      <4> DEFINE l == [loc[p] EXCEPT !.pos = ring[Head0].next, !.aux = 0]
      <4>1. /\ pc[p] = "start" /\ overlap' = overlap /\ misuse' = misuse
            /\ pc' = [pc EXCEPT ![p] = "show"] /\ loc' = [loc EXCEPT ![p] = l]
        BY <3>3 DEF Start, Goto
      <4>2. l \in Locals /\ l.op = loc[p].op /\ l.new = loc[p].new
        <5>1. 0 \in Links /\ ring[Head0].next \in Links BY <1>1, TypeFacts DEF Links, Head0
        <5> QED BY <1>1, <5>1 DEF Locals
      <4> HIDE DEF l
      <4>3. "start" \in Listing /\ "show" \in Listing BY DEF Listing
      <4> QED BY <1>1, <4>1, <4>2, <4>3
    <3>4. CASE Show(p) /\ loc' # loc
      <4> DEFINE l == [loc[p] EXCEPT !.text = Append(loc[p].text, loc[p].pos), !.aux = loc[p].aux + 1]
      <4>1. /\ pc[p] = "show" /\ overlap' = overlap /\ misuse' \in BOOLEAN /\ loc[p].pos # Head0
            /\ pc' = [pc EXCEPT ![p] = "next"] /\ loc' = [loc EXCEPT ![p] = l]
        BY <1>1, <3>4 DEF Show, Goto, Touch, Types
      <4>2. l \in Locals /\ l.op = loc[p].op /\ l.new = loc[p].new
        <5>1. loc[p].pos \in Nodes /\ loc[p].text \in Seq(Nodes) BY <1>1, <4>1 DEF Locals, Links
        <5>2. Append(loc[p].text, loc[p].pos) \in Seq(Nodes) BY <5>1
        <5>3. loc[p].aux \in Links /\ loc[p].aux <= off[p] /\ off[p] < MaxNodes /\ off[p] \in Nat
          BY <1>1, <4>1 DEF SeqControl, Locals
        <5>4. loc[p].aux + 1 \in Links BY <5>3 DEF Links, Nodes, Head0
        <5> QED BY <1>1, <5>2, <5>4 DEF Locals
      <4> HIDE DEF l
      <4>3. "next" \in Listing /\ "show" \in Listing BY DEF Listing
      <4> QED BY <1>1, <4>1, <4>2, <4>3
    <3>5. CASE SeqNextNode(p) /\ loc' # loc
      <4> DEFINE l == [loc[p] EXCEPT !.pos = ring[loc[p].pos].next]
      <4>1. /\ pc[p] = "next" /\ overlap' = overlap /\ misuse' \in BOOLEAN
            /\ pc' = [pc EXCEPT ![p] = "show"] /\ loc' = [loc EXCEPT ![p] = l]
        BY <1>1, <3>5 DEF SeqNextNode, Goto, Touch, Types
      <4>2. l \in Locals /\ l.op = loc[p].op /\ l.new = loc[p].new
        <5>1. ring[loc[p].pos].next \in Links BY <1>1, TypeFacts
        <5> QED BY <1>1, <5>1 DEF Locals
      <4> HIDE DEF l
      <4>3. "next" \in Listing /\ "show" \in Listing BY DEF Listing
      <4> QED BY <1>1, <4>1, <4>2, <4>3
    <3> QED BY <1>7, <3>1, <3>2, <3>3, <3>4, <3>5
  <2>2. /\ Stepping(p) /\ InCall(p) /\ pc'[p] \in Listing \cup {"idle"} /\ pc[p] \in Listing
        /\ loc[p].op = "read" /\ loc'[p].op \in {"read", "none"}
        /\ loc[p].new = Head0 /\ loc'[p].new = Head0
    BY <1>6, <2>1
  <2>3. Clashes' BY <1>1, <2>2, StepClashes
  <2> QED BY <1>1, <1>2, <2>2, <2>3 DEF Stepping, Stepped, InCall
<1> QED BY <1>4, <1>5, <1>7 DEF ListingStep

\* The node after one of the list, or after the head, is on it.
LEMMA NextOnList ==
    ASSUME Types, NEW s \in Seq(Nodes), ListIs(s), NEW i \in Range(s) \cup {Head0}
    PROVE  ring[i].next \in Range(s) \cup {Head0} /\ ring[i].state = "live"
<1>1. PICK k \in 0 .. Len(s) : i = At(s, k)
  <2>1. At(s, 0) = Head0 /\ 0 \in 0 .. Len(s) BY AtFacts
  <2>2. \A k \in 1 .. Len(s) : k \in 0 .. Len(s) BY AtFacts
  <2> QED BY <2>1, <2>2, AtFacts
<1>2. ring[i].next = At(s, k + 1) BY <1>1 DEF ListIs, ForthOK
<1>3. At(s, k + 1) \in Range(s) \cup {Head0} BY AtFacts
<1>4. ring[i].state = "live" BY DEF Types, ListIs, Lists, Live
<1> QED BY <1>2, <1>3, <1>4

LEMMA ListingSeen ==
    ASSUME IInv, SeqControl, NEW p \in Procs, ListingStep(p), NEW s \in Seq(Nodes), ListIs(s),
           overlap' < 2
    PROVE  ~misuse' /\ (loc'[p].op = "read" => (Seen(p, s))')
<1>1. /\ pc'[p] \in Listing \cup {"idle"} /\ Stepped(p) /\ overlap \in 0 .. 3 /\ overlap <= overlap'
      /\ overlap' \in 0 .. 3
  BY ListingTypes
<1>2. overlap < 2 /\ ~misuse BY <1>1 DEF IInv, ListInv
<1>3. Types /\ loc[p] \in Locals /\ ring[Head0].next \in Links BY TypeFacts DEF IInv
<1>4. pc[p] \in Listing => loc[p].pos \in Range(s) \cup {Head0}
  <2>1. pc[p] \in Listing => loc[p].op = "read" BY DEF IInv, Control, InPlace
  <2> QED BY <1>2, <2>1 DEF ListIs, Seen
<1>5. ~misuse' /\ (pc'[p] \in Listing => loc'[p].pos \in Range(s) \cup {Head0})
  <2>1. CASE SeqCallRead(p)
    BY <1>2, <1>3, <2>1 DEF SeqCallRead, Enter, NoLocals, Goto, Types
  <2>2. CASE SeqReadOn(p) BY <1>2, <1>4, <2>2 DEF SeqReadOn, Listing
  <2>3. CASE Start(p)
    <3>1. ring[Head0].next \in Range(s) \cup {Head0} BY <1>3, NextOnList
    <3>2. loc'[p].pos \in {loc[p].pos, ring[Head0].next} BY <1>3, <2>3 DEF Start, Types, Locals
    <3>3. misuse' = misuse /\ pc[p] \in Listing BY <2>3 DEF Start, Listing
    <3> QED BY <1>2, <1>4, <3>1, <3>2, <3>3
  <2>4. CASE Show(p)
    <3>1. pc[p] = "show" BY <2>4 DEF Show
    <3>2. loc[p].pos \in Range(s) \cup {Head0} BY <1>4, <3>1 DEF Listing
    <3>3. ring[loc[p].pos].state = "live" BY <1>3, <3>2, NextOnList
    <3>4. ~misuse'
      <4>1. misuse' = misuse \/ misuse' = (misuse \/ ring[loc[p].pos].state # "live")
        BY <2>4 DEF Show, Touch
      <4> QED BY <1>2, <3>3, <4>1, Zenon
    <3>5. loc'[p].pos = loc[p].pos BY <1>3, <2>4 DEF Show, Types, Locals
    <3> QED BY <3>2, <3>4, <3>5
  <2>5. CASE SeqNextNode(p)
    <3>1. pc[p] = "next" BY <2>5 DEF SeqNextNode
    <3>2. loc[p].pos \in Range(s) \cup {Head0} BY <1>4, <3>1 DEF Listing
    <3>3. ring[loc[p].pos].state = "live" /\ ring[loc[p].pos].next \in Range(s) \cup {Head0}
      BY <1>3, <3>2, NextOnList
    <3>4. ~misuse'
      <4>1. misuse' = misuse \/ misuse' = (misuse \/ ring[loc[p].pos].state # "live")
        BY <2>5 DEF SeqNextNode, Touch
      <4> QED BY <1>2, <3>3, <4>1, Zenon
    <3>5. loc'[p].pos = loc[p].pos \/ loc'[p].pos = ring[loc[p].pos].next
      BY <1>3, <2>5 DEF SeqNextNode, Types, Locals
    <3> QED BY <3>2, <3>3, <3>4, <3>5
  <2>6. CASE SeqEnd(p) BY <1>2, <1>3, <2>6 DEF SeqEnd, Return, Goto, Types, Listing
  <2> QED BY <2>1, <2>2, <2>3, <2>4, <2>5, <2>6 DEF ListingStep
<1>6. loc'[p].op = "read" => pc'[p] \in Listing
  <2>1. (InPlace(p))' BY <1>1 DEF Stepped
  <2> QED BY <1>1, <2>1 DEF InPlace
<1> QED BY <1>5, <1>6 DEF Seen

\* A step of a listing keeps what the lists of modlist.c keep.
LEMMA ListingKeepsList ==
    ASSUME IInv, SeqControl, NEW p \in Procs, ListingStep(p)
    PROVE  IInv'
<1>1. /\ Stepped(p) /\ Clashes' /\ UNCHANGED <<ring, loaded>>
      /\ loc[p].op \in {"read", "none"} /\ loc'[p].op \in {"read", "none"}
      /\ loc[p].new = Head0 /\ loc'[p].new = Head0
      /\ pc[p] \in Listing \cup {"idle"} /\ pc'[p] \in Listing \cup {"idle"}
      /\ overlap \in 0 .. 3 /\ overlap' \in 0 .. 3 /\ overlap <= overlap'
      /\ pc[p] = "idle" => loaded
  BY ListingTypes
<1>2. Types' /\ Control' BY <1>1, NextControl DEF IInv, Stepped
<1>3. ASSUME overlap' < 3
      PROVE  UnloadInv' /\ (\E s \in Seq(Nodes) : ListIs(s))' /\ (overlap' < 2 => ~misuse')
  <2>1. overlap < 3 BY <1>1, <1>3
  <2>2. PICK s \in Seq(Nodes) : ListIs(s) BY <2>1, ListFacts
  <2>3. overlap' < 2 => ~misuse' /\ (loc'[p].op = "read" => (Seen(p, s))') BY <2>2, ListingSeen
  <2>4. loaded
    <3>1. pc[p] # "idle" => InCall(p) BY DEF InCall
    <3> QED BY <1>1, <2>1, <3>1 DEF IInv, ListInv, UnloadInv
  <2>5. ~Writer(p) /\ Frame(p) /\ pc'[p] # "unlist" BY <1>1 DEF Writer, Stepped, Listing
  <2>6. overlap' < 2 => overlap < 2 BY <1>1
  <2> QED BY <1>1, <2>1, <2>2, <2>3, <2>4, <2>5, <2>6, ReadLists
<1>4. ListInv'
  <2>1. overlap' < 2 => overlap' < 3 BY <1>1
  <2> QED BY <1>3, <2>1 DEF ListInv
<1> QED BY <1>1, <1>2, <1>4 DEF IInv

\* What the count is, it stays.
LEMMA ListingCounts ==
    ASSUME SeqInv, NEW p \in Procs, ListingStep(p)
    PROVE  SeqControl' /\ CountInv'
<1>1. /\ Stepped(p) /\ UNCHANGED <<ring, numElems>>
      /\ pc[p] \in Listing \cup {"idle"} /\ pc'[p] \in Listing \cup {"idle"}
      /\ overlap \in 0 .. 3 /\ overlap' \in 0 .. 3 /\ overlap <= overlap'
  BY ListingTypes DEF SeqInv
<1>2. \A q \in Procs : q # p => pc'[q] = pc[q] /\ loc'[q] = loc[q] BY <1>1 DEF Stepped, Frame
<1>3. Allocated' = Allocated /\ Live' = Live BY <1>1 DEF Allocated, Live
<1>4. Freeing' = Freeing BY <1>1, <1>2 DEF Freeing, Listing
<1>5. CountInv' BY <1>1, <1>3, <1>4 DEF SeqInv, CountInv
<1>6. /\ off \in [Procs -> Nat] /\ numElems \in Int /\ numElems <= MaxNodes
      /\ headShown \in BOOLEAN /\ loc[p] \in Locals
  <2>1. loc[p] \in Locals BY TypeFacts DEF SeqInv, IInv
  <2> QED BY <2>1, NodesCount DEF SeqInv, SeqControl
<1>7. off' \in [Procs -> Nat] /\ headShown' \in BOOLEAN /\ \A q \in Procs : q # p => off'[q] = off[q]
  <2>1. headShown' = headShown \/ headShown' = TRUE
    BY DEF ListingStep, SeqCallRead, SeqReadOn, Start, Show, SeqNextNode, SeqEnd
  <2>2. off' = off \/ off' = [off EXCEPT ![p] = off[p] + 1] \/ off' = [off EXCEPT ![p] = 0]
    BY DEF ListingStep, SeqCallRead, SeqReadOn, Start, Show, SeqNextNode, SeqEnd
  <2>3. headShown' \in BOOLEAN BY <1>6, <2>1, Zenon
  <2>4. off' \in [Procs -> Nat] /\ \A q \in Procs : q # p => off'[q] = off[q] BY <1>6, <2>2
  <2> QED BY <2>3, <2>4
<1>8. /\ pc'[p] # "read" /\ pc'[p] # "first" BY <1>1 DEF Listing
<1>9. /\ pc'[p] = "show" => loc'[p].aux <= off'[p] /\ off'[p] < MaxNodes
      /\ pc'[p] = "next" => loc'[p].aux <= off'[p] + 1 /\ off'[p] < MaxNodes
  <2>1. /\ pc[p] = "show" => loc[p].aux <= off[p] /\ off[p] < MaxNodes
        /\ pc[p] = "next" => loc[p].aux <= off[p] + 1 /\ off[p] < MaxNodes
    BY DEF SeqInv, SeqControl
  <2>2. /\ pc \in [Procs -> PCs] /\ loc \in [Procs -> Locals] /\ loc[p].aux \in Nat
    BY <1>6 DEF SeqInv, IInv, Types, Locals, Links, Nodes, Head0
  <2>3. CASE SeqCallRead(p) \/ SeqReadOn(p) \/ SeqEnd(p)
    BY <2>2, <2>3 DEF SeqCallRead, SeqReadOn, SeqEnd, Enter, Return, Goto
  <2>4. CASE Start(p)
    <3>1. pc'[p] # "next" /\ off' = off BY <2>2, <2>4 DEF Start, Goto
    <3>2. pc'[p] = "show" => ~AtEnd(off[p]) /\ loc'[p].aux = 0 BY <1>6, <2>2, <2>4 DEF Start, Goto, Locals
    <3> QED BY <1>6, <3>1, <3>2 DEF AtEnd
  <2>5. CASE Show(p)
    <3>1. pc[p] = "show" /\ pc'[p] = "next" /\ off' = off BY <2>2, <2>5 DEF Show, Goto
    <3>2. loc'[p].aux \in {loc[p].aux, loc[p].aux + 1} BY <1>6, <2>2, <2>5 DEF Show, Locals
    <3> QED BY <1>6, <2>1, <2>2, <3>1, <3>2
  <2>6. CASE SeqNextNode(p)
    <3>1. pc[p] = "next" /\ pc'[p] # "next" /\ off'[p] = off[p] + 1 BY <1>6, <2>2, <2>6 DEF SeqNextNode, Goto
    <3>2. pc'[p] = "show" => ~AtEnd(off[p] + 1) /\ loc'[p].aux = loc[p].aux
      BY <1>6, <2>2, <2>6 DEF SeqNextNode, Goto, Locals
    <3> QED BY <1>6, <2>1, <2>2, <3>1, <3>2 DEF AtEnd
  <2> QED BY <2>3, <2>4, <2>5, <2>6 DEF ListingStep
<1>10. SeqControl'
  <2>1. ASSUME NEW q \in Procs
        PROVE  /\ pc'[q] # "read" /\ (pc'[q] = "first" => loc'[q].op # "read")
               /\ pc'[q] = "show" => loc'[q].aux <= off'[q] /\ off'[q] < MaxNodes
               /\ pc'[q] = "next" => loc'[q].aux <= off'[q] + 1 /\ off'[q] < MaxNodes
    <3>1. CASE q = p BY <1>8, <1>9, <3>1
    <3>2. CASE q # p BY <1>2, <1>7, <3>2 DEF SeqInv, SeqControl
    <3> QED BY <3>1, <3>2
  <2> QED BY <1>1, <1>3, <1>7, <2>1 DEF SeqInv, SeqControl
<1> QED BY <1>5, <1>10

\* While a listing meets no writer, the list has all the nodes that are live.
LEMMA ListedAlone ==
    ASSUME SeqInv, overlap = 0, NEW p \in Procs, loc[p].op = "read",
           NEW s \in Seq(Nodes), ListIs(s)
    PROVE  Range(s) = Live /\ \A q \in Procs : ~Writer(q)
<1>1. Types /\ Control /\ Clashes /\ InPlace(p) BY DEF SeqInv, IInv, Control
<1>2. ASSUME NEW q \in Procs PROVE ~Writer(q)
  <2>1. SUFFICES ASSUME Writer(q) PROVE FALSE OBVIOUS
  <2>2. InCall(q) /\ InCall(p) /\ q # p BY <1>1, <2>1 DEF Control, InPlace, InCall, Writer
  <2>3. Clash(loc[p].op, loc[q].op) \in {1, 2} BY <2>1 DEF Clash, Writer
  <2> QED BY <1>1, <2>2, <2>3 DEF Clashes
<1>3. \A x \in Pending : x = Head0 BY <1>1, <1>2 DEF Pending, Control, InPlace, Writer
<1>4. Head0 \notin Live BY DEF Live, Head0, Nodes
<1>5. Range(s) = Live \ Pending BY DEF ListIs, Lists
<1> QED BY <1>2, <1>3, <1>4, <1>5

\* Then numElems is the length of the list.
LEMMA CountIsLength ==
    ASSUME SeqInv, overlap = 0, NEW p \in Procs, loc[p].op = "read",
           NEW s \in Seq(Nodes), ForthOK(s)
    PROVE  numElems = Len(s)
<1>1. Control BY DEF SeqInv, IInv
<1>2. PICK t \in Seq(Nodes) : ListIs(t) BY ListFacts DEF SeqInv
<1>3. t = s
  <2>1. ForthOK(t) BY <1>2 DEF ListIs
  <2> QED BY <2>1, IsOnlyList DEF OnlyList
<1>4. Range(s) = Live /\ \A q \in Procs : ~Writer(q) BY <1>2, <1>3, ListedAlone
<1>5. ~Freeing BY <1>1, <1>4 DEF Freeing, Control, InPlace, Writer, Deleting
<1>6. Cardinality(Range(s)) = Len(s)
  <2>1. \A i, j \in 1 .. Len(s) : i < j => s[i] < s[j] BY <1>2, <1>3 DEF ListIs, InOrder
  <2> QED BY <2>1, OrderedCount
<1>7. numElems = Cardinality(Live) BY <1>5, NodesCount DEF SeqInv, CountInv
<1> QED BY <1>4, <1>6, <1>7

\* As long as nobody has overlapped a listing, it shows what it should.
LEMMA ListingLines ==
    ASSUME SeqInv, NEW p \in Procs, ListingStep(p), overlap' = 0
    PROVE  /\ ~headShown'
           /\ \A s \in Seq(Nodes) : (ForthOK(s))' =>
                \A q \in Procs : loc'[q].op = "read" => (Lines(q, s))'
<1>1. /\ Stepped(p) /\ ring' = ring /\ overlap = 0 /\ numElems' = numElems
      /\ pc[p] \in Listing \cup {"idle"}
  BY ListingTypes DEF SeqInv
<1>2. /\ loc[p] \in Locals /\ pc \in [Procs -> PCs] /\ loc \in [Procs -> Locals]
      /\ off \in [Procs -> Nat] /\ loc[p].text \in Seq(Nodes) /\ Chunk \in Nat \ {0}
      /\ pc[p] \in Listing => loc[p].op = "read"
  BY TypeFacts DEF SeqInv, IInv, SeqControl, Types, Locals, Control, InPlace
<1>3. ~headShown BY <1>1 DEF SeqInv, LinesInv
<1>4. ASSUME NEW s \in Seq(Nodes), ForthOK(s), pc[p] \in Listing
      PROVE  Lines(p, s) /\ numElems = Len(s) /\ Len(s) \in Nat
  BY <1>1, <1>2, <1>4, CountIsLength, AtFacts DEF SeqInv, LinesInv
<1>5. PICK s0 \in Seq(Nodes) : ForthOK(s0)
  BY <1>1, ListFacts DEF SeqInv, ListIs
<1>6. ASSUME NEW s \in Seq(Nodes), ForthOK(s)
      PROVE  headShown' = headShown /\ (loc'[p].op = "read" => (Lines(p, s))')
  <2>1. /\ off[p] \in Nat /\ off[p] % Chunk \in 0 .. Chunk - 1 /\ off[p] % Chunk <= off[p] /\ 0 % Chunk = 0
        /\ (off[p] + 1) % Chunk = IF (off[p] % Chunk) + 1 = Chunk THEN 0 ELSE (off[p] % Chunk) + 1
    BY <1>2, NextRemainder
  <2>2. CASE SeqCallRead(p)
    <3>1. /\ pc'[p] = "start" /\ loc'[p].text = << >> /\ off'[p] = 0 /\ headShown' = headShown
      BY <1>2, <2>2 DEF SeqCallRead, Enter, Goto, NoLocals
    <3>2. Len(<< >>) = 0 /\ Len(s) \in Nat BY AtFacts
    <3> QED BY <2>1, <3>1, <3>2 DEF Lines
  <2>3. CASE SeqReadOn(p)
    <3>1. /\ pc[p] = "pause" /\ pc'[p] = "start" /\ loc'[p] = loc[p] /\ off'[p] = off[p]
          /\ headShown' = headShown
      BY <1>2, <2>3 DEF SeqReadOn, Goto
    <3>2. Lines(p, s) BY <1>4, <1>6, <3>1 DEF Listing
    <3> QED BY <3>1, <3>2 DEF Lines
  <2>4. CASE Start(p)
    <3>1. pc[p] = "start" /\ off'[p] = off[p] /\ headShown' = headShown BY <2>4 DEF Start
    <3>2. Lines(p, s) /\ numElems = Len(s) /\ Len(s) \in Nat BY <1>4, <1>6, <3>1 DEF Listing
    <3>3. CASE AtEnd(off[p])
      <4>1. pc'[p] = "end" /\ loc'[p] = loc[p] BY <1>2, <2>4, <3>3 DEF Start, Goto
      <4>2. off[p] = Len(s) BY <2>1, <3>1, <3>2, <3>3 DEF Lines, AtEnd
      <4> QED BY <3>1, <3>2, <4>1, <4>2 DEF Lines
    <3>4. CASE ~AtEnd(off[p])
      <4>1. /\ pc'[p] = "show" /\ loc'[p].text = loc[p].text /\ loc'[p].aux = 0
            /\ loc'[p].pos = ring[Head0].next
        BY <1>2, <2>4, <3>4 DEF Start, Goto, Locals
      <4>2. off[p] < Len(s) /\ off[p] % Chunk = 0
        <5>1. PICK n \in Nat : n = off[p] BY <2>1
        <5>2. ~(n >= Len(s)) BY <3>2, <3>4, <5>1 DEF AtEnd
        <5>3. n < Len(s) BY <3>2, <5>2
        <5>4. off[p] % Chunk = 0 \/ n = Len(s) BY <3>1, <3>2, <5>1 DEF Lines
        <5> QED BY <3>2, <5>1, <5>3, <5>4
      <4>3. ring[Head0].next = At(s, 0 + 1)
        <5>1. At(s, 0) = Head0 /\ 0 \in 0 .. Len(s) BY <3>2, AtFacts
        <5> QED BY <1>6, <5>1 DEF ForthOK
      <4> QED BY <3>1, <3>2, <4>1, <4>2, <4>3 DEF Lines
    <3> QED BY <3>3, <3>4
  <2>5. CASE Show(p)
    <3>1. pc[p] = "show" /\ pc'[p] = "next" /\ off'[p] = off[p] BY <1>2, <2>5 DEF Show, Goto
    <3>2. Lines(p, s) /\ numElems = Len(s) /\ Len(s) \in Nat BY <1>4, <1>6, <3>1 DEF Listing
    <3>3. PICK x, i, a : x = loc[p].text /\ i = loc[p].pos /\ a = loc[p].aux OBVIOUS
    <3>4. /\ off[p] < Len(s) /\ a = off[p] % Chunk /\ i = At(s, a + 1) /\ Len(x) = off[p]
          /\ \A j \in 1 .. off[p] : x[j] = At(s, 1 + ((j - 1) % Chunk))
      BY <3>1, <3>2, <3>3 DEF Lines
    <3>5. i # Head0 /\ i \in Nodes
      <4>1. a + 1 \in 1 .. Len(s) BY <2>1, <3>2, <3>4
      <4> QED BY <3>4, <4>1, AtFacts
    <3>6. headShown' = headShown /\ loc'[p].text = Append(x, i) /\ loc'[p].aux = a + 1 /\ loc'[p].pos = i
      BY <1>2, <2>5, <3>3, <3>5 DEF Show, Locals
    <3>7. PICK y : y = Append(x, i) OBVIOUS
    <3>8. /\ Len(y) = off[p] + 1 /\ y[off[p] + 1] = i
          /\ \A j \in 1 .. off[p] : y[j] = x[j]
      <4>1. x \in Seq(Nodes) BY <1>2, <3>3
      <4>2. /\ Len(y) = Len(x) + 1 /\ y[Len(x) + 1] = i
            /\ \A j \in 1 .. Len(x) : y[j] = x[j]
        BY <3>5, <3>7, <4>1
      <4> QED BY <3>4, <4>2
    <3>9. \A j \in 1 .. off[p] + 1 : y[j] = At(s, 1 + ((j - 1) % Chunk))
      <4>1. ASSUME NEW j \in 1 .. off[p] + 1 PROVE y[j] = At(s, 1 + ((j - 1) % Chunk))
        <5>1. CASE j = off[p] + 1
          <6>1. j - 1 = off[p] BY <2>1, <5>1
          <6>2. 1 + ((j - 1) % Chunk) = a + 1 BY <2>1, <3>4, <6>1
          <6> QED BY <3>4, <3>8, <5>1, <6>2
        <5>2. CASE j # off[p] + 1
          <6>1. j \in 1 .. off[p]
            <7>1. PICK n \in Nat : n = off[p] BY <2>1
            <7>2. j \in 1 .. n + 1 /\ j # n + 1 BY <5>2, <7>1
            <7> QED BY <7>1, <7>2
          <6> QED BY <3>4, <3>8, <6>1
        <5> QED BY <5>1, <5>2
      <4> QED BY <4>1
    <3>10. off[p] + 1 <= Len(s) BY <2>1, <3>2, <3>4
    <3> QED BY <3>1, <3>4, <3>6, <3>7, <3>8, <3>9, <3>10 DEF Lines
  <2>6. CASE SeqNextNode(p)
    <3>1. pc[p] = "next" /\ off'[p] = off[p] + 1 /\ headShown' = headShown
      BY <1>2, <2>6 DEF SeqNextNode
    <3>2. Lines(p, s) /\ numElems = Len(s) /\ Len(s) \in Nat BY <1>4, <1>6, <3>1 DEF Listing
    <3>3. PICK x, i, a : x = loc[p].text /\ i = loc[p].pos /\ a = loc[p].aux OBVIOUS
    <3>4. /\ off[p] + 1 <= Len(s) /\ a = (off[p] % Chunk) + 1 /\ i = At(s, a) /\ Len(x) = off[p] + 1
          /\ \A j \in 1 .. off[p] + 1 : x[j] = At(s, 1 + ((j - 1) % Chunk))
      BY <3>1, <3>2, <3>3 DEF Lines
    <3>5. CASE a = Chunk \/ AtEnd(off[p] + 1)
      <4>1. pc'[p] = "pause" /\ loc'[p] = loc[p] BY <1>2, <2>6, <3>3, <3>5 DEF SeqNextNode, Goto
      <4>2. (off[p] + 1) % Chunk = 0 \/ off[p] + 1 = Len(s)
        BY <2>1, <3>2, <3>4, <3>5 DEF AtEnd
      <4> QED BY <3>1, <3>3, <3>4, <4>1, <4>2 DEF Lines
    <3>6. CASE a # Chunk /\ ~AtEnd(off[p] + 1)
      <4>1. /\ pc'[p] = "show" /\ loc'[p].text = x /\ loc'[p].aux = a /\ loc'[p].pos = ring[i].next
        BY <1>2, <2>6, <3>3, <3>6 DEF SeqNextNode, Goto, Locals
      <4>2. (off[p] + 1) % Chunk = a /\ off[p] + 1 < Len(s)
        BY <2>1, <3>2, <3>4, <3>6 DEF AtEnd
      <4>3. ring[i].next = At(s, a + 1)
        <5>1. a \in 0 .. Len(s)
          <6>1. PICK r : r = off[p] % Chunk OBVIOUS
          <6>2. PICK n \in Nat : n = off[p] BY <2>1
          <6>3. r \in 0 .. Chunk - 1 /\ r <= n BY <2>1, <6>1, <6>2
          <6>4. n + 1 <= Len(s) /\ a = r + 1 BY <3>4, <6>1, <6>2
          <6>5. r \in Nat /\ Len(s) \in Nat BY <3>2, <6>3
          <6> QED BY <6>2, <6>3, <6>4, <6>5
        <5> QED BY <1>6, <3>4, <5>1 DEF ForthOK
      <4> QED BY <3>1, <3>4, <4>1, <4>2, <4>3 DEF Lines
    <3> QED BY <3>5, <3>6
  <2>7. CASE SeqEnd(p)
    BY <1>2, <2>7 DEF SeqEnd, Return, NoLocals
  <2> QED BY <2>2, <2>3, <2>4, <2>5, <2>6, <2>7 DEF ListingStep
<1>7. ASSUME NEW s \in Seq(Nodes), (ForthOK(s))', NEW q \in Procs, loc'[q].op = "read"
      PROVE  (Lines(q, s))'
  <2>1. ForthOK(s) BY <1>1, <1>7, SameLinks
  <2>2. CASE q = p BY <1>6, <1>7, <2>1, <2>2
  <2>3. CASE q # p
    <3>1. pc'[q] = pc[q] /\ loc'[q] = loc[q] BY <1>1, <2>3 DEF Stepped, Frame
    <3>2. off'[q] = off[q]
      BY <1>2, <2>3 DEF ListingStep, SeqCallRead, SeqReadOn, Start, Show, SeqNextNode, SeqEnd
    <3>3. Lines(q, s) BY <1>1, <1>7, <2>1, <3>1 DEF SeqInv, LinesInv
    <3> QED BY <3>1, <3>2, <3>3 DEF Lines
  <2> QED BY <2>2, <2>3
<1> QED BY <1>3, <1>5, <1>6, <1>7

-----------------------------------------------------------------------------
(* The steps of the writers of modlist2.c. *)

\* They are the other steps.
WritingStep(p) == SeqCallAdd(p) \/ SeqCallOther(p) \/ SeqWriteStep(p) \/ SeqFree(p)
WritingCall(p) == CallAdd(p) \/ CallRemove(p) \/ CallUnload(p)

\* A call of a writer, and what it begins with.
LEMMA WritingEnters ==
    ASSUME Types, NEW p \in Procs, WritingCall(p)
    PROVE  \E place \in {"prev", "first"}, l \in Locals :
                Enter(p, place, l) /\ l.op \in {"add", "delete", "unload"}
<1>1. CASE CallAdd(p)
  <2>1. PICK i \in Nodes : Enter(p, "prev", [NoLocals EXCEPT !.op = "add", !.new = i]) BY <1>1 DEF CallAdd
  <2>2. [NoLocals EXCEPT !.op = "add", !.new = i].op = "add" BY DEF NoLocals
  <2> QED BY <2>1, <2>2, CallTypes
<1>2. CASE CallRemove(p)
  <2>1. PICK v \in Values \cup {Every} : Enter(p, "first", [NoLocals EXCEPT !.op = "delete", !.v = v])
    BY <1>2 DEF CallRemove
  <2>2. [NoLocals EXCEPT !.op = "delete", !.v = v].op = "delete" BY DEF NoLocals
  <2> QED BY <2>1, <2>2, CallTypes
<1>3. CASE CallUnload(p)
  <2>1. Enter(p, "first", [NoLocals EXCEPT !.op = "unload"]) BY <1>3 DEF CallUnload
  <2>2. [NoLocals EXCEPT !.op = "unload"].op = "unload" BY DEF NoLocals
  <2> QED BY <2>1, <2>2, CallTypes
<1> QED BY <1>1, <1>2, <1>3 DEF WritingCall

\* What a step of a writer is to the others.
LEMMA WritingTypes ==
    ASSUME IInv, SeqControl, ~misuse, NEW p \in Procs, WritingStep(p)
    PROVE  /\ IInv' /\ Stepped(p) /\ off' = off /\ headShown' = headShown
           /\ overlap \in 0 .. 3 /\ overlap' \in 0 .. 3 /\ overlap <= overlap'
           /\ pc'[p] \notin Listing \cup {"read"} /\ loc'[p].op # "read"
           /\ \/ WritingCall(p) /\ (Writer(p))' /\ (InCall(p))' /\ pc[p] = "idle" /\ pc'[p] \in {"prev", "first"}
              \/ /\ First(p) \/ AddStep(p) \/ DeleteStep(p)
                 /\ Writer(p) /\ InCall(p) /\ pc'[p] # "first" /\ overlap' = overlap
<1>1. Types /\ Control /\ InPlace(p) /\ overlap \in 0 .. 3 BY DEF IInv, Control, Types
<1>2. WritingCall(p) \/ First(p) \/ AddStep(p) \/ DeleteStep(p)
  BY DEF WritingStep, WritingCall, SeqCallAdd, SeqCallOther, SeqWriteStep, SeqFree, DeleteStep
<1>3. Call(p) \/ Step(p) BY <1>2 DEF WritingCall, Call, Step
<1>4. Stepped(p) BY <1>1, <1>3, NextStepped
<1>5. IInv' BY <1>3, NextIInv DEF Next
<1>6. off' = off /\ headShown' = headShown
  BY DEF WritingStep, SeqCallAdd, SeqCallOther, SeqWriteStep, SeqFree
<1>7. overlap' \in 0 .. 3 BY <1>5 DEF IInv, Types
<1>8. CASE WritingCall(p)
  <2>1. PICK place \in {"prev", "first"}, l \in Locals :
            Enter(p, place, l) /\ l.op \in {"add", "delete", "unload"}
    BY <1>1, <1>8, WritingEnters
  <2>2. place \in PCs BY DEF PCs, Adding
  <2>3. pc[p] = "idle" /\ pc'[p] = place /\ loc'[p] = l /\ overlap <= overlap'
    BY <1>1, <2>1, <2>2, EnterFacts
  <2>4. (Writer(p))' /\ (InCall(p))' /\ pc'[p] \notin Listing \cup {"read"} /\ loc'[p].op # "read"
    BY <2>1, <2>3 DEF Writer, InCall, Listing
  <2> QED BY <1>1, <1>4, <1>5, <1>6, <1>7, <1>8, <2>1, <2>3, <2>4
<1>9. CASE First(p) \/ AddStep(p) \/ DeleteStep(p)
  <2>1. /\ InCall(p) /\ Stepping(p) BY <1>1, <1>9, StepStepping DEF Step
  <2>2. pc[p] \in {"first", "unlist"} \cup Adding \cup Deleting
    BY <1>9 DEF First, AddStep, AddPrev, AddHead, AddNode, AddLink, DeleteStep, Walk, Del, Unlink, Free,
                Unlist, Adding, Deleting
  <2>3. Writer(p)
    <3>1. pc[p] = "first" => loc[p].op # "read" BY DEF SeqControl
    <3> QED BY <1>1, <2>2, <3>1 DEF InPlace, Writer
  <2>4. overlap' = overlap BY <2>1 DEF Stepping
  <2>5. pc'[p] \notin Listing \cup {"read", "first"}
    <3>1. CASE First(p)
      <4>1. pc'[p] = "walk" BY <1>1, <2>3, <3>1, FirstEffect DEF Writer
      <4> QED BY <4>1 DEF Listing
    <3>2. CASE AddStep(p)
      BY <1>1, <3>2, AddPrevEffect, AddHeadEffect, AddNodeEffect, AddLinkEffect DEF AddStep, Listing
    <3>3. CASE DeleteStep(p)
      <4>1. CASE Walk(p) BY <1>1, <4>1, WalkEffect DEF Listing
      <4>2. CASE Del(p) BY <1>1, <4>2, DelEffect DEF Listing
      <4>3. CASE Unlink(p) BY <1>1, <4>3, UnlinkEffect DEF Listing
      <4>4. CASE Free(p) BY <1>1, <4>4, FreeEffect DEF Listing
      <4>5. CASE Unlist(p)
        <5>1. pc' = [pc EXCEPT ![p] = "idle"] /\ pc \in [Procs -> PCs]
          BY <1>1, <4>5 DEF Unlist, Return, Goto, Types
        <5> QED BY <5>1 DEF Listing
      <4> QED BY <3>3, <4>1, <4>2, <4>3, <4>4, <4>5 DEF DeleteStep
    <3> QED BY <1>9, <3>1, <3>2, <3>3
  <2>6. loc'[p].op # "read"
    <3>1. loc'[p].op \in {loc[p].op, "none"} BY <2>1 DEF Stepping
    <3> QED BY <2>3, <3>1 DEF Writer
  <2> QED BY <1>1, <1>4, <1>5, <1>6, <1>7, <1>9, <2>1, <2>3, <2>4, <2>5, <2>6
<1> QED BY <1>2, <1>8, <1>9

\* An addition makes one more node live.
LEMMA AddedCounts ==
    ASSUME Types, NEW p \in Procs, CallAdd(p)
    PROVE  /\ Cardinality(Live') = Cardinality(Live) + 1
           /\ Cardinality(Allocated') = Cardinality(Allocated) + 1
<1>1. PICK i \in Nodes, v \in Values :
        ring[i].state = "unused" /\ ring' = [ring EXCEPT ![i].state = "live", ![i].data = v]
  BY DEF CallAdd
<1>2. /\ i \in Links /\ \A j \in Nodes : j \in Links /\ ring[j] \in NodeRecs
      /\ ring \in [Links -> NodeRecs]
  BY DEF Links, Types
<1>3. \A j \in Nodes : ring'[j].state = IF j = i THEN "live" ELSE ring[j].state
  <2> DEFINE r == ring[i]
  <2>1. ring'[i] = [r EXCEPT !.state = "live", !.data = v] /\ \A j \in Links : j # i => ring'[j] = ring[j]
    BY <1>1, <1>2
  <2>2. r \in NodeRecs BY <1>2
  <2> HIDE DEF r
  <2>3. [r EXCEPT !.state = "live", !.data = v].state = "live" BY <2>2 DEF NodeRecs
  <2> QED BY <1>2, <2>1, <2>3
<1>4. /\ Live' = Live \cup {i} /\ i \notin Live
      /\ Allocated' = Allocated \cup {i} /\ i \notin Allocated
  <2>1. Live' = Live \cup {i} /\ i \notin Live BY <1>1, <1>3 DEF Live
  <2>2. "live" # "unused" OBVIOUS
  <2>3. \A j \in Nodes : ring'[j].state # "unused" <=> j = i \/ ring[j].state # "unused"
    BY <1>3, <2>2
  <2>4. Allocated' = Allocated \cup {i} /\ i \notin Allocated BY <1>1, <2>3 DEF Allocated
  <2> QED BY <2>1, <2>4
<1> QED BY <1>4, NodesCount, FS_AddElement

LEMMA WritingControl ==
    ASSUME SeqInv, ~misuse, NEW p \in Procs, WritingStep(p)
    PROVE  SeqControl'
<1>1. /\ Stepped(p) /\ off' = off /\ headShown' = headShown
      /\ pc'[p] \notin Listing \cup {"read"} /\ loc'[p].op # "read"
  BY WritingTypes DEF SeqInv
<1>2. Types /\ SeqControl BY DEF SeqInv, IInv
<1>3. numElems' \in Int /\ numElems' <= Cardinality(Allocated')
  <2>1. PICK c \in Nat : c = Cardinality(Allocated) BY NodesCount
  <2>2. numElems \in Int /\ numElems <= c BY <1>2, <2>1 DEF SeqControl
  <2>3. CASE SeqCallAdd(p)
    <3>1. numElems' = numElems + 1 /\ CallAdd(p) BY <2>3 DEF SeqCallAdd
    <3>2. Cardinality(Allocated') = c + 1 BY <1>2, <2>1, <3>1, AddedCounts
    <3> QED BY <2>2, <3>1, <3>2
  <2>4. CASE SeqCallOther(p) \/ SeqWriteStep(p) \/ SeqFree(p)
    <3>1. numElems' = numElems \/ numElems' = numElems - 1
      BY <2>4 DEF SeqCallOther, SeqWriteStep, SeqFree, OneLess
    <3>2. Allocated \subseteq Allocated' /\ Allocated' \subseteq Nodes
      <4>1. \A i \in Nodes : ring[i].state # "unused" => ring'[i].state # "unused"
        BY <1>1 DEF Stepped, Links
      <4> QED BY <4>1 DEF Allocated
    <3>3. IsFiniteSet(Allocated') BY <3>2, NodesCount, FS_Subset
    <3>4. c <= Cardinality(Allocated') /\ Cardinality(Allocated') \in Nat
      BY <2>1, <3>2, <3>3, FS_Subset, FS_CardinalityType
    <3> QED BY <2>1, <2>2, <3>1, <3>4
  <2> QED BY <2>3, <2>4 DEF WritingStep
<1>4. ASSUME NEW q \in Procs
      PROVE  /\ pc'[q] # "read" /\ (pc'[q] = "first" => loc'[q].op # "read")
             /\ pc'[q] = "show" => loc'[q].aux <= off'[q] /\ off'[q] < MaxNodes
             /\ pc'[q] = "next" => loc'[q].aux <= off'[q] + 1 /\ off'[q] < MaxNodes
  <2>1. CASE q = p BY <1>1, <2>1 DEF Listing
  <2>2. CASE q # p
    <3>1. pc'[q] = pc[q] /\ loc'[q] = loc[q] BY <1>1, <2>2 DEF Stepped, Frame
    <3> QED BY <1>1, <1>2, <3>1 DEF SeqControl
  <2> QED BY <2>1, <2>2
<1> QED BY <1>1, <1>2, <1>3, <1>4 DEF SeqControl

\* Which step of a writer leaves which nodes live.
LEMMA StepLive ==
    ASSUME IInv, NEW p \in Procs, First(p) \/ AddStep(p) \/ DeleteStep(p), Writer(p), overlap < 3
    PROVE  \/ pc[p] # "free" /\ pc'[p] # "free" /\ Live' = Live
           \/ pc[p] # "free" /\ pc'[p] = "free" /\ \E i \in Live : Live' = Live \ {i}
           \/ pc[p] = "free" /\ pc'[p] # "free" /\ Live' = Live
<1>1. Types /\ InPlace(p) BY DEF IInv, Control
<1>2. PICK s \in Seq(Nodes) : ListIs(s) BY ListFacts
<1>3. Phase(p, s) /\ Range(s) \subseteq Live BY <1>2 DEF ListIs, Lists
<1>4. ASSUME \A i \in Nodes : ring'[i].state = ring[i].state PROVE Live' = Live
  BY <1>4 DEF Live
<1>5. \A i \in Links : \A n : Stored(i, n) /\ n.state = ring[i].state =>
        \A j \in Nodes : ring'[j].state = ring[j].state
  BY DEF Stored, Links
<1>6. \A i \in Links : ring[i] \in NodeRecs BY <1>1, TypeFacts
<1>7. CASE First(p) BY <1>1, <1>4, <1>7, FirstEffect
<1>8. CASE AddStep(p)
  <2>1. CASE AddPrev(p) BY <1>1, <1>4, <2>1, AddPrevEffect
  <2>2. CASE AddHead(p)
    <3>1. /\ pc[p] = "addhead" /\ pc'[p] = "addnode" /\ Head0 \in Links
          /\ Stored(Head0, [ring[Head0] EXCEPT !.prev = loc[p].new])
      BY <1>1, <2>2, AddHeadEffect, TypeFacts
    <3>2. [ring[Head0] EXCEPT !.prev = loc[p].new].state = ring[Head0].state
      BY <1>6, <3>1 DEF NodeRecs
    <3> QED BY <1>4, <1>5, <3>1, <3>2
  <2>3. CASE AddNode(p)
    <3>1. /\ pc[p] = "addnode" /\ pc'[p] = "addlink" /\ loc[p].new \in Links
          /\ Stored(loc[p].new, [ring[loc[p].new] EXCEPT !.next = Head0, !.prev = loc[p].prev])
      BY <1>1, <2>3, AddNodeEffect, TypeFacts
    <3>2. [ring[loc[p].new] EXCEPT !.next = Head0, !.prev = loc[p].prev].state = ring[loc[p].new].state
      BY <1>6, <3>1 DEF NodeRecs
    <3> QED BY <1>4, <1>5, <3>1, <3>2
  <2>4. CASE AddLink(p)
    <3>1. /\ pc[p] = "addlink" /\ pc'[p] = "idle" /\ loc[p].prev \in Links
          /\ Stored(loc[p].prev, [ring[loc[p].prev] EXCEPT !.next = loc[p].new])
      BY <1>1, <2>4, AddLinkEffect, TypeFacts
    <3>2. [ring[loc[p].prev] EXCEPT !.next = loc[p].new].state = ring[loc[p].prev].state
      BY <1>6, <3>1 DEF NodeRecs
    <3> QED BY <1>4, <1>5, <3>1, <3>2
  <2> QED BY <1>8, <2>1, <2>2, <2>3, <2>4 DEF AddStep
<1>9. CASE DeleteStep(p)
  <2>1. CASE Walk(p) BY <1>1, <1>4, <2>1, WalkEffect
  <2>2. CASE Del(p)
    <3>1. PICK k : k = ring[loc[p].pos].next OBVIOUS
    <3>2. /\ pc[p] = "del" /\ pc'[p] = "unlink" /\ k \in Links
          /\ Stored(k, [ring[k] EXCEPT !.prev = ring[loc[p].pos].prev])
      BY <1>1, <2>2, <3>1, DelEffect, TypeFacts
    <3>3. [ring[k] EXCEPT !.prev = ring[loc[p].pos].prev].state = ring[k].state
      BY <1>6, <3>2 DEF NodeRecs
    <3> QED BY <1>4, <1>5, <3>2, <3>3
  <2>3. CASE Unlink(p)
    <3>1. /\ pc[p] = "unlink" /\ pc'[p] = "free"
          /\ \A j \in Links : ring'[j].state = IF j = loc[p].pos THEN "poisoned" ELSE ring[j].state
      BY <1>1, <2>3, UnlinkEffect
    <3>2. loc[p].pos \in Range(s)
      <4>1. PICK k \in 1 .. Len(s) : loc[p].pos = At(s, k) BY <1>3, <3>1 DEF Phase, WalkAt
      <4> QED BY <4>1, AtFacts
    <3>3. Live' = Live \ {loc[p].pos} BY <3>1 DEF Live, Links
    <3> QED BY <1>3, <3>1, <3>2, <3>3
  <2>4. CASE Free(p)
    <3>1. /\ pc[p] = "free" /\ pc'[p] = "walk" /\ loc[p].pos \in Links
          /\ Stored(loc[p].pos, [Unused EXCEPT !.state = "freed"])
      BY <1>1, <2>4, FreeEffect, TypeFacts
    <3>2. ring[loc[p].pos].state = "poisoned" BY <1>3, <3>1 DEF Phase
    <3>3. [Unused EXCEPT !.state = "freed"].state = "freed" BY DEF Unused
    <3>4. Live' = Live BY <3>1, <3>2, <3>3 DEF Live, Stored, Links
    <3> QED BY <3>1, <3>4
  <2>5. CASE Unlist(p)
    <3>1. pc[p] = "unlist" /\ ring' = ring /\ pc' = [pc EXCEPT ![p] = "idle"] /\ pc \in [Procs -> PCs]
      BY <1>1, <2>5 DEF Unlist, Return, Goto, Types
    <3> QED BY <1>4, <3>1
  <2> QED BY <1>9, <2>1, <2>2, <2>3, <2>4, <2>5 DEF DeleteStep
<1> QED BY <1>7, <1>8, <1>9

\* numElems follows: up before a node is linked, down when it is freed.
LEMMA WritingCount ==
    ASSUME SeqInv, ~misuse, NEW p \in Procs, WritingStep(p)
    PROVE  CountInv'
<1> SUFFICES ASSUME overlap' < 3
    PROVE  numElems' = Cardinality(Live') + (IF Freeing' THEN 1 ELSE 0)
  BY DEF CountInv
<1>1. /\ Stepped(p) /\ overlap \in 0 .. 3 /\ overlap' \in 0 .. 3 /\ overlap <= overlap'
      /\ \/ WritingCall(p) /\ pc[p] = "idle" /\ pc'[p] \in {"prev", "first"}
         \/ /\ First(p) \/ AddStep(p) \/ DeleteStep(p)
            /\ Writer(p) /\ InCall(p) /\ overlap' = overlap
  BY WritingTypes DEF SeqInv
<1>2. IInv /\ Types /\ Control /\ Clashes /\ overlap < 3 BY <1>1 DEF SeqInv, IInv
<1>3. PICK c \in Nat : c = Cardinality(Live) BY NodesCount
<1>4. numElems = c + (IF Freeing THEN 1 ELSE 0) BY <1>2, <1>3 DEF SeqInv, CountInv
<1>5. \A q \in Procs : q # p => pc'[q] = pc[q] BY <1>1 DEF Stepped, Frame
<1>6. \A q \in Procs : pc[q] = "free" => Writer(q) BY <1>2 DEF Control, InPlace, Deleting, Writer
<1>7. CASE WritingCall(p) /\ pc[p] = "idle" /\ pc'[p] \in {"prev", "first"}
  <2>1. PICK place \in {"prev", "first"}, l \in Locals :
            Enter(p, place, l) /\ l.op \in {"add", "delete", "unload"}
    BY <1>2, <1>7, WritingEnters
  <2>2. place \in PCs BY DEF PCs, Adding
  <2>3. \A q \in Procs : ~Writer(q) BY <1>2, <2>1, <2>2, WriterEnters
  <2>4. ~Freeing /\ ~Freeing' BY <1>5, <1>6, <1>7, <2>3 DEF Freeing
  <2>5. ~First(p) /\ ~AddStep(p) /\ ~DeleteStep(p)
    BY <1>7 DEF First, AddStep, AddPrev, AddHead, AddNode, AddLink, DeleteStep, Walk, Del, Unlink, Free, Unlist
  <2>6. CASE SeqCallAdd(p)
    <3>1. CallAdd(p) /\ numElems' = numElems + 1 BY <2>6 DEF SeqCallAdd
    <3>2. Cardinality(Live') = c + 1 BY <1>2, <1>3, <3>1, AddedCounts
    <3> QED BY <1>4, <2>4, <3>1, <3>2
  <2>7. CASE SeqCallOther(p)
    <3>1. ring' = ring /\ numElems' = numElems BY <2>7 DEF SeqCallOther, CallRemove, CallUnload
    <3>2. Live' = Live BY <3>1 DEF Live
    <3> QED BY <1>3, <1>4, <2>4, <3>1, <3>2
  <2> QED BY <2>5, <2>6, <2>7 DEF WritingStep, SeqWriteStep, SeqFree, DeleteStep
<1>8. CASE (First(p) \/ AddStep(p) \/ DeleteStep(p)) /\ Writer(p) /\ InCall(p)
  <2>1. \A q \in Procs : q # p => pc[q] # "free" BY <1>2, <1>6, <1>8, WriterAlone
  <2>2. (Freeing <=> pc[p] = "free") /\ (Freeing' <=> pc'[p] = "free") BY <1>5, <2>1 DEF Freeing
  <2>3. \/ pc[p] # "free" /\ numElems' = numElems
        \/ pc[p] = "free" /\ numElems' = numElems - 1
    <3>1. ~WritingCall(p)
      BY <1>8 DEF WritingCall, CallAdd, CallRemove, CallUnload, Enter, InCall
    <3> QED BY <3>1 DEF WritingStep, WritingCall, SeqCallAdd, SeqCallOther, SeqWriteStep, SeqFree, Free, OneLess
  <2>4. \/ pc[p] # "free" /\ pc'[p] # "free" /\ Live' = Live
        \/ pc[p] # "free" /\ pc'[p] = "free" /\ \E i \in Live : Live' = Live \ {i}
        \/ pc[p] = "free" /\ pc'[p] # "free" /\ Live' = Live
    BY <1>2, <1>8, StepLive
  <2>5. CASE Live' = Live /\ ~(pc'[p] = "free") BY <1>3, <1>4, <2>2, <2>3, <2>5
  <2>6. CASE pc[p] # "free" /\ pc'[p] = "free" /\ \E i \in Live : Live' = Live \ {i}
    <3>1. PICK i \in Live : Live' = Live \ {i} BY <2>6
    <3>2. Cardinality(Live') = c - 1 BY <1>3, <3>1, NodesCount, FS_RemoveElement
    <3> QED BY <1>3, <1>4, <2>2, <2>3, <2>6, <3>2
  <2> QED BY <2>4, <2>5, <2>6
<1> QED BY <1>1, <1>7, <1>8

\* Who writes, meets a listing, or there is none.
LEMMA WritingLines ==
    ASSUME SeqInv, ~misuse, NEW p \in Procs, WritingStep(p)
    PROVE  LinesInv'
<1> SUFFICES ASSUME overlap' = 0
    PROVE  ~headShown' /\ \A q \in Procs : loc'[q].op # "read"
  BY DEF LinesInv
<1>1. /\ IInv' /\ Stepped(p) /\ headShown' = headShown
      /\ overlap \in 0 .. 3 /\ overlap <= overlap' /\ loc'[p].op # "read"
      /\ \/ (Writer(p))' /\ (InCall(p))'
         \/ Writer(p) /\ InCall(p)
  BY WritingTypes DEF SeqInv
<1>2. overlap = 0 BY <1>1
<1>3. ~headShown' BY <1>1, <1>2 DEF SeqInv, LinesInv
<1>4. ASSUME NEW q \in Procs, loc'[q].op = "read" PROVE FALSE
  <2>1. q # p BY <1>1, <1>4
  <2>2. loc[q].op = "read" /\ pc'[q] = pc[q] BY <1>1, <1>4, <2>1 DEF Stepped, Frame
  <2>3. InCall(q) /\ (InCall(q))' BY <2>2 DEF SeqInv, IInv, Control, InPlace, InCall
  <2>4. CASE (Writer(p))' /\ (InCall(p))'
    <3>1. Clash(loc'[p].op, loc'[q].op) \in {1, 2} BY <1>4, <2>4 DEF Writer, Clash
    <3>2. Clash(loc'[p].op, loc'[q].op) <= overlap' BY <1>1, <2>1, <2>3, <2>4 DEF IInv, Clashes
    <3> QED BY <3>1, <3>2
  <2>5. CASE Writer(p) /\ InCall(p)
    <3>1. Clash(loc[p].op, loc[q].op) \in {1, 2} BY <2>2, <2>5 DEF Writer, Clash
    <3>2. Clash(loc[p].op, loc[q].op) <= overlap BY <2>1, <2>3, <2>5 DEF SeqInv, IInv, Clashes
    <3> QED BY <1>2, <3>1, <3>2
  <2> QED BY <1>1, <2>4, <2>5
<1> QED BY <1>3, <1>4

LEMMA InitSeqInv == SeqInit => SeqInv
<1> SUFFICES ASSUME SeqInit PROVE SeqInv OBVIOUS
<1>1. IInv BY InitIInv DEF SeqInit
<1>2. /\ pc = [p \in Procs |-> "idle"] /\ loc = [p \in Procs |-> NoLocals]
      /\ off = [p \in Procs |-> 0] /\ numElems = 0 /\ headShown = FALSE
  BY DEF SeqInit, Init
<1>3. \A i \in Nodes : ring[i].state = "unused"
  <2>1. \A i \in Nodes : ring[i] = Unused BY DEF SeqInit, Init, Links, Nodes, Head0
  <2> QED BY <2>1 DEF Unused
<1>4. Live = {} /\ Allocated = {} BY <1>3 DEF Live, Allocated
<1>5. Cardinality(Live) = 0 /\ Cardinality(Allocated) = 0 BY <1>4, FS_EmptySet
<1>6. SeqControl
  <2>1. off \in [Procs -> Nat] /\ numElems \in Int /\ numElems <= Cardinality(Allocated) BY <1>2, <1>5
  <2>2. headShown \in BOOLEAN BY <1>2, Zenon
  <2> QED BY <1>2, <2>1, <2>2 DEF SeqControl
<1>7. CountInv BY <1>2, <1>5 DEF CountInv, Freeing
<1>8. LinesInv BY <1>2 DEF LinesInv, NoLocals
<1> QED BY <1>1, <1>6, <1>7, <1>8 DEF SeqInv

LEMMA NextSeqInv ==
    ASSUME SeqInv, [SeqNext]_seq
    PROVE  SeqInv'
<1>1. CASE SeqNext
  <2>1. PICK p \in Procs : SeqCall(p) \/ SeqStep(p) BY <1>1 DEF SeqNext
  <2>2. ~misuse BY <1>1 DEF SeqNext
  <2>3. ListingStep(p) \/ WritingStep(p) BY <2>1 DEF SeqCall, SeqStep, ListingStep, WritingStep
  <2>4. CASE ListingStep(p)
    <3>1. IInv' /\ SeqControl' /\ CountInv' BY <2>4, ListingKeepsList, ListingCounts DEF SeqInv
    <3>2. LinesInv' BY <2>4, ListingLines DEF LinesInv
    <3> QED BY <3>1, <3>2 DEF SeqInv
  <2>5. CASE WritingStep(p)
    <3>1. IInv' BY <2>2, <2>5, WritingTypes DEF SeqInv
    <3> QED BY <2>2, <2>5, <3>1, WritingControl, WritingCount, WritingLines DEF SeqInv
  <2> QED BY <2>3, <2>4, <2>5
<1>2. CASE UNCHANGED seq
  <2>1. /\ UNCHANGED vars /\ ring' = ring /\ pc' = pc /\ loc' = loc /\ overlap' = overlap
        /\ numElems' = numElems /\ off' = off /\ headShown' = headShown
    BY <1>2 DEF seq, vars
  <2>2. IInv' BY <2>1, NextIInv DEF SeqInv
  <2>3. Live' = Live /\ Allocated' = Allocated /\ Freeing' = Freeing BY <2>1 DEF Live, Allocated, Freeing
  <2>4. SeqControl' BY <2>1, <2>3 DEF SeqInv, SeqControl
  <2>5. CountInv' BY <2>1, <2>3 DEF SeqInv, CountInv
  <2>6. LinesInv'
    <3>1. \A s \in Seq(Nodes) : (ForthOK(s))' => ForthOK(s) BY <2>1 DEF ForthOK
    <3>2. \A s \in Seq(Nodes), p \in Procs : Lines(p, s) => (Lines(p, s))' BY <2>1 DEF Lines
    <3> QED BY <2>1, <3>1, <3>2 DEF SeqInv, LinesInv
  <2> QED BY <2>2, <2>4, <2>5, <2>6 DEF SeqInv
<1> QED BY <1>1, <1>2

\* What modlist2.c promises follows from the count and from where each listing is.
LEMMA SeqPromises ==
    ASSUME SeqInv
    PROVE  HeadShownByOverlap /\ CountExact /\ ListingComplete
<1>1. HeadShownByOverlap
  <2>1. overlap \in 0 .. 3 BY DEF SeqInv, IInv, Types
  <2> QED BY <2>1 DEF SeqInv, LinesInv, HeadShownByOverlap
<1>2. CountExact
  <2>1. SUFFICES ASSUME overlap < 3, ~Writing PROVE numElems = Cardinality(Live) BY DEF CountExact
  <2>2. ~Freeing
    <3>1. \A p \in Procs : pc[p] = "free" => loc[p].op \in {"delete", "unload"}
      BY DEF SeqInv, IInv, Control, InPlace, Deleting
    <3> QED BY <2>1, <3>1 DEF Writing, Freeing
  <2> QED BY <2>1, <2>2, NodesCount DEF SeqInv, CountInv
<1>3. ListingComplete
  <2>1. SUFFICES ASSUME NEW p \in Procs, pc[p] = "end", overlap = 0
        PROVE  LET text == loc[p].text
               IN  /\ Len(text) = Cardinality(Live)
                   /\ \A i \in DOMAIN text :
                        /\ text[i] \in Live
                        /\ Cardinality({j \in Live : j < text[i]}) = (i - 1) % Chunk
    BY DEF ListingComplete
  <2>2. loc[p].op = "read" BY <2>1 DEF SeqInv, IInv, Control, InPlace, Listing
  <2>3. PICK s \in Seq(Nodes) : ListIs(s) BY <2>1, ListFacts DEF SeqInv
  <2>4. ForthOK(s) /\ \A i, j \in 1 .. Len(s) : i < j => s[i] < s[j] BY <2>3 DEF ListIs, InOrder
  <2>5. Range(s) = Live BY <2>1, <2>2, <2>3, ListedAlone
  <2>6. Len(s) = Cardinality(Live) BY <2>4, <2>5, OrderedCount
  <2>7. PICK text : text = loc[p].text OBVIOUS
  <2>8. /\ Len(text) = Len(s)
        /\ \A i \in 1 .. Len(s) : text[i] = At(s, 1 + ((i - 1) % Chunk))
    <3>1. Lines(p, s) BY <2>1, <2>2, <2>4 DEF SeqInv, LinesInv
    <3>2. off[p] = Len(s) BY <2>1, <3>1 DEF Lines
    <3> QED BY <2>1, <2>7, <3>1, <3>2 DEF Lines
  <2>9. text \in Seq(Nodes) /\ DOMAIN text = 1 .. Len(s) /\ Len(s) \in Nat
    <3>1. text \in Seq(Nodes) BY <2>7, TypeFacts DEF SeqInv, IInv, Locals
    <3> QED BY <2>8, <3>1
  <2>10. ASSUME NEW i \in 1 .. Len(s)
         PROVE  /\ text[i] \in Live
                /\ Cardinality({j \in Live : j < text[i]}) = (i - 1) % Chunk
    <3>1. PICK r : r = (i - 1) % Chunk OBVIOUS
    <3>2. PICK b \in Nat : b = i - 1 BY <2>9
    <3>3. r \in 0 .. Chunk - 1 /\ r <= b BY <3>1, <3>2, NextRemainder
    <3>4. PICK k \in 1 .. Len(s) : k = 1 + r BY <2>9, <3>2, <3>3
    <3>5. text[i] = s[k] /\ s[k] \in Range(s)
      <4>1. text[i] = At(s, k) BY <2>8, <3>1, <3>4
      <4>2. At(s, k) = s[k] BY DEF At
      <4> QED BY <4>1, <4>2, AtFacts
    <3>6. Cardinality({j \in Range(s) : j < s[k]}) = k - 1 BY <2>4, OrderedCount
    <3>7. k - 1 = r BY <3>3, <3>4
    <3> QED BY <2>5, <3>1, <3>5, <3>6, <3>7
  <2> QED BY <2>6, <2>7, <2>8, <2>9, <2>10
<1> QED BY <1>1, <1>2, <1>3

\* The sequence file of modlist2.c, as it is model-checked: a listing that no call
\* overlaps has as many lines as there are nodes, and each of its reads begins at the
\* first node; the list head is shown as a node only after an overlap; and numElems
\* is the number of nodes when nobody writes, unless two writers overlapped.
THEOREM ListingsAreComplete == ListsSpec => []SeqListing
<1> DEFINE I == version = "seq" => SeqInv
<1>1. ListsInit => I BY InitSeqInv DEF ListsInit
<1>2. ASSUME I, [ListsNext]_<<vars, smpOnly, seqOnly, version>> PROVE I'
  <2>1. version' = version /\ (version = "seq" => [SeqNext]_seq)
    <3>1. CASE ListsNext BY <3>1 DEF ListsNext
    <3>2. CASE UNCHANGED <<vars, smpOnly, seqOnly, version>> BY <3>2 DEF seqOnly, seq
    <3> QED BY <1>2, <3>1, <3>2
  <2>2. version' = "seq" => SeqInv' BY <1>2, <2>1, NextSeqInv
  <2> QED BY <2>2
<1>3. I => SeqListing BY SeqPromises DEF SeqListing
<1> HIDE DEF I
<1> QED BY <1>1, <1>2, <1>3, PTL DEF ListsSpec
==============================================================================
