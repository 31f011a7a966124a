---------------------------- MODULE MultiPCProofs ----------------------------
(***************************************************************************)
(* Theorems about MultiPC, for any administrators, producers, consumers,   *)
(* names, limit, size of the buffers and number of signals: what may be    *)
(* freed, what the list, the directory and the count say of each other,    *)
(* and where the strings, the gaps and the elements are.                   *)
(***************************************************************************)
EXTENDS MultiPC, SemaphoreProofs, NaturalsInduction, WellFoundedInduction

-----------------------------------------------------------------------------
(* Types. *)

BufTypes == [state : {"freed", "live", "nofifo"}, name : Names, isInt : BOOLEAN,
             stored : 0 .. MaxSize, elements : Semaphores(Procs),
             gaps : Semaphores(Procs), mtx : Semaphores(Procs)]

TypeInv ==
    /\ list \in Seq(Buffers) /\ entries \in 0 .. UINT_MAX
    /\ sem_list \in Semaphores(Procs)
    /\ proc \in [Names -> Buffers \cup {None}]
    /\ buf \in [Buffers -> BufTypes]
    /\ heap \in Int /\ signals \in 0 .. MaxSignals
    /\ pc \in [Procs -> PCs] /\ loc \in [Procs -> Locals]
    /\ unlocked \in BOOLEAN /\ raced \in BOOLEAN /\ misuse \in BOOLEAN
    /\ overlapped \subseteq Names /\ stale \subseteq Producers
-----------------------------------------------------------------------------
(* Who is where.  A creation has a buffer of its own before it is in the    *)
(* list; a deletion has one that is in the list until it ends.              *)

CreatePCs == {"create", "add", "append", "load", "count"}
RemovePCs == {"drain", "drainlock", "drainup", "drained", "unlink", "rundown", "unlist"}
UserPCs   == {"gap", "wlock", "wundo", "post", "elem", "rlock", "rundo", "free", "print"}

\* No element is in s twice; and e is in s.
Distinct(s)  == \A i, j \in DOMAIN s : s[i] = s[j] => i = j
Occurs(s, e) == \E i \in DOMAIN s : s[i] = e

Creating(p) == p \in Admins /\ pc[p] \in {"add", "append"}
Removing(p) == p \in Admins /\ pc[p] \in RemovePCs
Linked(d)   == Occurs(list, d)

Control ==
    /\ \A p \in Admins : pc[p] \in {"idle", "exists", "remove", "walk"} \cup CreatePCs \cup RemovePCs
    /\ \A u \in Users : pc[u] \in {"idle"} \cup UserPCs /\ loc[u].op = "none"
    /\ \A p \in Procs : pc[p] = "idle" => loc[p] = NoLocals
    /\ \A p \in Procs : pc[p] = "exists" => loc[p].op # "none"
    /\ \A p \in Procs : pc[p] \in CreatePCs => loc[p].op = "new"
    /\ \A p \in Procs : pc[p] \in {"remove", "walk"} \cup RemovePCs => loc[p].op = "delete"
    /\ \A p \in Procs : pc[p] \in {"add", "append"} \cup RemovePCs \cup UserPCs
                          => loc[p].node \in Buffers
    \* Nobody else administers while a process deletes.
    /\ \A p, q \in Admins : loc[p].op = "delete" /\ q # p => pc[q] = "idle"

\* The list has no node twice; a buffer that is allocated is in it, or with the
\* process that creates it; one in it is live, but for the one being removed.
ListInv ==
    /\ Distinct(list)
    /\ \A p \in Admins : Creating(p) =>
          /\ ~Linked(loc[p].node)
          /\ buf[loc[p].node].state = "live" /\ buf[loc[p].node].name = loc[p].name
    /\ \A p, q \in Admins : Creating(p) /\ Creating(q) /\ loc[p].node = loc[q].node => p = q
    /\ \A d \in Buffers : buf[d].state # "freed" =>
          Linked(d) \/ \E p \in Admins : Creating(p) /\ loc[p].node = d
    /\ \A d \in Buffers : Linked(d) /\ buf[d].state # "live" =>
          \E p \in Admins : pc[p] \in {"unlink", "rundown", "unlist"} /\ loc[p].node = d

\* Nothing is stored but in a live buffer.
StoreInv == \A d \in Buffers : buf[d].state # "live" => buf[d].stored = 0

\* A removal stands at a node, has the next one, and has left none of the name
\* behind it.
Stands(p) == \E k \in DOMAIN list :
    /\ list[k] = loc[p].node
    /\ loc[p].next = IF k < Len(list) THEN list[k + 1] ELSE None
    /\ \A j \in 1 .. k - 1 : buf[list[j]].name # loc[p].name

Phase(p) ==
    /\ pc[p] \in {"drain", "drainlock", "drainup", "drained"} => buf[loc[p].node].state = "live"
    /\ pc[p] \in {"unlink", "rundown"} => buf[loc[p].node].state = "nofifo"
    /\ pc[p] = "unlist" => buf[loc[p].node].state = "freed"
    /\ pc[p] # "unlist" => buf[loc[p].node].name = loc[p].name
    /\ pc[p] \in {"rundown", "unlist"} => proc[loc[p].name] = None

RemoveInv == \A p \in Admins : Removing(p) => Stands(p) /\ Phase(p)

\* What is registered is allocated, under its name; and what is in the list is
\* registered, but for what a removal in progress has taken out.
ProcInv ==
    /\ \A n \in Names : proc[n] # None => buf[proc[n]].state # "freed" /\ buf[proc[n]].name = n
    /\ \A p \in Admins : Creating(p) => proc[loc[p].name] # None
    /\ \A d \in Buffers : Linked(d) /\ buf[d].state # "freed" /\ proc[buf[d].name] = None =>
          \E p \in Admins : Removing(p) /\ loc[p].name = buf[d].name

\* A call in progress is on a buffer that is registered, or that a removal
\* waits for.
UseInv == \A u \in Users : pc[u] # "idle" =>
    LET d == loc[u].node IN
        /\ buf[d].state # "freed"
        /\ \/ proc[buf[d].name] = d
           \/ \E p \in Admins : /\ pc[p] = "rundown" /\ loc[p].reg = d
                                /\ loc[p].name = buf[d].name
-----------------------------------------------------------------------------
(* Mutexes. *)

\* Where a process is in the accounts of the mutex, the gaps and the elements of
\* a buffer, at each place of its program.
LockAt(a) == IF a \in {"wlock", "rlock", "drainlock"} THEN "lock" ELSE "off"
GapAt(a)  == IF a = "gap" THEN "wait"
             ELSE IF a \in {"wlock", "wundo", "free", "drainup"} THEN "hold" ELSE "off"
ElemAt(a) == IF a = "elem" THEN "wait"
             ELSE IF a \in {"rlock", "rundo", "post"} THEN "hold" ELSE "off"

LockPlace(d) == [p \in Procs |-> IF loc[p].node = d THEN LockAt(pc[p]) ELSE "off"]
GapPlace(d)  == [p \in Procs |-> IF loc[p].node = d THEN GapAt(pc[p]) ELSE "off"]
ElemPlace(d) == [p \in Procs |-> IF loc[p].node = d THEN ElemAt(pc[p]) ELSE "off"]

MtxInv == \A d \in Buffers : buf[d].state # "freed" =>
    Account(Procs, buf[d].mtx, LockPlace(d), {"lock"}, {}, 1)

ListPCs == {"exists", "append", "walk", "unlist"}
ListMtxInv == ~unlocked => Account(Procs, sem_list, pc, ListPCs, {}, 1)
-----------------------------------------------------------------------------
(* Removals that no call takes part in. *)

QuietInv == \A p \in Admins : Removing(p) /\ loc[p].name \notin overlapped =>
    /\ \A u \in Users : pc[u] # "idle" => buf[loc[u].node].name # loc[p].name
    /\ pc[p] = "drainlock" => ~buf[loc[p].node].isInt /\ buf[loc[p].node].stored > 0
    /\ pc[p] = "drainup" => loc[p].got = "string"

MemInv == misuse => unlocked \/ overlapped # {}
-----------------------------------------------------------------------------
(* The count of entries. *)

Counting == {p \in Admins : pc[p] \in {"load", "count"}}
Early    == {p \in Admins : pc[p] \in {"exists", "create", "add", "append"} /\ loc[p].op = "new"}
EntriesInv == ~raced =>
    /\ entries + Cardinality(Counting) = Len(list)
    /\ \A p \in Admins : pc[p] = "count" => loc[p].reg = entries
    /\ \A p, q \in Admins : pc[p] = "count" /\ pc[q] = "count" => p = q
    /\ Len(list) + Cardinality(Early) <= MaxEntries + Cardinality(Admins) - 1
-----------------------------------------------------------------------------
(* Gaps and elements. *)

GapInv == \A d \in Buffers : buf[d].state = "live" /\ buf[d].name \notin overlapped =>
    Account(Procs, buf[d].gaps, GapPlace(d), {"wait"}, {"hold"}, MaxSize - buf[d].stored)

\* A buffer of that name is being removed.
Removed(n) == \E p \in Admins : Removing(p) /\ loc[p].name = n

ElemInv == \A d \in Buffers :
    buf[d].state = "live" /\ buf[d].name \notin overlapped /\ ~Removed(buf[d].name) =>
        Account(Procs, buf[d].elements, ElemPlace(d), {"wait"}, {"hold"}, buf[d].stored)

\* Who has a string, and a drain is one of strings.
GotInv == /\ \A u \in Users : loc[u].got = "string" => pc[u] = "free"
          /\ \A p \in Admins : loc[p].got = "string" => pc[p] = "drainup"
          /\ \A p \in Admins : pc[p] = "drainlock" => ~buf[loc[p].node].isInt
-----------------------------------------------------------------------------
(* Sequences and numbers. *)

LEMMA RemoveAtEffect ==
    ASSUME NEW S, NEW s \in Seq(S), NEW at \in DOMAIN s
    PROVE  /\ RemoveAt(s, at) \in Seq(S) /\ Len(RemoveAt(s, at)) = Len(s) - 1
           /\ DOMAIN RemoveAt(s, at) = 1 .. Len(s) - 1
           /\ \A i \in 1 .. Len(s) - 1 : RemoveAt(s, at)[i] = s[IF i < at THEN i ELSE i + 1]
<1> DEFINE w == RemoveAt(s, at)
<1>1. DOMAIN s = 1 .. Len(s) /\ Len(s) \in Nat /\ \A i \in DOMAIN s : s[i] \in S
  BY LenProperties, ElementOfSeq
<1>2. at \in 1 .. Len(s) BY <1>1
<1> DEFINE a == SubSeq(s, 1, at - 1)
           b == SubSeq(s, at + 1, Len(s))
<1>3. a \in Seq(S) /\ Len(a) = at - 1 /\ \A i \in 1 .. at - 1 : a[i] = s[i]
  BY <1>1, <1>2, SubSeqProperties
<1>4. b \in Seq(S) /\ Len(b) = Len(s) - at /\ \A i \in 1 .. Len(s) - at : b[i] = s[at + i]
  BY <1>1, <1>2, SubSeqProperties
<1>5. w = a \o b BY DEF RemoveAt
<1> HIDE DEF a, b, w
<1>6. /\ w \in Seq(S) /\ Len(w) = Len(a) + Len(b)
      /\ \A i \in 1 .. Len(a) + Len(b) : w[i] = IF i <= Len(a) THEN a[i] ELSE b[i - Len(a)]
  BY <1>3, <1>4, <1>5, ConcatProperties
<1>7. DOMAIN w = 1 .. Len(s) - 1 /\ Len(w) = Len(s) - 1
  BY <1>1, <1>2, <1>3, <1>4, <1>6, LenProperties
<1>8. ASSUME NEW i \in 1 .. Len(s) - 1 PROVE w[i] = s[IF i < at THEN i ELSE i + 1]
  <2>1. i \in 1 .. Len(a) + Len(b) BY <1>1, <1>2, <1>3, <1>4
  <2>2. CASE i < at
    <3>1. i <= Len(a) /\ i \in 1 .. at - 1 BY <2>1, <2>2, <1>1, <1>2, <1>3
    <3> QED BY <3>1, <2>1, <2>2, <1>3, <1>6
  <2>3. CASE i >= at
    <3>1. ~(i <= Len(a)) /\ i - Len(a) \in 1 .. Len(s) - at
      BY <2>1, <2>3, <1>1, <1>2, <1>3, <1>4
    <3>2. w[i] = b[i - Len(a)] BY <3>1, <2>1, <1>6
    <3>3. at + (i - Len(a)) = i + 1 BY <2>1, <1>1, <1>2, <1>3
    <3>4. b[i - Len(a)] = s[at + (i - Len(a))] BY <3>1, <1>4
    <3>5. ~(i < at) BY <2>1, <2>3, <1>2
    <3> QED BY <3>2, <3>3, <3>4, <3>5
  <2> QED BY <2>1, <2>2, <2>3, <1>1, <1>2
<1> QED BY <1>6, <1>7, <1>8 DEF w

\* What is left when one of several different elements is taken out.
LEMMA RemoveAtOne ==
    ASSUME NEW S, NEW s \in Seq(S), NEW k \in DOMAIN s, Distinct(s)
    PROVE  /\ Distinct(RemoveAt(s, k))
           /\ \A e : Occurs(RemoveAt(s, k), e) <=> Occurs(s, e) /\ e # s[k]
<1> DEFINE n == Len(s)
           g == RemoveAt(s, k)
<1>1. DOMAIN s = 1 .. n /\ n \in Nat BY LenProperties
<1>2. DOMAIN g = 1 .. n - 1 /\ \A i \in 1 .. n - 1 : g[i] = s[IF i < k THEN i ELSE i + 1]
  BY RemoveAtEffect
<1> HIDE DEF n, g
<1>3. k \in 1 .. n /\ \A i, j \in 1 .. n : s[i] = s[j] => i = j BY <1>1 DEF Distinct
<1>4. ASSUME NEW i \in 1 .. n - 1, NEW j \in 1 .. n - 1, g[i] = g[j] PROVE i = j
  <2>1. (IF i < k THEN i ELSE i + 1) \in 1 .. n /\ (IF j < k THEN j ELSE j + 1) \in 1 .. n
    BY <1>1, <1>3
  <2>2. (IF i < k THEN i ELSE i + 1) = (IF j < k THEN j ELSE j + 1)
    BY <1>2, <1>3, <1>4, <2>1
  <2> QED BY <1>1, <1>3, <2>2
<1>5. ASSUME NEW i \in 1 .. n - 1 PROVE (\E j \in 1 .. n : s[j] = g[i]) /\ g[i] # s[k]
  <2> DEFINE j == IF i < k THEN i ELSE i + 1
  <2>1. j \in 1 .. n /\ j # k /\ s[j] = g[i] BY <1>1, <1>2, <1>3, <1>5
  <2> HIDE DEF j
  <2> QED BY <1>3, <2>1
<1>6. ASSUME NEW j \in 1 .. n, s[j] # s[k] PROVE \E i \in 1 .. n - 1 : g[i] = s[j]
  <2>1. CASE j < k
    <3>1. j \in 1 .. n - 1 BY <1>1, <1>3, <2>1
    <3> QED BY <1>2, <2>1, <3>1
  <2>2. CASE j > k
    <3>1. j - 1 \in 1 .. n - 1 /\ ~(j - 1 < k) /\ (j - 1) + 1 = j BY <1>1, <1>3, <2>2
    <3> QED BY <1>2, <3>1
  <2> QED BY <1>1, <1>3, <1>6, <2>1, <2>2
<1>7. Distinct(g) BY <1>2, <1>4 DEF Distinct
<1>8. ASSUME NEW e PROVE Occurs(g, e) <=> Occurs(s, e) /\ e # s[k]
  BY <1>1, <1>2, <1>5, <1>6, ZenonT(60) DEF Occurs
<1> QED BY <1>7, <1>8 DEF g

LEMMA ModRange ==
    ASSUME NEW a \in Int, NEW m \in Nat
    PROVE  /\ a % (m + 1) \in 0 .. m
           /\ a \in 0 .. m => a % (m + 1) = a
OBVIOUS

LEMMA Constants ==
    /\ Test \in Names /\ Types \subseteq BOOLEAN
    /\ MaxEntries \in Nat \ {0} /\ MaxSize \in Nat \ {0} /\ UINT_MAX \in Nat \ {0}
    /\ MaxBuffers \in Nat \ {0} /\ MaxSignals \in Nat
    /\ Admins # {} /\ Admins \cap Users = {} /\ Procs = Admins \cup Users
    /\ IsFiniteSet(Procs) /\ IsFiniteSet(Admins)
    /\ MaxEntries + Cardinality(Admins) - 1 <= UINT_MAX
    /\ 1 \in Buffers /\ None \notin Buffers /\ Buffers \subseteq Nat /\ None \in Nat
<1>1. Procs = Admins \cup Producers \cup Consumers BY DEF Procs, Users
<1>2. IsFiniteSet(Procs) /\ IsFiniteSet(Admins)
  BY <1>1, MultiPCAssumption, FS_Subset
<1> QED BY <1>2, MultiPCAssumption DEF Procs, Users, Buffers, None
\* A set of numbers that is not empty has a least one.
LEMMA Smallest ==
    ASSUME NEW S \in SUBSET Nat, S # {}
    PROVE  \E k \in S : \A m \in S : k <= m
<1>1. PICK x \in S : \A y \in S : ~(<<y, x>> \in OpToRel(<, Nat))
  BY NatLessThanWellFounded, WFMin, Zenon
<1>2. \A y \in S : y \in Nat /\ ~(y < x) BY <1>1, Zenon DEF OpToRel
<1>3. x \in Nat /\ \A y \in S : x <= y BY <1>2
<1> QED BY <1>3

\* The place of a node of the list, and of the node after it.
LEMMA AtEffect ==
    ASSUME TypeInv, Distinct(list),
           NEW k \in DOMAIN list
    PROVE  At(list[k]) = k
BY DEF At, Distinct

LEMMA UnlistTypes ==
    ASSUME TypeInv, Control, RemoveInv, NEW p \in Procs, Unlist(p)
    PROVE  Rest(p) \in Seq(Buffers) /\ list' \in Seq(Buffers)
<1>1. list \in Seq(Buffers) /\ DOMAIN list = 1 .. Len(list) /\ Len(list) \in Nat
  BY LenProperties DEF TypeInv
<1>2. p \in Admins /\ Removing(p)
  BY Constants DEF Unlist, Granted, Control, UserPCs, Removing, RemovePCs
<1>3. PICK k \in DOMAIN list :
        /\ list[k] = loc[p].node
        /\ loc[p].next = IF k < Len(list) THEN list[k + 1] ELSE None
  BY <1>2 DEF RemoveInv, Stands, Phase
<1>4. At(loc[p].node) \in DOMAIN list BY <1>3 DEF At
<1>5. list' \in Seq(Buffers) BY <1>1, <1>4, RemoveAtEffect DEF Unlist
<1>6. loc[p].next # None => At(loc[p].next) \in DOMAIN list BY <1>1, <1>3 DEF At
<1>7. Rest(p) \in Seq(Buffers)
  <2>1. CASE loc[p].next = None BY <2>1 DEF Rest
  <2>2. CASE loc[p].next # None
    <3>1. At(loc[p].next) \in 1 .. Len(list) BY <1>1, <1>6, <2>2
    <3> QED BY <1>1, <2>2, <3>1, SubSeqProperties DEF Rest
  <2> QED BY <2>1, <2>2
<1> QED BY <1>5, <1>7
-----------------------------------------------------------------------------
(* Types. *)

LEMMA InitTypes == Init => TypeInv
<1> SUFFICES ASSUME Init PROVE TypeInv OBVIOUS
<1>1. SemInit(0) \in Semaphores(Procs) /\ SemInit(1) \in Semaphores(Procs)
      /\ SemInit(MaxSize) \in Semaphores(Procs)
  BY InitEffect, Constants
<1>2. Freed \in BufTypes /\ NewBuffer(Test, TRUE) \in BufTypes
  BY <1>1, Constants DEF Freed, NewBuffer, BufTypes
<1>3. buf \in [Buffers -> BufTypes] BY <1>2 DEF Init
<1>4. list \in Seq(Buffers) /\ entries \in 0 .. UINT_MAX
  <2>1. list = <<1>> /\ entries = 1 BY DEF Init
  <2> QED BY <2>1, Constants
<1>5. proc \in [Names -> Buffers \cup {None}] BY Constants DEF Init
<1>6. pc \in [Procs -> PCs] BY DEF Init, PCs
<1>7. loc \in [Procs -> Locals] BY Constants DEF Init, NoLocals, Locals, None
<1>8. heap = 0 /\ signals = 0 /\ overlapped = {} /\ stale = {} /\ ~misuse /\ ~unlocked
      /\ ~raced
      /\ misuse \in BOOLEAN /\ unlocked \in BOOLEAN /\ raced \in BOOLEAN
  BY DEF Init
<1>9. sem_list \in Semaphores(Procs) BY <1>1 DEF Init
<1> QED BY <1>3, <1>4, <1>5, <1>6, <1>7, <1>8, <1>9, Constants DEF TypeInv

LEMMA SemTypes ==
    ASSUME TypeInv, NEW d \in Buffers, NEW p \in Procs
    PROVE  /\ {Down(buf[d].mtx, p), Down(buf[d].gaps, p), Down(buf[d].elements, p)}
                \subseteq Semaphores(Procs)
           /\ {Up(buf[d].mtx), Up(buf[d].gaps), Up(buf[d].elements)} \subseteq Semaphores(Procs)
           /\ Waiting(buf[d].mtx, p) => Cancel(buf[d].mtx, p) \in Semaphores(Procs)
           /\ Waiting(buf[d].gaps, p) => Cancel(buf[d].gaps, p) \in Semaphores(Procs)
           /\ Waiting(buf[d].elements, p) => Cancel(buf[d].elements, p) \in Semaphores(Procs)
<1>1. {buf[d].mtx, buf[d].gaps, buf[d].elements} \subseteq Semaphores(Procs)
  BY DEF TypeInv, BufTypes
<1> QED BY <1>1, DownType, UpType, CancelType

LEMMA ListTypes ==
    ASSUME TypeInv, NEW p \in Procs
    PROVE  /\ Down(sem_list, p) \in Semaphores(Procs) /\ Up(sem_list) \in Semaphores(Procs)
           /\ Waiting(sem_list, p) => Cancel(sem_list, p) \in Semaphores(Procs)
BY DownType, UpType, CancelType DEF TypeInv

LEMMA BufFields ==
    ASSUME TypeInv, NEW d \in Buffers, NEW p \in Procs
    PROVE  /\ [buf EXCEPT ![d].mtx = Down(@, p)] \in [Buffers -> BufTypes]
           /\ [buf EXCEPT ![d].gaps = Down(@, p)] \in [Buffers -> BufTypes]
           /\ [buf EXCEPT ![d].elements = Down(@, p)] \in [Buffers -> BufTypes]
           /\ [buf EXCEPT ![d].gaps = Up(@)] \in [Buffers -> BufTypes]
           /\ [buf EXCEPT ![d].elements = Up(@)] \in [Buffers -> BufTypes]
           /\ \A n \in 0 .. MaxSize :
                [buf EXCEPT ![d].stored = n, ![d].mtx = Up(@)] \in [Buffers -> BufTypes]
           /\ [buf EXCEPT ![d].state = "nofifo", ![d].stored = 0] \in [Buffers -> BufTypes]
           /\ [buf EXCEPT ![d] = Freed] \in [Buffers -> BufTypes]
           /\ \A n \in Names, t \in BOOLEAN :
                [buf EXCEPT ![d] = NewBuffer(n, t)] \in [Buffers -> BufTypes]
           /\ Waiting(buf[d].mtx, p) =>
                [buf EXCEPT ![d].mtx = Cancel(@, p)] \in [Buffers -> BufTypes]
           /\ Waiting(buf[d].gaps, p) =>
                [buf EXCEPT ![d].gaps = Cancel(@, p)] \in [Buffers -> BufTypes]
           /\ Waiting(buf[d].elements, p) =>
                [buf EXCEPT ![d].elements = Cancel(@, p)] \in [Buffers -> BufTypes]
<1>1. buf \in [Buffers -> BufTypes] /\ buf[d] \in BufTypes BY DEF TypeInv
<1>2. ASSUME NEW s \in Semaphores(Procs)
      PROVE  /\ [buf[d] EXCEPT !.mtx = s] \in BufTypes
             /\ [buf[d] EXCEPT !.gaps = s] \in BufTypes
             /\ [buf[d] EXCEPT !.elements = s] \in BufTypes
             /\ \A n \in 0 .. MaxSize : [buf[d] EXCEPT !.stored = n, !.mtx = s] \in BufTypes
  BY <1>1 DEF BufTypes
<1>3. [buf[d] EXCEPT !.state = "nofifo", !.stored = 0] \in BufTypes
  <2>1. 0 \in 0 .. MaxSize BY Constants
  <2> QED BY <1>1, <2>1 DEF BufTypes
<1>4. SemInit(0) \in Semaphores(Procs) /\ SemInit(1) \in Semaphores(Procs)
      /\ SemInit(MaxSize) \in Semaphores(Procs)
  BY InitEffect, Constants
<1>5. Freed \in BufTypes BY <1>4, Constants DEF Freed, BufTypes
<1>6. \A n \in Names, t \in BOOLEAN : NewBuffer(n, t) \in BufTypes
  BY <1>4, Constants DEF NewBuffer, BufTypes
<1> QED BY <1>1, <1>2, <1>3, <1>5, <1>6, SemTypes

LEMMA CallTypes ==
    ASSUME TypeInv, Control, NEW p \in Procs, Call(p)
    PROVE  TypeInv'
<1> USE DEF Goto, ghost, PCs, TypeInv
<1>1. CASE CallNew(p)
  <2>1. PICK n \in Names : EnterAdmin(p, "new", n) BY <1>1 DEF CallNew
  <2>2. [NoLocals EXCEPT !.op = "new", !.name = n] \in Locals
    BY Constants DEF NoLocals, Locals, None
  <2> QED BY <2>1, <2>2, ListTypes DEF EnterAdmin
<1>2. CASE CallDelete(p)
  <2>1. PICK n \in Names : EnterAdmin(p, "delete", n) BY <1>2 DEF CallDelete
  <2>2. [NoLocals EXCEPT !.op = "delete", !.name = n] \in Locals
    BY Constants DEF NoLocals, Locals, None
  <2> QED BY <2>1, <2>2, ListTypes DEF EnterAdmin
<1>3. ASSUME NEW d \in Buffers, NEW place \in PCs, EnterBuffer(p, d, place)
      PROVE  /\ loc' \in [Procs -> Locals] /\ overlapped' \subseteq Names /\ pc' \in [Procs -> PCs]
             /\ UNCHANGED <<admin, signals, unlocked, raced, stale, misuse>>
  <2>0. loc' = [loc EXCEPT ![p].node = d] BY <1>3 DEF EnterBuffer
  <2>1. loc' \in [Procs -> Locals]
    <3>1. [loc[p] EXCEPT !.node = d] \in Locals BY DEF Locals
    <3> QED BY <2>0, <3>1
  <2>2. buf[d].name \in Names BY DEF BufTypes
  <2> QED BY <1>3, <2>1, <2>2 DEF EnterBuffer
<1>4. CASE CallWrite(p)
  <2>1. PICK n \in Names : LET d == proc[n] IN
          /\ d # None /\ buf' = [buf EXCEPT ![d].gaps = Down(@, p)]
          /\ heap' = IF buf[d].isInt THEN heap ELSE heap + 1
          /\ EnterBuffer(p, d, "gap")
    BY <1>4 DEF CallWrite
  <2>2. proc[n] \in Buffers BY <2>1
  <2>3. buf' \in [Buffers -> BufTypes] BY <2>1, <2>2, BufFields
  <2> QED BY <1>3, <2>1, <2>2, <2>3 DEF admin
<1>5. CASE CallRead(p)
  <2>1. PICK n \in Names : LET d == proc[n] IN
          /\ d # None /\ buf' = [buf EXCEPT ![d].elements = Down(@, p)]
          /\ EnterBuffer(p, d, "elem")
    BY <1>5 DEF CallRead
  <2>2. proc[n] \in Buffers BY <2>1
  <2>3. buf' \in [Buffers -> BufTypes] BY <2>1, <2>2, BufFields
  <2> QED BY <1>3, <1>5, <2>1, <2>2, <2>3 DEF CallRead, admin
<1> QED BY <1>1, <1>2, <1>4, <1>5 DEF Call

LEMMA AdminTypes ==
    ASSUME TypeInv, Control, RemoveInv, NEW p \in Procs,
           \/ Exists(p) \/ Create(p) \/ AddLock(p) \/ AddAppend(p) \/ AddLoad(p) \/ AddStore(p)
           \/ RemoveLock(p) \/ Walk(p) \/ Unlink(p) \/ Rundown(p) \/ Unlist(p)
    PROVE  TypeInv'
<1> USE DEF Goto, ghost, PCs, TypeInv
<1>1. Return(p) => loc' \in [Procs -> Locals] /\ pc' \in [Procs -> PCs]
  <2>1. NoLocals \in Locals BY Constants DEF NoLocals, Locals, None
  <2> QED BY <2>1 DEF Return
<1>2. loc[p] \in Locals /\ loc[p].name \in Names BY DEF Locals
<1>3. ASSUME NEW rest \in Seq(Buffers), WalkOn(p, rest)
      PROVE  /\ loc' \in [Procs -> Locals] /\ pc' \in [Procs -> PCs]
             /\ overlapped' \subseteq Names /\ sem_list' \in Semaphores(Procs)
  <2> DEFINE hits == {i \in DOMAIN rest : buf[rest[i]].name = loc[p].name}
             i    == CHOOSE j \in hits : \A k \in hits : j <= k
  <2>1. sem_list' \in Semaphores(Procs) BY <1>3, ListTypes DEF WalkOn
  <2>2. CASE hits = {}
    <3>1. Return(p) /\ overlapped' = overlapped \ {loc[p].name} BY <1>3, <2>2 DEF WalkOn
    <3> QED BY <1>1, <2>1, <3>1
  <2>3. CASE hits # {}
    <3>1. DOMAIN rest = 1 .. Len(rest) /\ Len(rest) \in Nat /\ hits \subseteq 1 .. Len(rest)
          /\ \A j \in DOMAIN rest : rest[j] \in Buffers
      BY LenProperties, ElementOfSeq
    <3>2. hits \in SUBSET Nat BY <3>1
    <3> HIDE DEF hits
    <3>3. \E j \in hits : \A k \in hits : j <= k BY <2>3, <3>2, Smallest
    <3>4. i \in hits BY <3>3
    <3> HIDE DEF i
    <3> DEFINE r == [loc[p] EXCEPT !.node = rest[i],
                                   !.next = IF i < Len(rest) THEN rest[i + 1] ELSE None]
    <3>5. loc' = [loc EXCEPT ![p] = r] /\ pc' = [pc EXCEPT ![p] = "drain"]
          /\ overlapped' \in {overlapped, overlapped \cup {loc[p].name}}
      BY <1>3, <2>3 DEF WalkOn, i, hits
    <3>6. rest[i] \in Buffers /\ (i < Len(rest) => rest[i + 1] \in Buffers)
      BY <3>1, <3>4
    <3>7. r \in Locals BY <1>2, <3>6 DEF Locals, None
    <3> QED BY <1>2, <2>1, <3>5, <3>7
  <2> QED BY <2>2, <2>3
<1>4. CASE Exists(p) BY <1>1, <1>4, ListTypes, Zenon DEF Exists
<1>5. CASE Create(p)
  <2>1. CASE Return(p) /\ UNCHANGED <<proc, buf>> BY <1>1, <1>5, <2>1 DEF Create
  <2>2. CASE ~(Return(p) /\ UNCHANGED <<proc, buf>>)
    <3>1. PICK isInteger \in Types, d \in Buffers :
            /\ buf' = [buf EXCEPT ![d] = NewBuffer(loc[p].name, isInteger)]
            /\ proc' = [proc EXCEPT ![loc[p].name] = IF @ = None THEN d ELSE @]
            /\ loc' = [loc EXCEPT ![p].node = d]
            /\ pc' = [pc EXCEPT ![p] = "add"]
      BY <1>5, <2>2 DEF Create
    <3>2. buf' \in [Buffers -> BufTypes] BY <1>2, <3>1, BufFields, Constants
    <3>3. [loc[p] EXCEPT !.node = d] \in Locals BY <1>2 DEF Locals
    <3> QED BY <1>2, <1>5, <3>1, <3>2, <3>3 DEF Create
  <2> QED BY <2>1, <2>2
<1>6. CASE AddLock(p) BY <1>6, ListTypes DEF AddLock
<1>7. CASE AddAppend(p)
  <2>1. loc[p].node \in Buffers BY <1>7 DEF AddAppend, Granted, Control
  <2>2. list' \in Seq(Buffers) BY <1>7, <2>1 DEF AddAppend
  <2>3. misuse' \in BOOLEAN BY <1>7, Zenon DEF AddAppend
  <2> QED BY <1>7, <2>2, <2>3, ListTypes DEF AddAppend
<1>8. CASE AddLoad(p)
  <2>1. raced' \in BOOLEAN BY <1>8, Zenon DEF AddLoad
  <2>2. [loc[p] EXCEPT !.reg = entries] \in Locals
    <3>1. entries \in Nat BY Constants
    <3> QED BY <1>2, <3>1 DEF Locals
  <2>3. loc' \in [Procs -> Locals] BY <1>8, <2>2 DEF AddLoad
  <2> QED BY <1>8, <2>1, <2>3 DEF AddLoad, admin
<1>9. CASE AddStore(p)
  <2>1. loc[p].reg + 1 \in Int BY <1>2 DEF Locals
  <2>2. entries' \in 0 .. UINT_MAX BY <1>9, <2>1, ModRange, Constants DEF AddStore
  <2> QED BY <1>1, <1>9, <2>2 DEF AddStore
<1>10. CASE RemoveLock(p) BY <1>10, ListTypes DEF RemoveLock
<1>11. CASE Walk(p)
  <2>1. misuse' \in BOOLEAN BY <1>11, Zenon DEF Walk
  <2> QED BY <1>3, <1>11, <2>1 DEF Walk
<1>12. CASE Unlink(p)
  <2>1. loc[p].node \in Buffers BY <1>12 DEF Unlink, Control, RemovePCs
  <2> DEFINE n == buf[loc[p].node].name
  <2>2. n \in Names BY <2>1 DEF BufTypes
  <2>3. [loc[p] EXCEPT !.reg = proc[n]] \in Locals BY <1>2, <2>2, Constants DEF Locals
  <2>4. loc' \in [Procs -> Locals] /\ proc' \in [Names -> Buffers \cup {None}]
    BY <1>12, <2>2, <2>3 DEF Unlink
  <2> QED BY <1>12, <2>4 DEF Unlink
<1>13. CASE Rundown(p)
  <2>1. loc[p].node \in Buffers BY <1>13 DEF Rundown, Control, RemovePCs
  <2>2. buf' \in [Buffers -> BufTypes] BY <1>13, <2>1, BufFields DEF Rundown
  <2>3. [loc[p] EXCEPT !.reg = None] \in Locals BY <1>2, Constants DEF Locals
  <2>4. loc' \in [Procs -> Locals] BY <1>13, <2>3 DEF Rundown
  <2> QED BY <1>13, <2>2, <2>4, ListTypes DEF Rundown
<1>14. CASE Unlist(p)
  <2>1. Rest(p) \in Seq(Buffers) /\ list' \in Seq(Buffers) BY <1>14, UnlistTypes
  <2>2. entries' \in 0 .. UINT_MAX
    <3>1. entries - 1 \in Int OBVIOUS
    <3> QED BY <1>14, <3>1, ModRange, Constants DEF Unlist
  <2>3. misuse' \in BOOLEAN BY <1>14, Zenon DEF Unlist
  <2> QED BY <1>3, <1>14, <2>1, <2>2, <2>3 DEF Unlist
<1> QED BY <1>4, <1>5, <1>6, <1>7, <1>8, <1>9, <1>10, <1>11, <1>12, <1>13, <1>14

LEMMA BufferTypes ==
    ASSUME TypeInv, Control, NEW p \in Procs,
           \/ DrainLock(p) \/ DrainTake(p) \/ DrainFree(p) \/ DrainDone(p) \/ FreeBuffer(p)
           \/ RunUser(p) \/ Interrupt(p)
    PROVE  TypeInv'
<1> USE DEF Goto, ghost, admin, PCs, TypeInv
<1> DEFINE d == loc[p].node
<1>1. Return(p) => loc' \in [Procs -> Locals] /\ pc' \in [Procs -> PCs]
  <2>1. NoLocals \in Locals BY Constants DEF NoLocals, Locals, None
  <2> QED BY <2>1 DEF Return
<1>2. loc[p] \in Locals /\ \A g \in {"null", "string", "dangling"} :
                              [loc[p] EXCEPT !.got = g] \in Locals
  BY ZenonT(60) DEF Locals
<1>3. HeapFreed(p) \in Int /\ StaleNow(p) \subseteq Producers
  BY DEF HeapFreed, StaleNow, MayPrint
<1>4. ASSUME d \in Buffers
      PROVE  /\ buf[d].stored \in 0 .. MaxSize
             /\ buf[d].stored > 0 => buf[d].stored - 1 \in 0 .. MaxSize
             /\ buf[d].stored < MaxSize => buf[d].stored + 1 \in 0 .. MaxSize
  <2>1. buf[d] \in BufTypes BY <1>4
  <2>2. buf[d].stored \in 0 .. MaxSize BY <2>1 DEF BufTypes
  <2>3. MaxSize \in Nat BY Constants
  <2> HIDE DEF d, TypeInv
  <2> QED BY <2>2, <2>3
<1>5. pc[p] \in RemovePCs \cup UserPCs => d \in Buffers BY DEF Control
<1> HIDE DEF d
<1> USE DEF RemovePCs, UserPCs
<1>6. CASE DrainLock(p)
  <2>1. d \in Buffers /\ buf' = [buf EXCEPT ![d].mtx = Down(@, p)]
    BY <1>5, <1>6 DEF DrainLock, d
  <2>2. buf' \in [Buffers -> BufTypes] BY <2>1, BufFields
  <2> QED BY <1>6, <2>1, <2>2 DEF DrainLock
<1>7. CASE DrainTake(p)
  <2>1. d \in Buffers BY <1>5, <1>7 DEF DrainTake, Granted
  <2>2. buf' = [buf EXCEPT ![d].stored = IF buf[d].stored > 0 THEN buf[d].stored - 1
                                                             ELSE buf[d].stored,
                           ![d].mtx = Up(@)]
    BY <1>7, <2>1 DEF DrainTake, d, BufTypes
  <2>3. buf' \in [Buffers -> BufTypes] BY <1>4, <2>1, <2>2, BufFields
  <2>4. loc' \in [Procs -> Locals] BY <1>2, <1>7 DEF DrainTake, Locals
  <2> QED BY <1>7, <2>3, <2>4 DEF DrainTake
<1>8. CASE DrainFree(p)
  <2>1. d \in Buffers BY <1>5, <1>8 DEF DrainFree
  <2>2. buf' = [buf EXCEPT ![d].gaps = Up(@)] BY <1>8, <2>1 DEF DrainFree, Drained, d
  <2>3. loc' \in [Procs -> Locals] BY <1>2, <1>8 DEF DrainFree, Locals
  <2>4. misuse' \in BOOLEAN BY <1>8, Zenon DEF DrainFree
  <2>5. buf' \in [Buffers -> BufTypes] BY <2>1, <2>2, <2>3, <2>4, BufFields
  <2> QED BY <1>3, <1>8, <2>1, <2>2, <2>3, <2>4, <2>5 DEF DrainFree
<1>9. CASE FreeBuffer(p)
  <2>1. d \in Buffers /\ buf' = [buf EXCEPT ![d].state = "nofifo", ![d].stored = 0]
    BY <1>5, <1>9 DEF FreeBuffer, d
  <2>2. misuse' \in BOOLEAN BY <1>9, Zenon DEF FreeBuffer
  <2>3. buf' \in [Buffers -> BufTypes] BY <2>1, <2>2, BufFields
  <2>4. heap' \in Int BY <1>4, <1>9, <2>1 DEF FreeBuffer, d
  <2> QED BY <1>9, <2>1, <2>2, <2>3, <2>4 DEF FreeBuffer
<1>15. CASE DrainDone(p) BY <1>15 DEF DrainDone
<1>10. CASE RunUser(p)
  <2>1. CASE WriteLock(p)
    <3>1. d \in Buffers /\ buf' = [buf EXCEPT ![d].mtx = Down(@, p)]
      BY <1>5, <2>1 DEF WriteLock, Granted, d
    <3>2. buf' \in [Buffers -> BufTypes] BY <3>1, BufFields
    <3> QED BY <2>1, <3>1, <3>2 DEF WriteLock
  <2>2. CASE WritePut(p)
    <3>1. d \in Buffers BY <1>5, <2>2 DEF WritePut, Granted
    <3>2. buf' = [buf EXCEPT ![d].stored = IF Room(d) THEN buf[d].stored + 1
                                                      ELSE buf[d].stored,
                             ![d].mtx = Up(@)]
      BY <2>2, <3>1 DEF WritePut, d, BufTypes
    <3>3. (IF Room(d) THEN buf[d].stored + 1 ELSE buf[d].stored) \in 0 .. MaxSize
      BY <1>4, <3>1 DEF Room
    <3>4. buf' \in [Buffers -> BufTypes] BY <3>1, <3>2, <3>3, BufFields
    <3>5. heap' \in Int BY <2>2 DEF WritePut, Room
    <3> QED BY <2>2, <3>4, <3>5 DEF WritePut
  <2>3. CASE WritePost(p)
    <3>1. d \in Buffers /\ buf' = [buf EXCEPT ![d].elements = Up(@)]
      BY <1>5, <2>3 DEF WritePost, d
    <3>2. buf' \in [Buffers -> BufTypes] BY <3>1, BufFields
    <3> QED BY <2>3, <3>1, <3>2 DEF WritePost
  <2>4. CASE WriteUndo(p)
    <3>1. d \in Buffers /\ buf' = [buf EXCEPT ![d].gaps = Up(@)]
      BY <1>5, <2>4 DEF WriteUndo, d
    <3>2. buf' \in [Buffers -> BufTypes] BY <3>1, BufFields
    <3> QED BY <1>1, <2>4, <3>1, <3>2 DEF WriteUndo
  <2>5. CASE ReadLock(p)
    <3>1. d \in Buffers /\ buf' = [buf EXCEPT ![d].mtx = Down(@, p)]
      BY <1>5, <2>5 DEF ReadLock, Granted, d
    <3>2. buf' \in [Buffers -> BufTypes] BY <3>1, BufFields
    <3> QED BY <2>5, <3>1, <3>2 DEF ReadLock
  <2>6. CASE ReadTake(p)
    <3>1. d \in Buffers BY <1>5, <2>6 DEF ReadTake, Granted
    <3>2. buf' = [buf EXCEPT ![d].stored = IF buf[d].stored > 0 THEN buf[d].stored - 1
                                                               ELSE buf[d].stored,
                             ![d].mtx = Up(@)]
      BY <2>6, <3>1 DEF ReadTake, d, BufTypes
    <3>3. buf' \in [Buffers -> BufTypes] BY <1>4, <3>1, <3>2, BufFields
    <3>4. loc' \in [Procs -> Locals] BY <1>2, <2>6 DEF ReadTake
    <3> QED BY <2>6, <3>3, <3>4 DEF ReadTake
  <2>7. CASE ReadFree(p)
    <3>1. d \in Buffers /\ buf' = [buf EXCEPT ![d].gaps = Up(@)]
      BY <1>5, <2>7 DEF ReadFree, d
    <3>2. buf' \in [Buffers -> BufTypes] BY <3>1, BufFields
    <3>3. loc' \in [Procs -> Locals] /\ pc' \in [Procs -> PCs]
      <4>1. CASE Return(p) BY <1>1, <1>2, <4>1
      <4>2. CASE ~Return(p)
        <5>1. /\ loc' = [loc EXCEPT ![p].got = IF @ = "null" THEN @ ELSE "dangling"]
              /\ pc' = [pc EXCEPT ![p] = "print"]
          BY <2>7, <4>2 DEF ReadFree, Goto
        <5>2. PICK g \in {"null", "string", "dangling"} : loc' = [loc EXCEPT ![p].got = g]
          BY <1>2, <5>1 DEF Locals
        <5>3. loc' \in [Procs -> Locals] BY <1>2, <5>2
        <5>4. pc' \in [Procs -> PCs] BY <1>1, <5>1 DEF PCs
        <5> QED BY <5>3, <5>4
      <4> QED BY <4>1, <4>2
    <3> QED BY <1>3, <2>7, <3>1, <3>2, <3>3 DEF ReadFree
  <2>8. CASE ReadUndo(p)
    <3>1. d \in Buffers /\ buf' = [buf EXCEPT ![d].elements = Up(@)]
      BY <1>5, <2>8 DEF ReadUndo, d
    <3>2. buf' \in [Buffers -> BufTypes] BY <3>1, BufFields
    <3> QED BY <1>1, <2>8, <3>1, <3>2 DEF ReadUndo
  <2>9. CASE Message(p) BY <1>1, <2>9 DEF Message
  <2> QED BY <1>10, <2>1, <2>2, <2>3, <2>4, <2>5, <2>6, <2>7, <2>8, <2>9 DEF RunUser
<1>11. Signal => signals' \in 0 .. MaxSignals BY Constants DEF Signal
<1>12. CASE InterruptWait(p)
  <2>1. d \in Buffers BY <1>5, <1>12 DEF InterruptWait
  <2>2. CASE pc[p] = "gap"
    <3>1. Waiting(buf[d].gaps, p) /\ buf' = [buf EXCEPT ![d].gaps = Cancel(@, p)]
          /\ heap' \in Int
      BY <1>12, <2>1, <2>2 DEF InterruptWait, d
    <3> QED BY <1>1, <1>11, <1>12, <2>1, <3>1, BufFields DEF InterruptWait
  <2>3. CASE pc[p] = "elem"
    <3>1. Waiting(buf[d].elements, p) /\ buf' = [buf EXCEPT ![d].elements = Cancel(@, p)]
          /\ heap' \in Int
      BY <1>12, <2>1, <2>3 DEF InterruptWait, d
    <3> QED BY <1>1, <1>11, <1>12, <2>1, <3>1, BufFields DEF InterruptWait
  <2> QED BY <1>12, <2>2, <2>3 DEF InterruptWait
<1>13. CASE InterruptLock(p)
  <2>1. d \in Buffers BY <1>5, <1>13 DEF InterruptLock
  <2>2. Waiting(buf[d].mtx, p) /\ buf' = [buf EXCEPT ![d].mtx = Cancel(@, p)]
    BY <1>13, <2>1 DEF InterruptLock, d
  <2>3. loc' \in [Procs -> Locals] /\ pc' \in [Procs -> PCs] BY <1>1, <1>13 DEF InterruptLock
  <2>4. buf' \in [Buffers -> BufTypes] BY <2>1, <2>2, <2>3, BufFields
  <2> QED BY <1>11, <1>13, <2>1, <2>2, <2>3, <2>4 DEF InterruptLock
<1>14. CASE InterruptList(p) BY <1>11, <1>14, ListTypes DEF InterruptList
<1> QED BY <1>6, <1>7, <1>8, <1>9, <1>10, <1>12, <1>13, <1>14, <1>15 DEF Interrupt

LEMMA NextTypes == TypeInv /\ Control /\ RemoveInv /\ [Next]_vars => TypeInv'
<1> SUFFICES ASSUME TypeInv, Control, RemoveInv, [Next]_vars PROVE TypeInv' OBVIOUS
<1>1. CASE UNCHANGED vars BY <1>1 DEF vars, admin, ghost, TypeInv
<1>2. CASE Next
  <2>1. PICK p \in Procs : Call(p) \/ Run(p) \/ Interrupt(p) BY <1>2 DEF Next
  <2> QED BY <2>1, CallTypes, AdminTypes, BufferTypes DEF Run, RunAdmin
<1> QED BY <1>1, <1>2
-----------------------------------------------------------------------------
(* Kinds of steps.  What the list, the directory and the processes say of   *)
(* each other is disturbed by few steps; for the others it is enough to     *)
(* know that they keep the list, the directory and what each buffer is.     *)

Steady(p) ==
    /\ list' = list /\ proc' = proc
    /\ \A e \in Buffers : /\ buf'[e].state = buf[e].state /\ buf'[e].name = buf[e].name
                          /\ buf'[e].isInt = buf[e].isInt
    /\ \A q \in Procs : q # p => pc'[q] = pc[q] /\ loc'[q] = loc[q]

\* p goes on with its call.
Onward(p) ==
    /\ Steady(p)
    /\ loc'[p].op = loc[p].op /\ loc'[p].name = loc[p].name
    /\ loc'[p].node = loc[p].node /\ loc'[p].next = loc[p].next
    /\ pc[p] = "rundown" => loc'[p].reg = loc[p].reg
    /\ pc[p] = "idle" => loc'[p] = loc[p]
    /\ \/ pc'[p] = pc[p]
       \/ pc[p] = "exists" /\ pc'[p] = "create" /\ loc[p].op = "new"
       \/ pc[p] = "exists" /\ pc'[p] = "remove" /\ loc[p].op = "delete"
       \/ pc[p] = "add" /\ pc'[p] = "append"
       \/ pc[p] = "load" /\ pc'[p] = "count"
       \/ pc[p] = "remove" /\ pc'[p] = "walk"
       \/ {pc[p], pc'[p]} \subseteq {"drain", "drainlock", "drainup", "drained"}
       \/ {pc[p], pc'[p]} \subseteq UserPCs

\* p returns.
Leave(p) ==
    /\ Steady(p)
    /\ pc'[p] = "idle" /\ loc'[p] = NoLocals
    /\ \/ pc[p] \in {"exists", "create", "count", "walk"} \cup UserPCs
       \/ pc[p] = "drainlock" /\ Waiting(buf[loc[p].node].mtx, p)

\* p calls admin.
EnterKind(p) ==
    /\ Steady(p) /\ p \in Admins
    /\ pc[p] = "idle" /\ pc'[p] = "exists"
    /\ \/ loc'[p].op = "new" /\ NobodyDeletes
       \/ loc'[p].op = "delete" /\ AdminIdle(p)

\* p calls a buffer that is registered.
UseKind(p) ==
    /\ Steady(p) /\ p \in Users
    /\ pc[p] = "idle" /\ pc'[p] \in UserPCs
    /\ loc'[p].op = loc[p].op
    /\ \E n \in Names : proc[n] \in Buffers /\ loc'[p].node = proc[n]

\* p allocates a buffer.
CreateKind(p) ==
    /\ pc[p] = "create" /\ pc'[p] = "add"
    /\ list' = list
    /\ \A q \in Procs : q # p => pc'[q] = pc[q] /\ loc'[q] = loc[q]
    /\ loc'[p].op = loc[p].op /\ loc'[p].name = loc[p].name
    /\ \E d \in Buffers :
          /\ buf[d].state = "freed" /\ loc'[p].node = d
          /\ buf'[d].state = "live" /\ buf'[d].name = loc[p].name
          /\ \A e \in Buffers : e # d => buf'[e] = buf[e]
          /\ proc' = [proc EXCEPT ![loc[p].name] = IF @ = None THEN d ELSE @]

\* p finds a buffer to remove among the nodes from k on.
Finds(p, k) ==
    /\ \A q \in Procs : q # p => pc'[q] = pc[q] /\ loc'[q] = loc[q]
    /\ pc'[p] = "drain" /\ loc'[p].op = loc[p].op /\ loc'[p].name = loc[p].name
    /\ \E i \in DOMAIN list :
          /\ k <= i /\ loc'[p].node = list[i] /\ buf[list[i]].name = loc[p].name
          /\ loc'[p].next = IF i < Len(list) THEN list[i + 1] ELSE None
          /\ \A j \in k .. i - 1 : buf[list[j]].name # loc[p].name

\* It finds none.
FindsNone(p, k) ==
    /\ \A q \in Procs : q # p => pc'[q] = pc[q] /\ loc'[q] = loc[q]
    /\ pc'[p] = "idle" /\ loc'[p] = NoLocals
    /\ \A j \in k .. Len(list) : buf[list[j]].name # loc[p].name

WalkKind(p) ==
    /\ pc[p] = "walk" /\ UNCHANGED <<list, proc, buf>>
    /\ Finds(p, 1) \/ FindsNone(p, 1)

\* p unlinks the node at place k, and goes on after it.
UnlistKind(p) == \E k \in DOMAIN list :
    /\ pc[p] = "unlist" /\ list[k] = loc[p].node
    /\ UNCHANGED <<proc, buf>> /\ list' = RemoveAt(list, k)
    /\ Finds(p, k + 1) \/ FindsNone(p, k + 1)

\* The walk over what is left from place k on.
LEMMA WalkOnFinds ==
    ASSUME TypeInv, NEW p \in Procs, NEW k \in 1 .. Len(list) + 1, NEW rest \in Seq(Buffers),
           Len(rest) = Len(list) + 1 - k,
           \A i \in 1 .. Len(rest) : rest[i] = list[k + i - 1],
           WalkOn(p, rest)
    PROVE  \/ Finds(p, k) /\ overlapped' = IF Busy(loc[p].name)
                                           THEN overlapped \cup {loc[p].name} ELSE overlapped
           \/ FindsNone(p, k) /\ overlapped' = overlapped \ {loc[p].name}
<1> DEFINE hits == {i \in DOMAIN rest : buf[rest[i]].name = loc[p].name}
           i    == CHOOSE j \in hits : \A m \in hits : j <= m
<1>1. /\ DOMAIN rest = 1 .. Len(rest) /\ Len(rest) \in Nat
      /\ DOMAIN list = 1 .. Len(list) /\ Len(list) \in Nat
  BY LenProperties DEF TypeInv
<1>2. pc \in [Procs -> PCs] /\ loc \in [Procs -> Locals] BY DEF TypeInv
<1>3. CASE hits = {}
  <2>1. Return(p) /\ overlapped' = overlapped \ {loc[p].name} BY <1>3 DEF WalkOn
  <2>2. ASSUME NEW j \in k .. Len(list) PROVE buf[list[j]].name # loc[p].name
    <3>1. j + 1 - k \in 1 .. Len(rest) /\ k + (j + 1 - k) - 1 = j BY <1>1
    <3>2. rest[j + 1 - k] = list[j] BY <3>1
    <3> QED BY <1>1, <1>3, <3>1, <3>2
  <2> QED BY <1>2, <2>1, <2>2 DEF Return, Goto, FindsNone
<1>4. CASE hits # {}
  <2>1. hits \in SUBSET Nat BY <1>1
  <2>2. \E j \in hits : \A m \in hits : j <= m
    <3> HIDE DEF hits
    <3> QED BY <1>4, <2>1, Smallest
  <2>3. i \in hits /\ \A m \in hits : i <= m BY <2>2
  <2>4. /\ loc' = [loc EXCEPT ![p].node = rest[i],
                              ![p].next = IF i < Len(rest) THEN rest[i + 1] ELSE None]
        /\ overlapped' = IF Busy(loc[p].name) THEN overlapped \cup {loc[p].name} ELSE overlapped
        /\ pc' = [pc EXCEPT ![p] = "drain"]
    BY <1>4 DEF WalkOn, Goto
  <2> HIDE DEF i
  <2> DEFINE at == k + i - 1
  <2>5. i \in 1 .. Len(rest) /\ at \in DOMAIN list /\ k <= at BY <1>1, <2>3
  <2>6. rest[i] = list[at] /\ buf[list[at]].name = loc[p].name BY <2>3, <2>5
  <2>7. (IF i < Len(rest) THEN rest[i + 1] ELSE None)
          = IF at < Len(list) THEN list[at + 1] ELSE None
    <3>1. i < Len(rest) <=> at < Len(list) BY <1>1, <2>5
    <3>2. i < Len(rest) => i + 1 \in 1 .. Len(rest) /\ k + (i + 1) - 1 = at + 1 BY <1>1, <2>5
    <3> QED BY <3>1, <3>2
  <2>8. ASSUME NEW j \in k .. at - 1 PROVE buf[list[j]].name # loc[p].name
    <3>1. j + 1 - k \in 1 .. Len(rest) /\ k + (j + 1 - k) - 1 = j /\ ~(i <= j + 1 - k)
      BY <1>1, <2>5
    <3>2. rest[j + 1 - k] = list[j] BY <3>1
    <3> QED BY <1>1, <2>3, <3>1, <3>2
  <2>9. loc[p] \in Locals BY <1>2
  <2>10. /\ \A q \in Procs : q # p => pc'[q] = pc[q] /\ loc'[q] = loc[q]
         /\ pc'[p] = "drain" /\ loc'[p].op = loc[p].op /\ loc'[p].name = loc[p].name
         /\ loc'[p].node = rest[i]
         /\ loc'[p].next = IF i < Len(rest) THEN rest[i + 1] ELSE None
    BY <1>2, <2>4, <2>9 DEF Locals
  <2> HIDE DEF at, hits
  <2> QED BY <2>4, <2>5, <2>6, <2>7, <2>8, <2>10 DEF Finds
<1> QED BY <1>3, <1>4

LEMMA AdminAt ==
    ASSUME Control, NEW p \in Procs
    PROVE  /\ pc[p] \notin {"idle"} \cup UserPCs => p \in Admins
           /\ pc[p] \in UserPCs => p \in Users
BY Constants DEF Control, CreatePCs, RemovePCs, UserPCs

LEMMA WalkIs ==
    ASSUME TypeInv, NEW p \in Procs, Walk(p)
    PROVE  /\ WalkKind(p)
           /\ \/ Finds(p, 1) /\ overlapped' = IF Busy(loc[p].name)
                                              THEN overlapped \cup {loc[p].name} ELSE overlapped
              \/ FindsNone(p, 1) /\ overlapped' = overlapped \ {loc[p].name}
<1>1. WalkOn(p, list) /\ pc[p] = "walk" /\ UNCHANGED <<list, proc, buf>>
  BY DEF Walk, Granted
<1>2. list \in Seq(Buffers) /\ Len(list) \in Nat BY LenProperties DEF TypeInv
<1>3. 1 \in 1 .. Len(list) + 1 /\ Len(list) = Len(list) + 1 - 1
      /\ \A i \in 1 .. Len(list) : list[i] = list[1 + i - 1]
  BY <1>2
<1>4. \/ Finds(p, 1) /\ overlapped' = IF Busy(loc[p].name)
                                      THEN overlapped \cup {loc[p].name} ELSE overlapped
      \/ FindsNone(p, 1) /\ overlapped' = overlapped \ {loc[p].name}
  BY <1>1, <1>2, <1>3, WalkOnFinds
<1> QED BY <1>1, <1>4, Zenon DEF WalkKind

LEMMA UnlistIs ==
    ASSUME TypeInv, Control, ListInv, RemoveInv, NEW p \in Procs, Unlist(p)
    PROVE  \E k \in DOMAIN list :
              /\ pc[p] = "unlist" /\ list[k] = loc[p].node
              /\ UNCHANGED <<proc, buf>> /\ list' = RemoveAt(list, k)
              /\ \/ Finds(p, k + 1) /\ overlapped' = IF Busy(loc[p].name)
                                                     THEN overlapped \cup {loc[p].name}
                                                     ELSE overlapped
                 \/ FindsNone(p, k + 1) /\ overlapped' = overlapped \ {loc[p].name}
<1>1. /\ WalkOn(p, Rest(p)) /\ pc[p] = "unlist" /\ UNCHANGED <<proc, buf>>
      /\ list' = RemoveAt(list, At(loc[p].node))
  BY DEF Unlist, Granted
<1>2. list \in Seq(Buffers) /\ DOMAIN list = 1 .. Len(list) /\ Len(list) \in Nat
      /\ \A i \in DOMAIN list : list[i] \in Buffers
  BY LenProperties, ElementOfSeq DEF TypeInv
<1>3. Removing(p) BY <1>1, AdminAt DEF UserPCs, Removing, RemovePCs
<1>4. PICK k \in DOMAIN list :
        /\ list[k] = loc[p].node
        /\ loc[p].next = IF k < Len(list) THEN list[k + 1] ELSE None
  BY <1>3 DEF RemoveInv, Stands, Phase, Removing
<1>5. Distinct(list) BY DEF ListInv
<1>6. At(loc[p].node) = k BY <1>4, <1>5, AtEffect
<1>7. Rest(p) \in Seq(Buffers) BY UnlistTypes
<1>8. /\ Len(Rest(p)) = Len(list) + 1 - (k + 1) /\ k + 1 \in 1 .. Len(list) + 1
      /\ \A i \in 1 .. Len(Rest(p)) : Rest(p)[i] = list[(k + 1) + i - 1]
  <2>1. CASE k < Len(list)
    <3>1. k + 1 \in DOMAIN list /\ loc[p].next = list[k + 1] BY <1>2, <1>4, <2>1
    <3>2. loc[p].next # None BY <1>2, <3>1, Constants
    <3>3. At(loc[p].next) = k + 1 BY <1>5, <3>1, AtEffect
    <3>4. Rest(p) = SubSeq(list, k + 1, Len(list)) BY <3>2, <3>3 DEF Rest
    <3> QED BY <1>2, <2>1, <3>1, <3>4, SubSeqProperties
  <2>2. CASE k = Len(list)
    <3>1. Rest(p) = << >> BY <1>4, <2>2, <1>2 DEF Rest
    <3> QED BY <1>2, <2>2, <3>1
  <2> QED BY <1>2, <2>1, <2>2
<1>9. \/ Finds(p, k + 1) /\ overlapped' = IF Busy(loc[p].name)
                                          THEN overlapped \cup {loc[p].name} ELSE overlapped
      \/ FindsNone(p, k + 1) /\ overlapped' = overlapped \ {loc[p].name}
  BY <1>1, <1>7, <1>8, WalkOnFinds
<1> QED BY <1>1, <1>4, <1>6, <1>9, Zenon

LEMMA CallKinds ==
    ASSUME TypeInv, Control, NEW p \in Procs, Call(p)
    PROVE  EnterKind(p) \/ UseKind(p)
<1>1. pc \in [Procs -> PCs] /\ loc \in [Procs -> Locals] /\ buf \in [Buffers -> BufTypes]
      /\ loc[p] \in Locals
  BY DEF TypeInv
<1>2. ASSUME NEW op, NEW n \in Names, EnterAdmin(p, op, n)
      PROVE  /\ list' = list /\ proc' = proc /\ buf' = buf
             /\ \A q \in Procs : q # p => pc'[q] = pc[q] /\ loc'[q] = loc[q]
             /\ pc'[p] = "exists" /\ loc'[p].op = op
  BY <1>1, <1>2 DEF EnterAdmin, Goto, NoLocals
<1>3. CASE CallNew(p) /\ p \in Admins
  <2>1. PICK n \in Names : EnterAdmin(p, "new", n) BY <1>3 DEF CallNew
  <2>2. pc[p] = "idle" /\ NobodyDeletes BY <1>3 DEF CallNew
  <2> QED BY <1>2, <1>3, <2>1, <2>2, Zenon DEF EnterKind, Steady
<1>4. CASE CallDelete(p) /\ p \in Admins
  <2>1. PICK n \in Names : EnterAdmin(p, "delete", n) BY <1>4 DEF CallDelete
  <2>2. pc[p] = "idle" /\ AdminIdle(p) BY <1>4 DEF CallDelete
  <2> QED BY <1>2, <1>4, <2>1, <2>2, Zenon DEF EnterKind, Steady
<1>5. ASSUME NEW n \in Names, NEW place \in UserPCs, proc[n] # None, pc[p] = "idle",
             p \in Users, EnterBuffer(p, proc[n], place),
             \/ buf' = [buf EXCEPT ![proc[n]].gaps = Down(@, p)]
             \/ buf' = [buf EXCEPT ![proc[n]].elements = Down(@, p)]
      PROVE  UseKind(p)
  <2>1. list' = list /\ proc' = proc /\ loc' = [loc EXCEPT ![p].node = proc[n]]
        /\ pc' = [pc EXCEPT ![p] = place]
    BY <1>5 DEF EnterBuffer, admin, Goto
  <2>2. proc[n] \in Buffers BY <1>5 DEF TypeInv
  <2>3. \A e \in Buffers : /\ buf'[e].state = buf[e].state /\ buf'[e].name = buf[e].name
                           /\ buf'[e].isInt = buf[e].isInt
    BY <1>1, <1>5, <2>2 DEF BufTypes
  <2>4. loc'[p].node = proc[n] /\ loc'[p].op = loc[p].op /\ pc'[p] = place
        /\ \A q \in Procs : q # p => pc'[q] = pc[q] /\ loc'[q] = loc[q]
    BY <1>1, <2>1 DEF Locals
  <2> QED BY <1>5, <2>1, <2>2, <2>3, <2>4 DEF UseKind, Steady
<1>6. CASE CallWrite(p) /\ p \in Users
  <2>1. PICK n \in Names : /\ proc[n] # None
                           /\ buf' = [buf EXCEPT ![proc[n]].gaps = Down(@, p)]
                           /\ EnterBuffer(p, proc[n], "gap")
    BY <1>6 DEF CallWrite
  <2> QED BY <1>5, <1>6, <2>1 DEF CallWrite, UserPCs
<1>7. CASE CallRead(p) /\ p \in Users
  <2>1. PICK n \in Names : /\ proc[n] # None
                           /\ buf' = [buf EXCEPT ![proc[n]].elements = Down(@, p)]
                           /\ EnterBuffer(p, proc[n], "elem")
    BY <1>7 DEF CallRead
  <2> QED BY <1>5, <1>7, <2>1 DEF CallRead, UserPCs
<1> QED BY <1>3, <1>4, <1>6, <1>7 DEF Call, Users

\* What buffers there are, and of what kind, is not changed by their semaphores.
SameBuffers == \A e \in Buffers :
    buf'[e].state = buf[e].state /\ buf'[e].name = buf[e].name /\ buf'[e].isInt = buf[e].isInt

LEMMA SameShape ==
    ASSUME TypeInv, NEW d, NEW x, NEW n,
           \/ buf' = buf
           \/ buf' = [buf EXCEPT ![d].mtx = x]
           \/ buf' = [buf EXCEPT ![d].gaps = x]
           \/ buf' = [buf EXCEPT ![d].elements = x]
           \/ buf' = [buf EXCEPT ![d].stored = n, ![d].mtx = x]
    PROVE  SameBuffers
<1>1. buf \in [Buffers -> BufTypes] BY DEF TypeInv
<1>2. SUFFICES ASSUME NEW e \in Buffers
               PROVE  /\ buf'[e].state = buf[e].state /\ buf'[e].name = buf[e].name
                      /\ buf'[e].isInt = buf[e].isInt
  BY DEF SameBuffers
<1>3. CASE e # d BY <1>1, <1>3
<1>4. CASE e = d BY <1>1, <1>4 DEF BufTypes
<1> QED BY <1>3, <1>4

LEMMA RunKinds ==
    ASSUME TypeInv, Control, NEW p \in Procs,
           \/ Exists(p) \/ AddLock(p) \/ AddLoad(p) \/ AddStore(p) \/ RemoveLock(p)
           \/ DrainLock(p) \/ DrainTake(p) \/ DrainFree(p) \/ DrainDone(p)
           \/ RunUser(p) \/ Interrupt(p)
    PROVE  Onward(p) \/ Leave(p)
<1> DEFINE d == loc[p].node
           Stays == /\ list' = list /\ proc' = proc /\ SameBuffers
           Goes(place) == /\ pc' = [pc EXCEPT ![p] = place]
                          /\ loc' = loc \/ \E g \in {"null", "string", "dangling"} :
                                                 loc' = [loc EXCEPT ![p].got = g]
           Leaves == /\ pc' = [pc EXCEPT ![p] = "idle"]
                     /\ loc' = [loc EXCEPT ![p] = NoLocals]
<1>1. pc \in [Procs -> PCs] /\ loc \in [Procs -> Locals] /\ loc[p] \in Locals
  BY DEF TypeInv
<1>2. ASSUME NEW place, Goes(place)
      PROVE  /\ \A q \in Procs : q # p => pc'[q] = pc[q] /\ loc'[q] = loc[q]
             /\ pc'[p] = place
             /\ loc'[p].op = loc[p].op /\ loc'[p].name = loc[p].name
             /\ loc'[p].node = loc[p].node /\ loc'[p].next = loc[p].next
             /\ loc'[p].reg = loc[p].reg
  BY <1>1, <1>2 DEF Locals
<1>3. ASSUME Stays, Leaves,
             \/ pc[p] \in {"exists", "create", "count", "walk"} \cup UserPCs
             \/ pc[p] = "drainlock" /\ Waiting(buf[loc[p].node].mtx, p)
      PROVE  Leave(p)
  BY <1>1, <1>3 DEF Leave, Steady, SameBuffers
<1>4. ASSUME NEW place, Stays, Goes(place), pc[p] # "idle",
             \/ pc[p] = "exists" /\ place = "create" /\ loc[p].op = "new"
             \/ pc[p] = "exists" /\ place = "remove" /\ loc[p].op = "delete"
             \/ pc[p] = "add" /\ place = "append"
             \/ pc[p] = "remove" /\ place = "walk"
             \/ {pc[p], place} \subseteq {"drain", "drainlock", "drainup", "drained"}
             \/ {pc[p], place} \subseteq UserPCs
      PROVE  Onward(p)
  <2> HIDE DEF Goes
  <2>1. /\ \A q \in Procs : q # p => pc'[q] = pc[q] /\ loc'[q] = loc[q]
        /\ pc'[p] = place
        /\ loc'[p].op = loc[p].op /\ loc'[p].name = loc[p].name
        /\ loc'[p].node = loc[p].node /\ loc'[p].next = loc[p].next
        /\ loc'[p].reg = loc[p].reg
    BY <1>2, <1>4
  <2> QED BY <1>4, <2>1 DEF Onward, Steady, SameBuffers
<1>5. buf' = buf => SameBuffers BY SameShape
<1> USE DEF Goto, admin, Return
<1>6. CASE Exists(p)
  <2>1. list' = list /\ proc' = proc /\ buf' = buf /\ pc[p] = "exists"
        /\ loc[p].op \in {"new", "delete"}
    BY <1>1, <1>6 DEF Exists, Granted, Control, Locals
  <2>2. \/ Leaves
        \/ pc' = [pc EXCEPT ![p] = IF loc[p].op = "new" THEN "create" ELSE "remove"] /\ loc' = loc
    BY <1>6, Zenon DEF Exists
  <2> QED BY <1>3, <1>4, <1>5, <2>1, <2>2
<1>7. CASE AddLock(p) BY <1>4, <1>5, <1>7 DEF AddLock
<1>8. CASE AddLoad(p)
  <2>1. list' = list /\ proc' = proc /\ buf' = buf /\ pc[p] = "load"
        /\ pc' = [pc EXCEPT ![p] = "count"] /\ loc' = [loc EXCEPT ![p].reg = entries]
    BY <1>8 DEF AddLoad
  <2>2. /\ \A q \in Procs : q # p => pc'[q] = pc[q] /\ loc'[q] = loc[q]
        /\ pc'[p] = "count"
        /\ loc'[p].op = loc[p].op /\ loc'[p].name = loc[p].name
        /\ loc'[p].node = loc[p].node /\ loc'[p].next = loc[p].next
    BY <1>1, <2>1 DEF Locals
  <2> QED BY <2>1, <2>2 DEF Onward, Steady
<1>9. CASE AddStore(p) BY <1>3, <1>5, <1>9 DEF AddStore
<1>10. CASE RemoveLock(p) BY <1>4, <1>5, <1>10 DEF RemoveLock
<1>11. CASE DrainLock(p)
  <2>1. SameBuffers BY <1>11, SameShape DEF DrainLock
  <2> QED BY <1>4, <1>11, <2>1 DEF DrainLock
<1>12. CASE DrainTake(p)
  <2>1. d \in Buffers BY <1>12 DEF DrainTake, Granted, Control, RemovePCs
  <2>2. buf' = [buf EXCEPT ![d].stored = IF buf[d].stored > 0 THEN buf[d].stored - 1
                                                             ELSE buf[d].stored,
                           ![d].mtx = Up(buf[d].mtx)]
    BY <1>12, <2>1 DEF DrainTake, TypeInv, BufTypes
  <2>3. SameBuffers BY <2>2, SameShape
  <2>4. \E g \in {"null", "string", "dangling"} : loc' = [loc EXCEPT ![p].got = g]
    BY <1>1, <1>12 DEF DrainTake, Locals
  <2>5. Goes("drainup") /\ pc[p] = "drainlock" /\ list' = list /\ proc' = proc
    BY <1>12, <2>4 DEF DrainTake, Granted
  <2> HIDE DEF Goes
  <2> QED BY <1>4, <2>3, <2>5
<1>13. CASE DrainFree(p)
  <2>1. SameBuffers BY <1>13, SameShape DEF DrainFree
  <2>2. \E g \in {"null", "string", "dangling"} : loc' = [loc EXCEPT ![p].got = g]
    BY <1>1, <1>13 DEF DrainFree, Locals
  <2>3. Goes("drain") /\ pc[p] = "drainup" /\ list' = list /\ proc' = proc
    BY <1>13, <2>2 DEF DrainFree
  <2> HIDE DEF Goes
  <2> QED BY <1>4, <2>1, <2>3
<1>18. CASE DrainDone(p) BY <1>4, <1>5, <1>18 DEF DrainDone
<1>14. CASE RunUser(p)
  <2> USE DEF UserPCs
  <2>1. CASE WriteLock(p)
    <3>1. SameBuffers BY <2>1, SameShape DEF WriteLock
    <3> QED BY <1>4, <2>1, <3>1 DEF WriteLock, Granted
  <2>2. CASE WritePut(p)
    <3>1. d \in Buffers BY <2>2 DEF WritePut, Granted, Control
    <3>2. buf' = [buf EXCEPT ![d].stored = IF Room(d) THEN buf[d].stored + 1
                                                      ELSE buf[d].stored,
                             ![d].mtx = Up(buf[d].mtx)]
      BY <2>2, <3>1 DEF WritePut, TypeInv, BufTypes
    <3>3. SameBuffers BY <3>2, SameShape
    <3> QED BY <1>4, <2>2, <3>3 DEF WritePut, Granted
  <2>3. CASE WritePost(p)
    <3>1. SameBuffers BY <2>3, SameShape DEF WritePost
    <3> QED BY <1>4, <2>3, <3>1 DEF WritePost
  <2>4. CASE WriteUndo(p)
    <3>1. SameBuffers BY <2>4, SameShape DEF WriteUndo
    <3> QED BY <1>3, <2>4, <3>1 DEF WriteUndo
  <2>5. CASE ReadLock(p)
    <3>1. SameBuffers BY <2>5, SameShape DEF ReadLock
    <3> QED BY <1>4, <2>5, <3>1 DEF ReadLock, Granted
  <2>6. CASE ReadTake(p)
    <3>1. d \in Buffers BY <2>6 DEF ReadTake, Granted, Control
    <3>2. buf' = [buf EXCEPT ![d].stored = IF buf[d].stored > 0 THEN buf[d].stored - 1
                                                               ELSE buf[d].stored,
                             ![d].mtx = Up(buf[d].mtx)]
      BY <2>6, <3>1 DEF ReadTake, TypeInv, BufTypes
    <3>3. SameBuffers BY <3>2, SameShape
    <3>4. Goes("free") /\ pc[p] = "rlock" /\ list' = list /\ proc' = proc
      BY <2>6 DEF ReadTake, Granted
    <3> HIDE DEF Goes
    <3> QED BY <1>4, <3>3, <3>4
  <2>7. CASE ReadFree(p)
    <3>1. SameBuffers BY <2>7, SameShape DEF ReadFree
    <3>2. /\ pc[p] = "free" /\ list' = list /\ proc' = proc
          /\ \/ Leaves
             \/ /\ loc' = [loc EXCEPT ![p].got = IF @ = "null" THEN @ ELSE "dangling"]
                /\ pc' = [pc EXCEPT ![p] = "print"]
      BY <2>7 DEF ReadFree
    <3>3. CASE Leaves BY <1>3, <3>1, <3>2, <3>3
    <3>4. CASE ~Leaves
      <4>1. \E g \in {"null", "string", "dangling"} : loc' = [loc EXCEPT ![p].got = g]
        BY <1>1, <3>2, <3>4 DEF Locals
      <4>2. Goes("print") BY <3>2, <3>4, <4>1
      <4> HIDE DEF Goes
      <4> QED BY <1>4, <3>1, <3>2, <4>2
    <3> QED BY <3>3, <3>4
  <2>8. CASE ReadUndo(p)
    <3>1. SameBuffers BY <2>8, SameShape DEF ReadUndo
    <3> QED BY <1>3, <2>8, <3>1 DEF ReadUndo
  <2>9. CASE Message(p) BY <1>3, <1>5, <2>9 DEF Message
  <2> QED BY <1>14, <2>1, <2>2, <2>3, <2>4, <2>5, <2>6, <2>7, <2>8, <2>9 DEF RunUser
<1>15. CASE InterruptWait(p)
  <2>1. SameBuffers BY <1>15, SameShape DEF InterruptWait
  <2> QED BY <1>3, <1>15, <2>1 DEF InterruptWait, UserPCs
<1>16. CASE InterruptLock(p)
  <2>1. SameBuffers BY <1>16, SameShape DEF InterruptLock
  <2>2. /\ list' = list /\ proc' = proc /\ Waiting(buf[d].mtx, p)
        /\ \/ pc[p] = "drainlock" /\ Leaves
           \/ pc[p] = "wlock" /\ Goes("wundo")
           \/ pc[p] = "rlock" /\ Goes("rundo")
    BY <1>16 DEF InterruptLock
  <2> HIDE DEF Goes, Leaves
  <2> QED BY <1>3, <1>4, <2>1, <2>2 DEF UserPCs
<1>17. CASE InterruptList(p)
  <2>1. list' = list /\ proc' = proc /\ buf' = buf /\ pc' = pc /\ loc' = loc
    BY <1>17 DEF InterruptList
  <2> QED BY <1>1, <2>1 DEF Onward, Steady
<1> QED
  BY <1>6, <1>7, <1>8, <1>9, <1>10, <1>11, <1>12, <1>13, <1>14, <1>15, <1>16, <1>17, <1>18
     DEF Interrupt

LEMMA CreateIs ==
    ASSUME TypeInv, NEW p \in Procs, Create(p)
    PROVE  Leave(p) \/ CreateKind(p)
<1>1. pc \in [Procs -> PCs] /\ loc \in [Procs -> Locals] /\ loc[p] \in Locals
      /\ buf \in [Buffers -> BufTypes]
  BY DEF TypeInv
<1>2. pc[p] = "create" /\ list' = list BY DEF Create
<1>3. CASE Return(p) /\ UNCHANGED <<proc, buf>>
  BY <1>1, <1>2, <1>3 DEF Leave, Steady, Return, Goto
<1>4. CASE ~(Return(p) /\ UNCHANGED <<proc, buf>>)
  <2>1. PICK isInteger \in Types, d \in Buffers :
          /\ buf[d].state = "freed"
          /\ buf' = [buf EXCEPT ![d] = NewBuffer(loc[p].name, isInteger)]
          /\ proc' = [proc EXCEPT ![loc[p].name] = IF @ = None THEN d ELSE @]
          /\ loc' = [loc EXCEPT ![p].node = d]
          /\ pc' = [pc EXCEPT ![p] = "add"]
    BY <1>4 DEF Create, Goto
  <2>2. buf'[d].state = "live" /\ buf'[d].name = loc[p].name
        /\ \A e \in Buffers : e # d => buf'[e] = buf[e]
    BY <1>1, <2>1 DEF NewBuffer
  <2>3. /\ \A q \in Procs : q # p => pc'[q] = pc[q] /\ loc'[q] = loc[q]
        /\ pc'[p] = "add" /\ loc'[p].node = d
        /\ loc'[p].op = loc[p].op /\ loc'[p].name = loc[p].name
    BY <1>1, <2>1 DEF Locals
  <2> QED BY <1>2, <2>1, <2>2, <2>3 DEF CreateKind
<1> QED BY <1>3, <1>4

\* What a step does to the list, the directory and the processes.
LEMMA KindsOf ==
    ASSUME TypeInv, Control, ListInv, RemoveInv, NEW p \in Procs,
           Call(p) \/ Run(p) \/ Interrupt(p)
    PROVE  \/ Onward(p) \/ Leave(p) \/ EnterKind(p) \/ UseKind(p) \/ CreateKind(p)
           \/ AddAppend(p) \/ WalkKind(p) \/ FreeBuffer(p) \/ Unlink(p) \/ Rundown(p)
           \/ UnlistKind(p)
<1>1. Call(p) \/ Run(p) \/ Interrupt(p) OBVIOUS
<1>2. CASE Call(p) BY <1>2, CallKinds
<1>3. CASE Unlist(p)
  <2>1. UnlistKind(p) BY <1>3, UnlistIs DEF UnlistKind
  <2> QED BY <2>1
<1>4. CASE Walk(p) BY <1>4, WalkIs
<1>5. CASE Create(p) BY <1>5, CreateIs
<1>6. CASE \/ Exists(p) \/ AddLock(p) \/ AddLoad(p) \/ AddStore(p) \/ RemoveLock(p)
           \/ DrainLock(p) \/ DrainTake(p) \/ DrainFree(p) \/ DrainDone(p)
           \/ RunUser(p) \/ Interrupt(p)
  BY <1>6, RunKinds
<1> QED BY <1>1, <1>2, <1>3, <1>4, <1>5, <1>6 DEF Run, RunAdmin

LEMMA Kinds ==
    ASSUME TypeInv, Control, ListInv, RemoveInv, Next
    PROVE  \E p \in Procs :
              \/ Onward(p) \/ Leave(p) \/ EnterKind(p) \/ UseKind(p) \/ CreateKind(p)
              \/ AddAppend(p) \/ WalkKind(p) \/ FreeBuffer(p) \/ Unlink(p) \/ Rundown(p)
              \/ UnlistKind(p)
BY KindsOf DEF Next
-----------------------------------------------------------------------------
(* Who is where. *)

LEMMA InitControl == Init => Control
<1> SUFFICES ASSUME Init PROVE Control OBVIOUS
<1>1. \A p \in Procs : pc[p] = "idle" /\ loc[p] = NoLocals BY DEF Init
<1>2. NoLocals.op = "none" BY DEF NoLocals
<1> QED BY <1>1, <1>2, Constants DEF Control, CreatePCs, RemovePCs, UserPCs

\* Where p may go, and who may be somewhere else then.
LEMMA MoveControl ==
    ASSUME TypeInv, Control, NEW p \in Procs,
           \A q \in Procs : q # p => pc'[q] = pc[q] /\ loc'[q] = loc[q],
           p \in Admins => pc'[p] \in {"idle", "exists", "remove", "walk"} \cup CreatePCs \cup RemovePCs,
           p \in Users => pc'[p] \in {"idle"} \cup UserPCs /\ loc'[p].op = "none",
           pc'[p] = "idle" => loc'[p] = NoLocals,
           pc'[p] = "exists" => loc'[p].op # "none",
           pc'[p] \in CreatePCs => loc'[p].op = "new",
           pc'[p] \in {"remove", "walk"} \cup RemovePCs => loc'[p].op = "delete",
           pc'[p] \in {"add", "append"} \cup RemovePCs \cup UserPCs => loc'[p].node \in Buffers,
           p \in Admins /\ loc'[p].op = "delete" => \A q \in Admins \ {p} : pc[q] = "idle",
           p \in Admins /\ pc'[p] # "idle" => \A q \in Admins \ {p} : loc[q].op # "delete"
    PROVE  Control'
<1>1. \A q \in Admins : q \in Procs BY Constants
<1>2. \A q \in Users : q \in Procs BY Constants
<1>3. \A q \in Procs : pc'[q] = "idle" => loc'[q] = NoLocals BY DEF Control
<1>4. \A q \in Admins : pc'[q] \in {"idle", "exists", "remove", "walk"} \cup CreatePCs \cup RemovePCs
  BY <1>1 DEF Control
<1>5. \A u \in Users : pc'[u] \in {"idle"} \cup UserPCs /\ loc'[u].op = "none"
  BY <1>2 DEF Control
<1>6. \A q \in Procs :
        /\ pc'[q] = "exists" => loc'[q].op # "none"
        /\ pc'[q] \in CreatePCs => loc'[q].op = "new"
        /\ pc'[q] \in {"remove", "walk"} \cup RemovePCs => loc'[q].op = "delete"
        /\ pc'[q] \in {"add", "append"} \cup RemovePCs \cup UserPCs => loc'[q].node \in Buffers
  BY DEF Control
<1>7. ASSUME NEW q \in Admins, NEW r \in Admins, loc'[q].op = "delete", r # q
      PROVE  pc'[r] = "idle"
  <2>1. CASE q = p BY <1>1, <1>7, <2>1
  <2>2. CASE q # p
    <3>1. loc[q].op = "delete" BY <1>1, <1>7, <2>2
    <3>2. CASE r = p BY <1>7, <2>2, <3>1, <3>2
    <3>3. CASE r # p BY <1>1, <1>7, <3>1, <3>3 DEF Control
    <3> QED BY <3>2, <3>3
  <2> QED BY <2>1, <2>2
<1> QED BY <1>3, <1>4, <1>5, <1>6, <1>7 DEF Control

LEMMA NextControl ==
    ASSUME TypeInv, Control, ListInv, RemoveInv, [Next]_vars
    PROVE  Control'
<1>1. CASE UNCHANGED vars BY <1>1 DEF vars, Control
<1>2. CASE Next
  <2>1. PICK p \in Procs :
              \/ Onward(p) \/ Leave(p) \/ EnterKind(p) \/ UseKind(p) \/ CreateKind(p)
              \/ AddAppend(p) \/ WalkKind(p) \/ FreeBuffer(p) \/ Unlink(p) \/ Rundown(p)
              \/ UnlistKind(p)
    BY <1>2, Kinds
  <2>2. /\ p \in Admins => pc[p] \in {"idle", "exists", "remove", "walk"} \cup CreatePCs \cup RemovePCs
        /\ p \in Users => pc[p] \in {"idle"} \cup UserPCs /\ loc[p].op = "none"
        /\ pc[p] = "idle" => loc[p] = NoLocals
        /\ pc[p] = "exists" => loc[p].op # "none"
        /\ pc[p] \in CreatePCs => loc[p].op = "new"
        /\ pc[p] \in {"remove", "walk"} \cup RemovePCs => loc[p].op = "delete"
        /\ pc[p] \in {"add", "append"} \cup RemovePCs \cup UserPCs => loc[p].node \in Buffers
        /\ p \in Admins => \A q \in Admins \ {p} : loc[p].op = "delete" => pc[q] = "idle"
        /\ p \in Admins /\ pc[p] # "idle" => \A q \in Admins \ {p} : loc[q].op # "delete"
        /\ p \in Admins \/ p \in Users
        /\ ~(p \in Admins /\ p \in Users)
    BY Constants DEF Control
  <2>3. pc \in [Procs -> PCs] /\ loc \in [Procs -> Locals] /\ loc[p] \in Locals
        /\ loc[p].op \in {"none", "new", "delete"}
        /\ \A i \in DOMAIN list : list[i] \in Buffers
    BY ElementOfSeq DEF TypeInv, Locals
  <2>4. NoLocals.op = "none" BY DEF NoLocals
  <2> USE DEF CreatePCs, RemovePCs, UserPCs
  <2>5. CASE Onward(p) BY <2>2, <2>5, MoveControl DEF Onward, Steady
  <2>6. CASE Leave(p) BY <2>2, <2>4, <2>6, MoveControl DEF Leave, Steady
  <2>7. CASE EnterKind(p)
    <3>1. /\ p \in Admins /\ pc[p] = "idle" /\ pc'[p] = "exists" /\ loc'[p].op \in {"new", "delete"}
          /\ \A q \in Procs : q # p => pc'[q] = pc[q] /\ loc'[q] = loc[q]
      BY <2>7 DEF EnterKind, Steady
    <3>2. loc'[p].op = "delete" => \A q \in Admins \ {p} : pc[q] = "idle"
      BY <2>7 DEF EnterKind, AdminIdle
    <3>3. \A q \in Admins \ {p} : loc[q].op # "delete"
      BY <2>2, <2>4, <2>7, Constants DEF EnterKind, AdminIdle, NobodyDeletes, Control
    <3> QED BY <2>2, <3>1, <3>2, <3>3, MoveControl
  <2>8. CASE UseKind(p)
    <3>1. /\ p \in Users /\ pc'[p] \in UserPCs /\ loc'[p].op = loc[p].op
          /\ loc'[p].node \in Buffers
          /\ \A q \in Procs : q # p => pc'[q] = pc[q] /\ loc'[q] = loc[q]
      BY <2>8 DEF UseKind, Steady
    <3> QED BY <2>2, <3>1, MoveControl
  <2>9. CASE CreateKind(p)
    <3>1. /\ pc[p] = "create" /\ pc'[p] = "add" /\ loc'[p].op = loc[p].op
          /\ loc'[p].node \in Buffers
          /\ \A q \in Procs : q # p => pc'[q] = pc[q] /\ loc'[q] = loc[q]
      BY <2>9 DEF CreateKind
    <3> QED BY <2>2, <3>1, MoveControl
  <2>10. CASE AddAppend(p)
    <3>1. /\ pc[p] = "append" /\ pc'[p] = "load" /\ loc' = loc
          /\ \A q \in Procs : q # p => pc'[q] = pc[q] /\ loc'[q] = loc[q]
      BY <2>3, <2>10 DEF AddAppend, Granted, Goto
    <3> QED BY <2>2, <3>1, MoveControl
  <2>11. ASSUME NEW k, Finds(p, k) \/ FindsNone(p, k), pc[p] \in {"walk", "unlist"} PROVE Control'
    <3>1. CASE Finds(p, k)
      <4>1. /\ pc'[p] = "drain" /\ loc'[p].op = loc[p].op /\ loc'[p].node \in Buffers
            /\ \A q \in Procs : q # p => pc'[q] = pc[q] /\ loc'[q] = loc[q]
        BY <2>3, <3>1 DEF Finds
      <4> QED BY <2>2, <2>11, <4>1, MoveControl
    <3>2. CASE FindsNone(p, k) BY <2>2, <2>4, <3>2, MoveControl DEF FindsNone
    <3> QED BY <2>11, <3>1, <3>2
  <2>12. CASE WalkKind(p) BY <2>11, <2>12 DEF WalkKind
  <2>13. CASE UnlistKind(p) BY <2>11, <2>13 DEF UnlistKind
  <2>14. ASSUME pc[p] \in RemovePCs, pc'[p] \in RemovePCs,
                loc'[p].op = loc[p].op, loc'[p].node = loc[p].node,
                \A q \in Procs : q # p => pc'[q] = pc[q] /\ loc'[q] = loc[q]
         PROVE  Control'
    BY <2>2, <2>14, MoveControl
  <2>15. CASE FreeBuffer(p) BY <2>3, <2>14, <2>15 DEF FreeBuffer, Goto
  <2>16. CASE Unlink(p)
    <3>1. loc'[p].op = loc[p].op /\ loc'[p].node = loc[p].node
      BY <2>3, <2>16 DEF Unlink, Locals
    <3> QED BY <2>3, <2>14, <2>16, <3>1 DEF Unlink, Goto
  <2>17. CASE Rundown(p)
    <3>1. loc'[p].op = loc[p].op /\ loc'[p].node = loc[p].node
      BY <2>3, <2>17 DEF Rundown, Locals
    <3> QED BY <2>3, <2>14, <2>17, <3>1 DEF Rundown, Goto
  <2> QED BY <2>1, <2>5, <2>6, <2>7, <2>8, <2>9, <2>10, <2>12, <2>13, <2>15, <2>16, <2>17
<1> QED BY <1>1, <1>2

\* Nobody removes while a process is in a creation, or uses the list otherwise.
LEMMA OneAdmin ==
    ASSUME Control, NEW p \in Procs
    PROVE  /\ loc[p].op = "delete" /\ p \in Admins =>
                 \A q \in Admins : q # p => pc[q] = "idle" /\ ~Creating(q) /\ ~Removing(q)
           /\ pc[p] \in CreatePCs => \A q \in Admins : ~Removing(q)
           /\ pc[p] \in {"remove", "walk"} \cup RemovePCs =>
                 /\ p \in Admins /\ ~Creating(p)
                 /\ \A q \in Admins : q # p => pc[q] = "idle" /\ ~Creating(q) /\ ~Removing(q)
<1> USE DEF CreatePCs, RemovePCs, UserPCs, Creating, Removing
<1>1. loc[p].op = "delete" /\ p \in Admins =>
        \A q \in Admins : q # p => pc[q] = "idle" /\ ~Creating(q) /\ ~Removing(q)
  BY DEF Control
<1>2. pc[p] \in {"remove", "walk"} \cup RemovePCs => p \in Admins /\ loc[p].op = "delete"
  BY AdminAt DEF Control
<1>3. ASSUME pc[p] \in CreatePCs, NEW q \in Admins, Removing(q) PROVE FALSE
  <2>1. q \in Procs BY Constants
  <2>2. loc[q].op = "delete" BY <1>3, <2>1 DEF Control
  <2>3. p \in Admins BY <1>3, AdminAt
  <2> QED BY <1>3, <2>2, <2>3 DEF Control
<1> QED BY <1>1, <1>2, <1>3
-----------------------------------------------------------------------------
(* The list. *)

LEMMA InitList == Init => ListInv /\ RemoveInv /\ ProcInv /\ UseInv /\ StoreInv
<1> SUFFICES ASSUME Init PROVE ListInv /\ RemoveInv /\ ProcInv /\ UseInv /\ StoreInv OBVIOUS
<1>1. /\ \A p \in Procs : pc[p] = "idle"
      /\ list = <<1>> /\ \A n \in Names : proc[n] = IF n = Test THEN 1 ELSE None
      /\ \A d \in Buffers : buf[d] = IF d = 1 THEN NewBuffer(Test, TRUE) ELSE Freed
  BY DEF Init
<1>2. /\ NewBuffer(Test, TRUE).state = "live" /\ NewBuffer(Test, TRUE).name = Test
      /\ Freed.state = "freed" /\ Freed.stored = 0
  BY DEF NewBuffer, Freed
<1>3. /\ \A d \in Buffers : buf[d].state = IF d = 1 THEN "live" ELSE "freed"
      /\ \A d \in Buffers : d # 1 => buf[d].stored = 0
      /\ buf[1].name = Test
  BY <1>1, <1>2, Constants
<1>4. DOMAIN list = {1} /\ list[1] = 1 BY <1>1
<1>5. Admins \subseteq Procs /\ Users \subseteq Procs BY Constants
<1> HIDE DEF Init
<1>6. ListInv
  BY <1>1, <1>3, <1>4, <1>5 DEF ListInv, Linked, Occurs, Creating, Distinct
<1>7. RemoveInv BY <1>1, <1>5 DEF RemoveInv, Stands, Phase, Removing, RemovePCs
<1>8. ProcInv
  BY <1>1, <1>3, <1>4, <1>5, Constants DEF ProcInv, Linked, Occurs, Creating
<1>9. UseInv BY <1>1, <1>5 DEF UseInv
<1>10. StoreInv BY <1>3 DEF StoreInv
<1> QED BY <1>6, <1>7, <1>8, <1>9, <1>10

\* A step that keeps the list and the buffers, and of p whether it creates or
\* removes, keeps the list invariant.
LEMMA SteadyList ==
    ASSUME TypeInv, Control, ListInv, NEW p \in Procs, list' = list,
           \A e \in Buffers : buf'[e].state = buf[e].state /\ buf'[e].name = buf[e].name,
           \A q \in Procs : q # p => pc'[q] = pc[q] /\ loc'[q] = loc[q],
           pc'[p] \in {"add", "append"} <=> pc[p] \in {"add", "append"},
           pc[p] \in {"unlink", "rundown", "unlist"} => pc'[p] \in {"unlink", "rundown", "unlist"},
           pc[p] \in {"add", "append", "unlink", "rundown", "unlist"} =>
               loc'[p].node = loc[p].node /\ loc'[p].name = loc[p].name
    PROVE  ListInv'
<1>1. Admins \subseteq Procs BY Constants
<1>2. \A q \in Admins :
        /\ (Creating(q))' <=> Creating(q)
        /\ Creating(q) => loc'[q].node = loc[q].node /\ loc'[q].name = loc[q].name
        /\ Creating(q) => loc[q].node \in Buffers
        /\ pc[q] \in {"unlink", "rundown", "unlist"} =>
             pc'[q] \in {"unlink", "rundown", "unlist"} /\ loc'[q].node = loc[q].node
  BY <1>1 DEF Creating, Control
<1>3. \A d : Linked(d)' <=> Linked(d) BY DEF Linked, Occurs
<1> QED BY <1>2, <1>3 DEF ListInv

LEMMA NextList ==
    ASSUME TypeInv, Control, ListInv, RemoveInv, [Next]_vars
    PROVE  ListInv'
<1>1. CASE UNCHANGED vars
  BY <1>1 DEF vars, admin, ListInv, Linked, Occurs, Creating
<1>2. CASE Next
  <2>1. PICK p \in Procs :
              \/ Onward(p) \/ Leave(p) \/ EnterKind(p) \/ UseKind(p) \/ CreateKind(p)
              \/ AddAppend(p) \/ WalkKind(p) \/ FreeBuffer(p) \/ Unlink(p) \/ Rundown(p)
              \/ UnlistKind(p)
    BY <1>2, Kinds
  <2>2. /\ pc \in [Procs -> PCs] /\ loc \in [Procs -> Locals] /\ loc[p] \in Locals
        /\ list \in Seq(Buffers) /\ DOMAIN list = 1 .. Len(list) /\ Len(list) \in Nat
        /\ \A i \in DOMAIN list : list[i] \in Buffers
        /\ buf \in [Buffers -> BufTypes]
    BY LenProperties, ElementOfSeq DEF TypeInv
  <2>3. Admins \subseteq Procs BY Constants
  <2>4. CASE Onward(p) BY <2>4, SteadyList DEF Onward, Steady, UserPCs
  <2>5. CASE Leave(p) BY <2>5, SteadyList DEF Leave, Steady, UserPCs
  <2>6. CASE EnterKind(p) BY <2>6, SteadyList DEF EnterKind, Steady
  <2>7. CASE UseKind(p) BY <2>7, SteadyList DEF UseKind, Steady, UserPCs
  <2>8. CASE WalkKind(p) BY <2>8, SteadyList DEF WalkKind, Finds, FindsNone
  <2>9. CASE Unlink(p)
    <3>1. pc[p] = "unlink" /\ pc'[p] = "rundown" /\ list' = list /\ buf' = buf
          /\ loc'[p].node = loc[p].node /\ loc'[p].name = loc[p].name
          /\ \A q \in Procs : q # p => pc'[q] = pc[q] /\ loc'[q] = loc[q]
      BY <2>2, <2>9 DEF Unlink, Goto, Locals
    <3> QED BY <3>1, SteadyList
  <2>10. CASE CreateKind(p)
    <3>1. p \in Admins /\ pc[p] = "create" /\ \A q \in Admins : ~Removing(q)
      BY <2>10, AdminAt, OneAdmin DEF CreateKind, UserPCs, CreatePCs
    <3>2. PICK d \in Buffers :
            /\ buf[d].state = "freed" /\ loc'[p].node = d
            /\ buf'[d].state = "live" /\ buf'[d].name = loc[p].name
            /\ \A e \in Buffers : e # d => buf'[e] = buf[e]
      BY <2>10 DEF CreateKind
    <3>3. /\ list' = list /\ pc'[p] = "add" /\ loc'[p].name = loc[p].name
          /\ \A q \in Procs : q # p => pc'[q] = pc[q] /\ loc'[q] = loc[q]
      BY <2>10 DEF CreateKind
    <3>4. ~Linked(d) BY <3>1, <3>2 DEF ListInv, Removing, RemovePCs
    <3>5. \A e : Linked(e)' <=> Linked(e) BY <3>3 DEF Linked, Occurs
    <3>6. (Creating(p))' /\ ~Creating(p) BY <3>1, <3>3 DEF Creating
    <3>7. \A q \in Admins : q # p =>
            /\ (Creating(q))' <=> Creating(q)
            /\ Creating(q) => loc[q].node # d /\ loc[q].node \in Buffers
            /\ loc'[q] = loc[q] /\ pc'[q] = pc[q]
      BY <2>3, <3>2, <3>3 DEF Creating, ListInv, Control
    <3>8. Distinct(list') BY <3>3 DEF ListInv
    <3>9. \A q \in Admins : (Creating(q))' =>
            /\ ~Occurs(list', loc'[q].node)
            /\ buf'[loc'[q].node].state = "live" /\ buf'[loc'[q].node].name = loc'[q].name
      <4>1. ~Occurs(list, d) BY <3>4 DEF Linked
      <4> QED BY <3>2, <3>3, <3>6, <3>7, <4>1 DEF ListInv, Linked, Occurs
    <3>10. \A q, r \in Admins :
             (Creating(q))' /\ (Creating(r))' /\ loc'[q].node = loc'[r].node => q = r
      BY <3>2, <3>6, <3>7 DEF ListInv
    <3>11. \A e \in Buffers : buf'[e].state # "freed" =>
             Linked(e)' \/ \E q \in Admins : (Creating(q))' /\ loc'[q].node = e
      BY <3>1, <3>2, <3>5, <3>6, <3>7 DEF ListInv
    <3>12. \A e \in Buffers : ~(Linked(e)' /\ buf'[e].state # "live")
      BY <3>1, <3>2, <3>5 DEF ListInv, Removing, RemovePCs
    <3> QED BY <3>8, <3>9, <3>10, <3>11, <3>12 DEF ListInv, Linked, Occurs
  <2>11. CASE AddAppend(p)
    <3>1. p \in Admins /\ Creating(p) /\ \A q \in Admins : ~Removing(q)
      BY <2>11, AdminAt, OneAdmin DEF AddAppend, Granted, Creating, UserPCs, CreatePCs
    <3>2. /\ list' = Append(list, loc[p].node) /\ buf' = buf /\ loc' = loc
          /\ pc'[p] = "load" /\ \A q \in Procs : q # p => pc'[q] = pc[q]
      BY <2>2, <2>11 DEF AddAppend, Goto
    <3>3. loc[p].node \in Buffers /\ ~Linked(loc[p].node)
          /\ buf[loc[p].node].state = "live"
      BY <2>3, <3>1 DEF Creating, Control, ListInv
    <3>4. /\ DOMAIN list' = 1 .. Len(list) + 1 /\ list'[Len(list) + 1] = loc[p].node
          /\ \A i \in 1 .. Len(list) : list'[i] = list[i]
      BY <2>2, <3>2, <3>3, AppendProperties, LenProperties
    <3>5. \A e : Linked(e)' <=> Linked(e) \/ e = loc[p].node
      BY <2>2, <3>4 DEF Linked, Occurs
    <3>6. Distinct(list') BY <2>2, <3>3, <3>4 DEF ListInv, Linked, Occurs, Distinct
    <3>7. \A q \in Admins : (Creating(q))' <=> Creating(q) /\ q # p
      BY <2>3, <3>2 DEF Creating
    <3>8. \A q \in Admins : (Creating(q))' => ~Occurs(list', loc[q].node)
      <4>1. \A q \in Admins : Creating(q) /\ q # p => ~Linked(loc[q].node) /\ loc[q].node # loc[p].node
        BY <3>1 DEF ListInv
      <4> QED BY <2>2, <3>4, <3>7, <4>1 DEF Linked, Occurs
    <3>9. \A e \in Buffers : buf[e].state # "freed" =>
             Linked(e)' \/ \E q \in Admins : (Creating(q))' /\ loc[q].node = e
      BY <3>5, <3>7 DEF ListInv
    <3>10. \A e \in Buffers : ~(Linked(e)' /\ buf[e].state # "live")
      BY <3>1, <3>3, <3>5 DEF ListInv, Removing, RemovePCs
    <3> QED BY <3>2, <3>6, <3>7, <3>8, <3>9, <3>10 DEF ListInv, Linked, Occurs
  <2>12. CASE FreeBuffer(p) \/ Rundown(p)
    <3>1. p \in Admins /\ pc[p] \in {"drained", "rundown"} /\ Removing(p)
          /\ \A q \in Admins : ~Creating(q) /\ (q # p => pc[q] = "idle")
      BY <2>12, AdminAt, OneAdmin DEF FreeBuffer, Rundown, Removing, UserPCs, RemovePCs
    <3>2. Linked(loc[p].node) /\ loc[p].node \in Buffers
      BY <2>2, <3>1 DEF RemoveInv, Stands, Phase, Linked, Occurs
    <3>3. /\ list' = list /\ pc'[p] \in {"unlink", "unlist"} /\ loc'[p].node = loc[p].node
          /\ \A q \in Procs : q # p => pc'[q] = pc[q] /\ loc'[q] = loc[q]
      <4>1. CASE FreeBuffer(p) BY <2>2, <4>1 DEF FreeBuffer, Goto, admin
      <4>2. CASE Rundown(p)
        <5>1. loc' = [loc EXCEPT ![p].reg = None] BY <4>2 DEF Rundown
        <5>2. loc'[p].node = loc[p].node BY <2>2, <5>1 DEF Locals
        <5> QED BY <2>2, <4>2, <5>1, <5>2 DEF Rundown, Goto
      <4> QED BY <2>12, <4>1, <4>2
    <3>4. \A e \in Buffers : e # loc[p].node => buf'[e] = buf[e]
      BY <2>2, <2>12 DEF FreeBuffer, Rundown
    <3>5. \A e : Linked(e)' <=> Linked(e) BY <3>3 DEF Linked, Occurs
    <3>6. \A q \in Admins : ~(Creating(q))' BY <2>3, <3>1, <3>3 DEF Creating
    <3>7. \A e \in Buffers : buf'[e].state # "freed" => Linked(e)'
      BY <3>1, <3>2, <3>4, <3>5 DEF ListInv
    <3>8. \A e \in Buffers : Linked(e)' /\ buf'[e].state # "live" => e = loc'[p].node
      BY <3>1, <3>3, <3>4, <3>5 DEF ListInv
    <3> QED BY <3>1, <3>3, <3>6, <3>7, <3>8 DEF ListInv
  <2>13. CASE UnlistKind(p)
    <3>1. PICK k \in DOMAIN list :
            /\ pc[p] = "unlist" /\ list[k] = loc[p].node
            /\ buf' = buf /\ list' = RemoveAt(list, k)
            /\ pc'[p] \in {"drain", "idle"}
            /\ \A q \in Procs : q # p => pc'[q] = pc[q] /\ loc'[q] = loc[q]
      BY <2>13 DEF UnlistKind, Finds, FindsNone
    <3>2. Removing(p) /\ p \in Admins
          /\ \A q \in Admins : ~Creating(q) /\ (q # p => pc[q] = "idle")
      BY <3>1, OneAdmin DEF RemovePCs, Removing
    <3>3. buf[loc[p].node].state = "freed" BY <3>1, <3>2 DEF RemoveInv, Stands, Phase
    <3>4. /\ DOMAIN list' = 1 .. Len(list) - 1
          /\ \A i \in 1 .. Len(list) - 1 : list'[i] = list[IF i < k THEN i ELSE i + 1]
      BY <2>2, <3>1, RemoveAtEffect
    <3>5. Distinct(list) BY DEF ListInv
    <3>6. Distinct(list') /\ \A e : Occurs(list', e) <=> Occurs(list, e) /\ e # list[k]
      <4>1. list \in Seq(Buffers) /\ k \in DOMAIN list BY <2>2
      <4> QED BY <3>1, <3>5, <4>1, RemoveAtOne
    <3>7. \A e : Linked(e)' <=> Linked(e) /\ e # list[k] BY <3>6 DEF Linked
    <3>8. \A q \in Admins : ~(Creating(q))' BY <2>3, <3>1, <3>2 DEF Creating
    <3>9. \A e \in Buffers : buf[e].state # "freed" => Linked(e)'
      BY <3>1, <3>2, <3>3, <3>7 DEF ListInv
    <3>10. \A e \in Buffers : ~(Linked(e)' /\ buf[e].state # "live")
      BY <3>1, <3>2, <3>7 DEF ListInv
    <3> QED BY <3>1, <3>4, <3>6, <3>8, <3>9, <3>10 DEF ListInv
  <2> QED BY <2>1, <2>4, <2>5, <2>6, <2>7, <2>8, <2>9, <2>10, <2>11, <2>12, <2>13
<1> QED BY <1>1, <1>2
-----------------------------------------------------------------------------
(* What a step does inside a buffer: which semaphore it moves, from where.  *)

BufferPCs == UserPCs \cup {"drainlock", "drainup"}

\* p goes from a to b in a call on d, and leaves its semaphores and its count so.
Works(p, d, a, b, mtx, gaps, elements, stored) ==
    /\ pc[p] = a /\ pc'[p] = b
    /\ a = "idle" \/ loc[p].node = d
    /\ b = "idle" \/ loc'[p].node = d
    /\ \A q \in Procs : q # p => pc'[q] = pc[q] /\ loc'[q] = loc[q]
    /\ \A e \in Buffers : e # d => buf'[e] = buf[e]
    /\ buf'[d].state = buf[d].state /\ buf'[d].name = buf[d].name /\ buf'[d].isInt = buf[d].isInt
    /\ buf'[d].mtx = mtx /\ buf'[d].gaps = gaps /\ buf'[d].elements = elements
    /\ buf'[d].stored = stored

Fewer(n) == IF n > 0 THEN n - 1 ELSE n

\* The strings that exist afterwards, and what p has of them.
Strings(p, h, g) == heap' = h /\ loc'[p].got = g

WorkKind(p, d) ==
    LET m   == buf[d].mtx
        g   == buf[d].gaps
        e   == buf[d].elements
        n   == buf[d].stored
        got == loc[p].got
        one == IF buf[d].isInt THEN 0 ELSE 1
    IN  \/ /\ Works(p, d, "idle", "gap", m, Down(g, p), e, n)
           /\ Strings(p, heap + one, got)
        \/ /\ Works(p, d, "gap", "wlock", Down(m, p), g, e, n) /\ ~Waiting(g, p)
           /\ Strings(p, heap, got)
        \/ /\ Works(p, d, "wlock", "post", Up(m), g, e, IF Room(d) THEN n + 1 ELSE n)
           /\ ~Waiting(m, p) /\ Strings(p, IF Room(d) THEN heap ELSE heap - one, got)
        \/ /\ Works(p, d, "post", "print", m, g, Up(e), n)
           /\ Strings(p, heap, got)
        \/ /\ Works(p, d, "print", "idle", m, g, e, n)
           /\ Strings(p, heap, "null")
        \/ /\ Works(p, d, "wundo", "idle", m, Up(g), e, n)
           /\ Strings(p, heap - one, "null")
        \/ /\ Works(p, d, "idle", "elem", m, g, Down(e, p), n)
           /\ Strings(p, heap, got)
        \/ /\ Works(p, d, "elem", "rlock", Down(m, p), g, e, n) /\ ~Waiting(e, p)
           /\ Strings(p, heap, got)
        \/ /\ Works(p, d, "rlock", "free", Up(m), g, e, Fewer(n)) /\ ~Waiting(m, p)
           /\ Strings(p, heap, IF n > 0 /\ ~buf[d].isInt THEN "string" ELSE "null")
        \/ /\ Works(p, d, "free", "idle", m, Up(g), e, n)
           /\ Strings(p, IF got = "string" THEN heap - 1 ELSE heap, "null")
        \/ /\ Works(p, d, "free", "print", m, Up(g), e, n)
           /\ Strings(p, IF got = "string" THEN heap - 1 ELSE heap,
                      IF got = "null" THEN got ELSE "dangling")
        \/ /\ Works(p, d, "rundo", "idle", m, g, Up(e), n)
           /\ Strings(p, heap, "null")
        \/ /\ Works(p, d, "gap", "idle", m, Cancel(g, p), e, n) /\ Waiting(g, p)
           /\ Strings(p, heap - one, "null")
        \/ /\ Works(p, d, "elem", "idle", m, g, Cancel(e, p), n) /\ Waiting(e, p)
           /\ Strings(p, heap, "null")
        \/ /\ Works(p, d, "wlock", "wundo", Cancel(m, p), g, e, n) /\ Waiting(m, p)
           /\ Strings(p, heap, got)
        \/ /\ Works(p, d, "rlock", "rundo", Cancel(m, p), g, e, n) /\ Waiting(m, p)
           /\ Strings(p, heap, got)
        \/ /\ Works(p, d, "drainlock", "idle", Cancel(m, p), g, e, n) /\ Waiting(m, p)
           /\ Strings(p, heap, "null")
        \/ /\ Works(p, d, "drain", "drainlock", Down(m, p), g, e, n) /\ ~buf[d].isInt /\ n > 0
           /\ Strings(p, heap, got)
        \/ /\ Works(p, d, "drainlock", "drainup", Up(m), g, e, Fewer(n)) /\ ~Waiting(m, p)
           /\ Strings(p, heap, IF n > 0 THEN "string" ELSE got)
        \/ /\ Works(p, d, "drainup", "drain", m, Up(g), e, n)
           /\ Strings(p, IF got = "string" THEN heap - 1 ELSE heap,
                      IF got = "null" THEN got ELSE "dangling")

\* p is elsewhere.
AsideKind(p) ==
    /\ buf' = buf /\ heap' = heap
    /\ pc[p] \notin BufferPCs /\ pc'[p] \notin BufferPCs
    /\ loc'[p].got \in {loc[p].got, "null"}
    /\ \A q \in Procs : q # p => pc'[q] = pc[q] /\ loc'[q] = loc[q]

\* p allocates d, or frees what it has in two steps.
AllocKind(p, d) ==
    /\ CreateKind(p) /\ buf[d].state = "freed" /\ loc'[p].node = d
    /\ Strings(p, heap, loc[p].got)
    /\ \E t \in BOOLEAN : buf'[d] = NewBuffer(loc[p].name, t)
    /\ \A e \in Buffers : e # d => buf'[e] = buf[e]

FreeKind(p, d) ==
    /\ \/ pc[p] = "drained" /\ pc'[p] = "unlink"
          /\ heap' = heap - (IF buf[d].isInt THEN 0 ELSE buf[d].stored)
          /\ buf'[d].state = "nofifo" /\ buf'[d].stored = 0
          /\ buf'[d].name = buf[d].name /\ buf'[d].isInt = buf[d].isInt
          /\ buf'[d].mtx = buf[d].mtx
       \/ pc[p] = "rundown" /\ pc'[p] = "unlist" /\ buf'[d] = Freed /\ heap' = heap
    /\ loc[p].node = d /\ loc'[p].node = d /\ loc'[p].got = loc[p].got
    /\ \A e \in Buffers : e # d => buf'[e] = buf[e]
    /\ \A q \in Procs : q # p => pc'[q] = pc[q] /\ loc'[q] = loc[q]

\* A step of a buffer, from the action it is.
LEMMA WorksBy ==
    ASSUME TypeInv, Control, NEW p \in Procs, NEW d \in Buffers, NEW a, NEW b,
           NEW x, NEW n,
           pc[p] = a, pc' = [pc EXCEPT ![p] = b], a = "idle" \/ loc[p].node = d,
           \A q \in Procs : q # p => loc'[q] = loc[q],
           b = "idle" \/ loc'[p].node = d
    PROVE  /\ buf' = [buf EXCEPT ![d].mtx = x] =>
                Works(p, d, a, b, x, buf[d].gaps, buf[d].elements, buf[d].stored)
           /\ buf' = [buf EXCEPT ![d].stored = n, ![d].mtx = x] =>
                Works(p, d, a, b, x, buf[d].gaps, buf[d].elements, n)
           /\ buf' = [buf EXCEPT ![d].mtx = x, ![d].stored = n] =>
                Works(p, d, a, b, x, buf[d].gaps, buf[d].elements, n)
           /\ buf' = [buf EXCEPT ![d].gaps = x] =>
                Works(p, d, a, b, buf[d].mtx, x, buf[d].elements, buf[d].stored)
           /\ buf' = [buf EXCEPT ![d].elements = x] =>
                Works(p, d, a, b, buf[d].mtx, buf[d].gaps, x, buf[d].stored)
<1>1. pc \in [Procs -> PCs] /\ buf \in [Buffers -> BufTypes] /\ buf[d] \in BufTypes
  BY DEF TypeInv
<1>2. pc[p] = a /\ pc'[p] = b /\ \A q \in Procs : q # p => pc'[q] = pc[q] /\ loc'[q] = loc[q]
  BY <1>1
<1>3. ASSUME buf' = [buf EXCEPT ![d].mtx = x]
      PROVE  Works(p, d, a, b, x, buf[d].gaps, buf[d].elements, buf[d].stored)
  BY <1>1, <1>2, <1>3 DEF Works, BufTypes
<1>4. ASSUME buf' = [buf EXCEPT ![d].stored = n, ![d].mtx = x]
      PROVE  Works(p, d, a, b, x, buf[d].gaps, buf[d].elements, n)
  BY <1>1, <1>2, <1>4 DEF Works, BufTypes
<1>5. ASSUME buf' = [buf EXCEPT ![d].mtx = x, ![d].stored = n]
      PROVE  Works(p, d, a, b, x, buf[d].gaps, buf[d].elements, n)
  BY <1>1, <1>2, <1>5 DEF Works, BufTypes
<1>6. ASSUME buf' = [buf EXCEPT ![d].gaps = x]
      PROVE  Works(p, d, a, b, buf[d].mtx, x, buf[d].elements, buf[d].stored)
  BY <1>1, <1>2, <1>6 DEF Works, BufTypes
<1>7. ASSUME buf' = [buf EXCEPT ![d].elements = x]
      PROVE  Works(p, d, a, b, buf[d].mtx, buf[d].gaps, x, buf[d].stored)
  BY <1>1, <1>2, <1>7 DEF Works, BufTypes
<1> HIDE DEF Works
<1> QED BY <1>3, <1>4, <1>5, <1>6, <1>7

\* What a step of p does to the buffers.
LEMMA BufferKinds ==
    ASSUME TypeInv, Control, ListInv, RemoveInv, NEW p \in Procs,
           Call(p) \/ Run(p) \/ Interrupt(p)
    PROVE  \/ AsideKind(p)
           \/ \E d \in Buffers : WorkKind(p, d) \/ AllocKind(p, d) \/ FreeKind(p, d)
<1> DEFINE d == loc[p].node
           Done == \/ AsideKind(p)
                   \/ \E e \in Buffers : WorkKind(p, e) \/ AllocKind(p, e) \/ FreeKind(p, e)
           Others == \A q \in Procs : q # p => loc'[q] = loc[q]
<1>1. /\ pc \in [Procs -> PCs] /\ loc \in [Procs -> Locals] /\ loc[p] \in Locals
      /\ buf \in [Buffers -> BufTypes]
      /\ \A e \in Buffers : buf[e] \in BufTypes
  BY DEF TypeInv
<1>2. pc[p] \in RemovePCs \cup UserPCs => d \in Buffers BY DEF Control
<1>3. AsideKind(p) => Done OBVIOUS
<1>4. ASSUME NEW e \in Buffers, WorkKind(p, e) PROVE Done
  BY <1>4
<1>5. Return(p) => Others /\ pc' = [pc EXCEPT ![p] = "idle"] /\ loc'[p].got = "null"
  BY <1>1 DEF Return, Goto, NoLocals
<1>6. \A g : loc' = [loc EXCEPT ![p].got = g] => Others /\ loc'[p].node = d /\ loc'[p].got = g
  BY <1>1 DEF Locals
<1>7. loc' = loc => Others /\ loc'[p].node = d OBVIOUS
<1> HIDE DEF Done, d
<1> USE DEF BufferPCs, UserPCs
<1>8. CASE Call(p)
  <2>1. CASE CallNew(p) \/ CallDelete(p)
    <3>1. PICK op \in {"new", "delete"}, n \in Names : pc[p] = "idle" /\ EnterAdmin(p, op, n)
      BY <2>1, Zenon DEF CallNew, CallDelete
    <3>2. AsideKind(p) BY <1>1, <3>1 DEF EnterAdmin, Goto, AsideKind, NoLocals
    <3> QED BY <1>3, <3>2
  <2>2. ASSUME NEW n \in Names, NEW place, proc[n] # None, EnterBuffer(p, proc[n], place)
        PROVE  /\ proc[n] \in Buffers /\ Others /\ loc'[p].node = proc[n]
               /\ pc' = [pc EXCEPT ![p] = place] /\ loc'[p].got = loc[p].got
    BY <1>1, <2>2 DEF EnterBuffer, Goto, TypeInv, Locals
  <2>3. CASE CallWrite(p)
    <3>1. PICK n \in Names : /\ pc[p] = "idle" /\ proc[n] # None
                             /\ buf' = [buf EXCEPT ![proc[n]].gaps = Down(@, p)]
                             /\ heap' = IF buf[proc[n]].isInt THEN heap ELSE heap + 1
                             /\ EnterBuffer(p, proc[n], "gap")
      BY <2>3 DEF CallWrite
    <3>2. PICK e \in Buffers : e = proc[n] BY <2>2, <3>1
    <3>3. buf' = [buf EXCEPT ![e].gaps = Down(buf[e].gaps, p)] BY <1>1, <3>1, <3>2 DEF BufTypes
    <3>4. Works(p, e, "idle", "gap", buf[e].mtx, Down(buf[e].gaps, p), buf[e].elements, buf[e].stored)
      BY <2>2, <3>1, <3>2, <3>3, WorksBy
    <3>5. Strings(p, heap + (IF buf[e].isInt THEN 0 ELSE 1), loc[p].got)
      BY <1>1, <2>2, <3>1, <3>2 DEF Strings, TypeInv
    <3> QED BY <1>4, <3>4, <3>5 DEF WorkKind
  <2>4. CASE CallRead(p)
    <3>1. PICK n \in Names : /\ pc[p] = "idle" /\ proc[n] # None
                             /\ buf' = [buf EXCEPT ![proc[n]].elements = Down(@, p)]
                             /\ EnterBuffer(p, proc[n], "elem") /\ heap' = heap
      BY <2>4 DEF CallRead
    <3>2. PICK e \in Buffers : e = proc[n] BY <2>2, <3>1
    <3>3. buf' = [buf EXCEPT ![e].elements = Down(buf[e].elements, p)]
      BY <1>1, <3>1, <3>2 DEF BufTypes
    <3>4. Works(p, e, "idle", "elem", buf[e].mtx, buf[e].gaps, Down(buf[e].elements, p), buf[e].stored)
      BY <2>2, <3>1, <3>2, <3>3, WorksBy
    <3>5. Strings(p, heap, loc[p].got) BY <2>2, <3>1 DEF Strings
    <3> QED BY <1>4, <3>4, <3>5 DEF WorkKind
  <2> QED BY <1>8, <2>1, <2>3, <2>4 DEF Call
<1>9. CASE \/ Exists(p) \/ AddLock(p) \/ AddAppend(p) \/ RemoveLock(p) \/ Walk(p) \/ Unlist(p)
           \/ InterruptList(p)
  <2>1. /\ buf' = buf /\ heap' = heap
        /\ pc[p] \in {"exists", "add", "append", "remove", "walk", "unlist"}
    BY <1>9 DEF Exists, AddLock, AddAppend, RemoveLock, Walk, Unlist, InterruptList, Granted
  <2>2. /\ pc'[p] \in {"idle", "exists", "create", "append", "load", "walk", "drain", "remove",
                       "unlist"}
        /\ loc'[p].got \in {loc[p].got, "null"}
        /\ \A q \in Procs : q # p => pc'[q] = pc[q] /\ loc'[q] = loc[q]
    <3>1. ASSUME NEW rest, WalkOn(p, rest) PROVE loc'[p].got \in {loc[p].got, "null"}
      BY <1>1, <1>5, <3>1 DEF WalkOn, Locals
    <3>2. CASE Walk(p)
      <4>1. loc'[p].got \in {loc[p].got, "null"} BY <3>1, <3>2 DEF Walk
      <4> QED BY <3>2, <4>1, WalkIs DEF WalkKind, Finds, FindsNone
    <3>3. CASE Unlist(p)
      <4>1. loc'[p].got \in {loc[p].got, "null"} BY <3>1, <3>3 DEF Unlist
      <4> QED BY <3>3, <4>1, UnlistIs DEF Finds, FindsNone
    <3>4. CASE Exists(p)
      <4>1. \/ Return(p)
            \/ pc' = [pc EXCEPT ![p] = IF loc[p].op = "new" THEN "create" ELSE "remove"] /\ loc' = loc
        BY <3>4, Zenon DEF Exists, Goto
      <4> QED BY <1>1, <1>5, <4>1
    <3>5. CASE AddLock(p) \/ AddAppend(p) \/ RemoveLock(p) \/ InterruptList(p)
      BY <1>1, <3>5 DEF AddLock, AddAppend, RemoveLock, InterruptList, Goto
    <3> QED BY <1>9, <3>2, <3>3, <3>4, <3>5
  <2>3. AsideKind(p) BY <2>1, <2>2 DEF AsideKind
  <2> QED BY <1>3, <2>3
<1>10. CASE AddLoad(p) \/ AddStore(p) \/ Unlink(p)
  <2>1. buf' = buf /\ heap' = heap /\ pc[p] \in {"load", "count", "unlink"}
    BY <1>10 DEF AddLoad, AddStore, Unlink, admin
  <2>2. /\ pc'[p] \in {"idle", "count", "rundown"}
        /\ loc'[p].got \in {loc[p].got, "null"}
        /\ \A q \in Procs : q # p => pc'[q] = pc[q] /\ loc'[q] = loc[q]
    BY <1>1, <1>5, <1>10 DEF AddLoad, AddStore, Unlink, Goto, Locals
  <2>3. AsideKind(p) BY <2>1, <2>2 DEF AsideKind
  <2> QED BY <1>3, <2>3
<1>11. CASE Create(p)
  <2>1. CASE Return(p) /\ UNCHANGED <<proc, buf>>
    <3>1. AsideKind(p) BY <1>1, <1>5, <1>11, <2>1 DEF Create, AsideKind
    <3> QED BY <1>3, <3>1
  <2>2. CASE ~(Return(p) /\ UNCHANGED <<proc, buf>>)
    <3>1. PICK t \in Types, e \in Buffers :
            /\ buf[e].state = "freed" /\ buf' = [buf EXCEPT ![e] = NewBuffer(loc[p].name, t)]
            /\ loc' = [loc EXCEPT ![p].node = e] /\ pc' = [pc EXCEPT ![p] = "add"]
      BY <1>11, <2>2 DEF Create, Goto
    <3>2. /\ t \in BOOLEAN /\ buf'[e] = NewBuffer(loc[p].name, t)
          /\ loc'[p].node = e /\ Strings(p, heap, loc[p].got)
          /\ \A f \in Buffers : f # e => buf'[f] = buf[f]
      BY <1>1, <1>11, <3>1, Constants DEF Locals, Strings, Create
    <3>3. pc'[p] = "add" BY <1>1, <3>1
    <3>4. CreateKind(p) BY <1>11, <3>3, CreateIs DEF Leave
    <3>5. AllocKind(p, e) BY <3>1, <3>2, <3>4 DEF AllocKind
    <3> QED BY <3>5 DEF Done
  <2> QED BY <2>1, <2>2
<1>12. CASE FreeBuffer(p)
  <2>1. PICK e \in Buffers : e = d BY <1>2, <1>12 DEF FreeBuffer, RemovePCs
  <2>2. /\ buf' = [buf EXCEPT ![e].state = "nofifo", ![e].stored = 0] /\ loc' = loc
        /\ pc[p] = "drained" /\ pc' = [pc EXCEPT ![p] = "unlink"]
        /\ heap' = IF buf[e].isInt THEN heap ELSE heap - buf[e].stored
    BY <1>12, <2>1 DEF FreeBuffer, Goto, d, admin
  <2>3. /\ buf'[e].state = "nofifo" /\ buf'[e].stored = 0 /\ buf'[e].name = buf[e].name
        /\ buf'[e].isInt = buf[e].isInt /\ buf'[e].mtx = buf[e].mtx
        /\ \A f \in Buffers : f # e => buf'[f] = buf[f]
    BY <1>1, <2>2 DEF BufTypes
  <2>5. heap' = heap - (IF buf[e].isInt THEN 0 ELSE buf[e].stored)
    BY <1>1, <2>2 DEF TypeInv
  <2>4. FreeKind(p, e) BY <2>5, <1>1, <2>1, <2>2, <2>3 DEF FreeKind, d
  <2> QED BY <2>4 DEF Done
<1>13. CASE Rundown(p)
  <2>1. PICK e \in Buffers : e = d BY <1>2, <1>13 DEF Rundown, RemovePCs
  <2>2. /\ buf' = [buf EXCEPT ![e] = Freed] /\ loc' = [loc EXCEPT ![p].reg = None]
        /\ pc[p] = "rundown" /\ pc' = [pc EXCEPT ![p] = "unlist"]
    BY <1>13, <2>1 DEF Rundown, Goto, d
  <2>3. /\ loc'[p].node = e /\ loc'[p].got = loc[p].got /\ heap' = heap
        /\ \A q \in Procs : q # p => loc'[q] = loc[q]
    BY <1>1, <1>13, <2>1, <2>2 DEF Locals, d, Rundown
  <2>4. FreeKind(p, e) BY <1>1, <2>1, <2>2, <2>3 DEF FreeKind, d
  <2> QED BY <2>4 DEF Done
<1>14. ASSUME DrainLock(p) \/ DrainTake(p) \/ DrainFree(p) \/ RunUser(p)
              \/ InterruptWait(p) \/ InterruptLock(p)
       PROVE  pc[p] \in {"drain", "drainlock", "drainup"} \cup UserPCs
  BY <1>14 DEF DrainLock, DrainTake, DrainFree, RunUser, WriteLock, WritePut, WritePost,
         WriteUndo, ReadLock, ReadTake, ReadFree, ReadUndo, Message, InterruptWait, InterruptLock, Granted
<1>15. CASE \/ DrainLock(p) \/ DrainTake(p) \/ DrainFree(p) \/ RunUser(p)
            \/ InterruptWait(p) \/ InterruptLock(p)
  <2>0. pc[p] \in RemovePCs \cup UserPCs BY <1>14, <1>15 DEF RemovePCs
  <2>1. PICK e \in Buffers : e = d BY <1>2, <2>0
  <2>2. loc[p].node = e BY <2>1 DEF d
  <2>3. buf[e] \in BufTypes /\ buf[e].stored \in Nat
    <3>1. buf[e].stored \in 0 .. MaxSize BY <1>1 DEF BufTypes
    <3> QED BY <1>1, <3>1, Constants
  <2> DEFINE m == buf[e].mtx
             g == buf[e].gaps
             l == buf[e].elements
             n == buf[e].stored
             one == IF buf[e].isInt THEN 0 ELSE 1
  <2>4. CASE DrainLock(p)
    <3>1. /\ pc[p] = "drain" /\ pc' = [pc EXCEPT ![p] = "drainlock"] /\ loc' = loc
          /\ buf' = [buf EXCEPT ![e].mtx = Down(m, p)] /\ ~buf[e].isInt /\ n > 0
      BY <2>2, <2>4 DEF DrainLock, Goto
    <3>2. Works(p, e, "drain", "drainlock", Down(m, p), g, l, n) BY <2>2, <3>1, WorksBy
    <3>3. Strings(p, heap, loc[p].got)
      BY <2>4 DEF DrainLock, Strings
    <3> QED BY <1>4, <3>1, <3>2, <3>3 DEF WorkKind
  <2>5. CASE DrainTake(p)
    <3>1. /\ pc[p] = "drainlock" /\ pc' = [pc EXCEPT ![p] = "drainup"] /\ ~Waiting(m, p)
          /\ buf' = [buf EXCEPT ![e].mtx = Up(m), ![e].stored = Fewer(n)]
      BY <1>1, <2>2, <2>5 DEF DrainTake, Goto, Granted, Fewer, BufTypes
    <3>2. Others /\ loc'[p].node = e
      BY <1>6, <2>1, <2>5 DEF DrainTake
    <3>3. Works(p, e, "drainlock", "drainup", Up(m), g, l, Fewer(n)) BY <2>2, <3>1, <3>2, WorksBy
    <3>4. Strings(p, heap, IF n > 0 THEN "string" ELSE loc[p].got)
      BY <1>6, <2>1, <2>2, <2>5 DEF DrainTake, Strings
    <3> QED BY <1>4, <3>1, <3>3, <3>4 DEF WorkKind
  <2>6. CASE DrainFree(p)
    <3>1. /\ pc[p] = "drainup" /\ pc' = [pc EXCEPT ![p] = "drain"]
          /\ buf' = [buf EXCEPT ![e].gaps = Up(g)]
      BY <2>2, <2>6 DEF DrainFree, Goto, Drained
    <3>2. Others /\ loc'[p].node = e BY <1>6, <2>1, <2>6 DEF DrainFree
    <3>3. Works(p, e, "drainup", "drain", m, Up(g), l, n) BY <2>2, <3>1, <3>2, WorksBy
    <3>4. Strings(p, IF loc[p].got = "string" THEN heap - 1 ELSE heap,
                     IF loc[p].got = "null" THEN loc[p].got ELSE "dangling")
      BY <1>6, <2>6 DEF DrainFree, HeapFreed, Strings
    <3> QED BY <1>4, <3>3, <3>4 DEF WorkKind
  <2>7. CASE WriteLock(p)
    <3>1. /\ pc[p] = "gap" /\ pc' = [pc EXCEPT ![p] = "wlock"] /\ loc' = loc
          /\ buf' = [buf EXCEPT ![e].mtx = Down(m, p)] /\ ~Waiting(g, p)
      BY <2>2, <2>7 DEF WriteLock, Goto, Granted
    <3>2. Works(p, e, "gap", "wlock", Down(m, p), g, l, n) BY <2>2, <3>1, WorksBy
    <3>3. Strings(p, heap, loc[p].got)
      BY <2>7 DEF WriteLock, Strings
    <3> QED BY <1>4, <3>1, <3>2, <3>3 DEF WorkKind
  <2>8. CASE WritePut(p)
    <3>1. /\ pc[p] = "wlock" /\ pc' = [pc EXCEPT ![p] = "post"] /\ loc' = loc
          /\ buf' = [buf EXCEPT ![e].stored = IF Room(e) THEN n + 1 ELSE n, ![e].mtx = Up(m)]
          /\ ~Waiting(m, p)
      BY <1>1, <2>2, <2>8 DEF WritePut, Goto, Granted, BufTypes
    <3>2. Works(p, e, "wlock", "post", Up(m), g, l, IF Room(e) THEN n + 1 ELSE n)
      BY <2>2, <3>1, WorksBy
    <3>3. Strings(p, IF Room(e) THEN heap ELSE heap - one, loc[p].got)
      BY <1>1, <2>2, <2>8 DEF WritePut, Strings, TypeInv
    <3> QED BY <1>4, <3>1, <3>2, <3>3 DEF WorkKind
  <2>9. CASE WritePost(p)
    <3>1. /\ pc[p] = "post" /\ pc' = [pc EXCEPT ![p] = "print"] /\ loc' = loc
          /\ buf' = [buf EXCEPT ![e].elements = Up(l)]
      BY <2>2, <2>9 DEF WritePost, Goto
    <3>2. Works(p, e, "post", "print", m, g, Up(l), n) BY <2>2, <3>1, WorksBy
    <3>3. Strings(p, heap, loc[p].got)
      BY <2>9 DEF WritePost, Strings
    <3> QED BY <1>4, <3>2, <3>3 DEF WorkKind
  <2>10. CASE WriteUndo(p)
    <3>1. /\ pc[p] = "wundo" /\ pc' = [pc EXCEPT ![p] = "idle"]
          /\ buf' = [buf EXCEPT ![e].gaps = Up(g)] /\ Others
      BY <1>5, <2>2, <2>10 DEF WriteUndo
    <3>2. Works(p, e, "wundo", "idle", m, Up(g), l, n) BY <2>2, <3>1, WorksBy
    <3>3. Strings(p, heap - one, "null")
      BY <1>5, <2>2, <2>10 DEF WriteUndo, Strings, TypeInv
    <3> QED BY <1>4, <3>2, <3>3 DEF WorkKind
  <2>11. CASE ReadLock(p)
    <3>1. /\ pc[p] = "elem" /\ pc' = [pc EXCEPT ![p] = "rlock"] /\ loc' = loc
          /\ buf' = [buf EXCEPT ![e].mtx = Down(m, p)] /\ ~Waiting(l, p)
      BY <2>2, <2>11 DEF ReadLock, Goto, Granted
    <3>2. Works(p, e, "elem", "rlock", Down(m, p), g, l, n) BY <2>2, <3>1, WorksBy
    <3>3. Strings(p, heap, loc[p].got)
      BY <2>11 DEF ReadLock, Strings
    <3> QED BY <1>4, <3>1, <3>2, <3>3 DEF WorkKind
  <2>12. CASE ReadTake(p)
    <3>1. /\ pc[p] = "rlock" /\ pc' = [pc EXCEPT ![p] = "free"] /\ ~Waiting(m, p)
          /\ buf' = [buf EXCEPT ![e].mtx = Up(m), ![e].stored = Fewer(n)]
      BY <1>1, <2>2, <2>12 DEF ReadTake, Goto, Granted, Fewer, BufTypes
    <3>2. Others /\ loc'[p].node = e BY <1>6, <2>1, <2>12 DEF ReadTake
    <3>3. Works(p, e, "rlock", "free", Up(m), g, l, Fewer(n)) BY <2>2, <3>1, <3>2, WorksBy
    <3>4. Strings(p, heap, IF n > 0 /\ ~buf[e].isInt THEN "string" ELSE "null")
      BY <1>6, <2>1, <2>2, <2>12 DEF ReadTake, Strings
    <3> QED BY <1>4, <3>1, <3>3, <3>4 DEF WorkKind
  <2>13. CASE ReadFree(p)
    <3>1. /\ pc[p] = "free" /\ buf' = [buf EXCEPT ![e].gaps = Up(g)]
          /\ heap' = IF loc[p].got = "string" THEN heap - 1 ELSE heap
          /\ \/ Return(p)
             \/ /\ loc' = [loc EXCEPT ![p].got = IF @ = "null" THEN @ ELSE "dangling"]
                /\ pc' = [pc EXCEPT ![p] = "print"]
      BY <2>2, <2>13 DEF ReadFree, HeapFreed, Goto
    <3>2. CASE Return(p)
      <4>1. Others /\ pc' = [pc EXCEPT ![p] = "idle"] /\ loc'[p].got = "null" BY <1>5, <3>2
      <4>2. Works(p, e, "free", "idle", m, Up(g), l, n) BY <2>2, <3>1, <4>1, WorksBy
      <4>3. Strings(p, IF loc[p].got = "string" THEN heap - 1 ELSE heap, "null")
        BY <3>1, <4>1 DEF Strings
      <4> QED BY <1>4, <4>2, <4>3 DEF WorkKind
    <3>3. CASE ~Return(p)
      <4>1. pc' = [pc EXCEPT ![p] = "print"] BY <3>1, <3>3
      <4>2. /\ Others /\ loc'[p].node = d
            /\ loc'[p].got = IF loc[p].got = "null" THEN loc[p].got ELSE "dangling"
        BY <1>6, <3>1, <3>3
      <4>3. Works(p, e, "free", "print", m, Up(g), l, n) BY <2>1, <2>2, <3>1, <4>1, <4>2, WorksBy
      <4>4. Strings(p, IF loc[p].got = "string" THEN heap - 1 ELSE heap,
                       IF loc[p].got = "null" THEN loc[p].got ELSE "dangling")
        BY <3>1, <4>2 DEF Strings
      <4> QED BY <1>4, <4>3, <4>4 DEF WorkKind
    <3> QED BY <3>2, <3>3
  <2>17. CASE Message(p)
    <3>1. /\ pc[p] = "print" /\ pc' = [pc EXCEPT ![p] = "idle"] /\ Others
          /\ buf' = buf /\ heap' = heap /\ loc'[p].got = "null"
      BY <1>5, <2>17 DEF Message
    <3>2. Works(p, e, "print", "idle", m, g, l, n) BY <1>1, <2>2, <3>1 DEF Works
    <3>3. Strings(p, heap, "null") BY <3>1 DEF Strings
    <3> QED BY <1>4, <3>2, <3>3 DEF WorkKind
  <2>14. CASE ReadUndo(p)
    <3>1. /\ pc[p] = "rundo" /\ pc' = [pc EXCEPT ![p] = "idle"]
          /\ buf' = [buf EXCEPT ![e].elements = Up(l)] /\ Others
      BY <1>5, <2>2, <2>14 DEF ReadUndo
    <3>2. Works(p, e, "rundo", "idle", m, g, Up(l), n) BY <2>2, <3>1, WorksBy
    <3>3. Strings(p, heap, "null")
      BY <1>5, <2>14 DEF ReadUndo, Strings
    <3> QED BY <1>4, <3>2, <3>3 DEF WorkKind
  <2>15. CASE InterruptWait(p)
    <3>1. pc' = [pc EXCEPT ![p] = "idle"] /\ Others BY <1>5, <2>15 DEF InterruptWait
    <3>2. CASE pc[p] = "gap"
      <4>1. Waiting(g, p) /\ buf' = [buf EXCEPT ![e].gaps = Cancel(g, p)]
        BY <2>2, <2>15, <3>2 DEF InterruptWait
      <4>2. Works(p, e, "gap", "idle", m, Cancel(g, p), l, n) BY <2>2, <3>1, <3>2, <4>1, WorksBy
      <4>3. Strings(p, heap - one, "null")
        BY <1>1, <1>5, <2>2, <2>15, <3>2 DEF InterruptWait, Strings, TypeInv
      <4> QED BY <1>4, <4>1, <4>2, <4>3 DEF WorkKind
    <3>3. CASE pc[p] = "elem"
      <4>1. Waiting(l, p) /\ buf' = [buf EXCEPT ![e].elements = Cancel(l, p)]
        BY <2>2, <2>15, <3>3 DEF InterruptWait
      <4>2. Works(p, e, "elem", "idle", m, g, Cancel(l, p), n) BY <2>2, <3>1, <3>3, <4>1, WorksBy
      <4>3. Strings(p, heap, "null") BY <1>5, <2>15, <3>3 DEF InterruptWait, Strings
      <4> QED BY <1>4, <4>1, <4>2, <4>3 DEF WorkKind
    <3> QED BY <2>15, <3>2, <3>3 DEF InterruptWait
  <2>16. CASE InterruptLock(p)
    <3>1. Waiting(m, p) /\ buf' = [buf EXCEPT ![e].mtx = Cancel(m, p)]
      BY <2>2, <2>16 DEF InterruptLock
    <3>2. CASE pc[p] = "drainlock"
      <4>1. Others /\ pc' = [pc EXCEPT ![p] = "idle"] BY <1>5, <2>16, <3>2 DEF InterruptLock
      <4>2. Works(p, e, "drainlock", "idle", Cancel(m, p), g, l, n)
        BY <2>2, <3>1, <3>2, <4>1, WorksBy
      <4>3. Strings(p, heap, "null") BY <1>5, <2>16, <3>2 DEF InterruptLock, Strings
      <4> QED BY <1>4, <3>1, <4>2, <4>3 DEF WorkKind
    <3>3. CASE pc[p] = "wlock"
      <4>1. loc' = loc /\ pc' = [pc EXCEPT ![p] = "wundo"] BY <2>16, <3>3 DEF InterruptLock, Goto
      <4>2. Works(p, e, "wlock", "wundo", Cancel(m, p), g, l, n)
        BY <2>2, <3>1, <3>3, <4>1, WorksBy
      <4>3. Strings(p, heap, loc[p].got) BY <2>16, <4>1 DEF InterruptLock, Strings
      <4> QED BY <1>4, <3>1, <4>2, <4>3 DEF WorkKind
    <3>4. CASE pc[p] = "rlock"
      <4>1. loc' = loc /\ pc' = [pc EXCEPT ![p] = "rundo"] BY <2>16, <3>4 DEF InterruptLock, Goto
      <4>2. Works(p, e, "rlock", "rundo", Cancel(m, p), g, l, n)
        BY <2>2, <3>1, <3>4, <4>1, WorksBy
      <4>3. Strings(p, heap, loc[p].got) BY <2>16, <4>1 DEF InterruptLock, Strings
      <4> QED BY <1>4, <3>1, <4>2, <4>3 DEF WorkKind
    <3> QED BY <2>16, <3>2, <3>3, <3>4 DEF InterruptLock
  <2> QED
    BY <1>15, <2>4, <2>5, <2>6, <2>7, <2>8, <2>9, <2>10, <2>11, <2>12, <2>13, <2>14, <2>15, <2>16, <2>17
    DEF RunUser
<1>19. CASE DrainDone(p)
  <2>1. /\ buf' = buf /\ heap' = heap /\ loc' = loc
        /\ pc[p] = "drain" /\ pc' = [pc EXCEPT ![p] = "drained"]
    BY <1>19 DEF DrainDone, Goto
  <2>2. AsideKind(p) BY <1>1, <2>1 DEF AsideKind
  <2> QED BY <1>3, <2>2
<1>16. CASE RunAdmin(p) BY <1>9, <1>10, <1>11, <1>12, <1>13, <1>15, <1>16, <1>19 DEF RunAdmin
<1>17. CASE RunUser(p) BY <1>15, <1>17
<1>18. CASE Interrupt(p) BY <1>9, <1>15, <1>18 DEF Interrupt
<1> QED BY <1>8, <1>16, <1>17, <1>18 DEF Run

\* A step of p takes it from place to place of the buffer d; nothing changes
\* where it is not in a call on one.
LEMMA PlacesStep ==
    ASSUME NEW p \in Procs, \A q \in Procs : q # p => pc'[q] = pc[q] /\ loc'[q] = loc[q]
    PROVE  /\ \A d, a, b : /\ pc[p] = a /\ (a = "idle" \/ loc[p].node = d)
                           /\ pc'[p] = b /\ (b = "idle" \/ loc'[p].node = d)
              => /\ LockPlace(d)[p] = LockAt(a) /\ (LockPlace(d))'[p] = LockAt(b)
                 /\ GapPlace(d)[p] = GapAt(a) /\ (GapPlace(d))'[p] = GapAt(b)
                 /\ ElemPlace(d)[p] = ElemAt(a) /\ (ElemPlace(d))'[p] = ElemAt(b)
           /\ \A d : \A q \in Procs : q # p =>
                 /\ (LockPlace(d))'[q] = LockPlace(d)[q]
                 /\ (GapPlace(d))'[q] = GapPlace(d)[q]
                 /\ (ElemPlace(d))'[q] = ElemPlace(d)[q]
           /\ \A d : /\ pc[p] \notin BufferPCs \/ loc[p].node # d
                     /\ pc'[p] \notin BufferPCs \/ loc'[p].node # d
              => /\ (LockPlace(d))' = LockPlace(d)
                 /\ (GapPlace(d))' = GapPlace(d)
                 /\ (ElemPlace(d))' = ElemPlace(d)
<1> USE DEF LockPlace, GapPlace, ElemPlace
<1>1. \A a : a \notin BufferPCs => LockAt(a) = "off" /\ GapAt(a) = "off" /\ ElemAt(a) = "off"
  BY DEF LockAt, GapAt, ElemAt, BufferPCs, UserPCs
<1>2. "idle" \notin BufferPCs BY DEF BufferPCs, UserPCs
<1> QED BY <1>1, <1>2

\* The account of the mutex of the buffer at work.
LEMMA WorkMtx ==
    ASSUME NEW p \in Procs, NEW d \in Buffers, WorkKind(p, d),
           Account(Procs, buf[d].mtx, LockPlace(d), {"lock"}, {}, 1)
    PROVE  Account(Procs, buf'[d].mtx, (LockPlace(d))', {"lock"}, {}, 1)
<1>1. ASSUME NEW a, NEW b, NEW x, NEW g, NEW e, NEW n, Works(p, d, a, b, x, g, e, n),
             Moves(buf[d].mtx, 1, x, 1, p, LockAt(a), LockAt(b), {"lock"}, {})
      PROVE  Account(Procs, buf'[d].mtx, (LockPlace(d))', {"lock"}, {}, 1)
  <2>1. /\ LockPlace(d)[p] = LockAt(a) /\ (LockPlace(d))'[p] = LockAt(b)
        /\ \A q \in Procs : q # p => (LockPlace(d))'[q] = LockPlace(d)[q]
    BY <1>1, PlacesStep DEF Works
  <2>2. buf'[d].mtx = x BY <1>1 DEF Works
  <2> DEFINE f == LockPlace(d)
             h == (LockPlace(d))'
  <2> HIDE DEF f, h
  <2>3. Account(Procs, x, h, {"lock"}, {}, 1)
    BY <1>1, <2>1, AccountStep DEF f, h
  <2> QED BY <2>2, <2>3 DEF h
<1>2. /\ LockAt("wlock") = "lock" /\ LockAt("rlock") = "lock" /\ LockAt("drainlock") = "lock"
      /\ \A a : a \notin {"wlock", "rlock", "drainlock"} => LockAt(a) = "off"
  BY DEF LockAt
<1> QED BY <1>1, <1>2 DEF WorkKind, Moves

LEMMA InitMtx == Init => MtxInv
<1> SUFFICES ASSUME Init, NEW d \in Buffers, buf[d].state # "freed"
             PROVE  Account(Procs, buf[d].mtx, LockPlace(d), {"lock"}, {}, 1)
  BY DEF MtxInv
<1>1. buf[d] = IF d = 1 THEN NewBuffer(Test, TRUE) ELSE Freed BY DEF Init
<1>2. buf[d].mtx = SemInit(1) BY <1>1 DEF NewBuffer, Freed
<1>3. \A q \in Procs : pc[q] = "idle" BY DEF Init
<1>4. \A q \in Procs : LockPlace(d)[q] \notin {"lock"} \cup {} BY <1>3 DEF LockPlace, LockAt
<1>5. IsFiniteSet(Procs) /\ 1 \in Nat BY Constants
<1> QED BY <1>2, <1>4, <1>5, AccountInit

LEMMA NextMtx ==
    ASSUME TypeInv, Control, ListInv, RemoveInv, UseInv, MtxInv, [Next]_vars
    PROVE  MtxInv'
<1>1. CASE UNCHANGED vars BY <1>1 DEF vars, MtxInv, LockPlace
<1>2. CASE Next
  <2>1. PICK p \in Procs : Call(p) \/ Run(p) \/ Interrupt(p) BY <1>2 DEF Next
  <2>2. SUFFICES ASSUME NEW d \in Buffers, buf'[d].state # "freed"
                 PROVE  Account(Procs, buf'[d].mtx, (LockPlace(d))', {"lock"}, {}, 1)
    BY DEF MtxInv
  <2>3. ASSUME buf'[d] = buf[d], (LockPlace(d))' = LockPlace(d)
        PROVE  Account(Procs, buf'[d].mtx, (LockPlace(d))', {"lock"}, {}, 1)
    BY <2>2, <2>3 DEF MtxInv
  <2>4. CASE AsideKind(p)
    <3>1. buf' = buf /\ (LockPlace(d))' = LockPlace(d) BY <2>4, PlacesStep DEF AsideKind
    <3> QED BY <2>3, <3>1
  <2>5. ASSUME NEW e \in Buffers, WorkKind(p, e)
        PROVE  Account(Procs, buf'[d].mtx, (LockPlace(d))', {"lock"}, {}, 1)
    <3>1. CASE e = d
      <4>1. buf[d].state # "freed" BY <2>2, <2>5, <3>1 DEF WorkKind, Works
      <4> QED BY <2>5, <3>1, <4>1, WorkMtx DEF MtxInv
    <3>2. CASE e # d
      <4>1. /\ buf'[d] = buf[d]
            /\ pc[p] \notin BufferPCs \/ loc[p].node # d
            /\ pc'[p] \notin BufferPCs \/ loc'[p].node # d
            /\ \A q \in Procs : q # p => pc'[q] = pc[q] /\ loc'[q] = loc[q]
        BY <2>5, <3>2 DEF WorkKind, Works, BufferPCs, UserPCs
      <4> QED BY <2>3, <4>1, PlacesStep
    <3> QED BY <3>1, <3>2
  <2>6. ASSUME NEW e \in Buffers, AllocKind(p, e)
        PROVE  Account(Procs, buf'[d].mtx, (LockPlace(d))', {"lock"}, {}, 1)
    <3>1. /\ pc[p] = "create" /\ pc'[p] = "add"
          /\ \A q \in Procs : q # p => pc'[q] = pc[q] /\ loc'[q] = loc[q]
      BY <2>6 DEF AllocKind, CreateKind
    <3>2. pc[p] \notin BufferPCs /\ pc'[p] \notin BufferPCs BY <3>1 DEF BufferPCs, UserPCs
    <3>3. (LockPlace(d))' = LockPlace(d) BY <3>1, <3>2, PlacesStep
    <3>4. CASE e = d
      <4>1. buf'[d].mtx = SemInit(1) BY <2>6, <3>4 DEF AllocKind, NewBuffer
      <4>2. buf[d].state = "freed" BY <2>6, <3>4 DEF AllocKind
      <4>3. \A q \in Procs : LockPlace(d)[q] \notin {"lock"} \cup {}
        <5>1. SUFFICES ASSUME NEW q \in Procs, loc[q].node = d,
                              pc[q] \in {"wlock", "rlock", "drainlock"}
                       PROVE  FALSE
          BY DEF LockPlace, LockAt
        <5>2. q \in Admins BY <4>2, <5>1, Constants DEF UseInv
        <5>3. Removing(q) BY <5>1, <5>2 DEF Removing, RemovePCs, Control, CreatePCs
        <5> QED BY <3>1, <5>2, <5>3, OneAdmin DEF CreatePCs
      <4>4. IsFiniteSet(Procs) /\ 1 \in Nat BY Constants
      <4>5. Account(Procs, SemInit(1), LockPlace(d), {"lock"}, {}, 1)
        BY <4>3, <4>4, AccountInit
      <4> QED BY <3>3, <4>1, <4>5
    <3>5. CASE e # d BY <2>3, <2>6, <3>3, <3>5 DEF AllocKind
    <3> QED BY <3>4, <3>5
  <2>7. ASSUME NEW e \in Buffers, FreeKind(p, e)
        PROVE  Account(Procs, buf'[d].mtx, (LockPlace(d))', {"lock"}, {}, 1)
    <3>1. /\ pc[p] \notin BufferPCs /\ pc'[p] \notin BufferPCs
          /\ \A q \in Procs : q # p => pc'[q] = pc[q] /\ loc'[q] = loc[q]
      BY <2>7 DEF FreeKind, BufferPCs, UserPCs
    <3>2. (LockPlace(d))' = LockPlace(d) BY <3>1, PlacesStep
    <3>3. CASE e = d
      <4>1. pc[p] = "drained" /\ buf'[d].mtx = buf[d].mtx
        BY <2>2, <2>7, <3>3 DEF FreeKind, Freed
      <4>2. p \in Admins /\ Removing(p) /\ loc[p].node = d
        BY <2>7, <3>3, <4>1, AdminAt DEF FreeKind, Removing, RemovePCs, UserPCs
      <4>3. buf[d].state # "freed" BY <4>1, <4>2 DEF RemoveInv, Stands, Phase
      <4> QED BY <3>2, <4>1, <4>3 DEF MtxInv
    <3>4. CASE e # d BY <2>3, <2>7, <3>2, <3>4 DEF FreeKind
    <3> QED BY <3>3, <3>4
  <2> QED BY <2>1, <2>4, <2>5, <2>6, <2>7, BufferKinds
<1> QED BY <1>1, <1>2

\* The steps of a removal, and the end of a creation.
LEMMA RemovalIs ==
    ASSUME TypeInv, Control, RemoveInv, NEW p \in Procs,
           FreeBuffer(p) \/ Unlink(p) \/ Rundown(p)
    PROVE  /\ p \in Admins /\ Removing(p) /\ ~Creating(p) /\ list' = list
           /\ \A q \in Admins : q # p => pc[q] = "idle"
           /\ \A q \in Procs : q # p => pc'[q] = pc[q] /\ loc'[q] = loc[q]
           /\ loc[p].node \in Buffers /\ loc[p].name \in Names
           /\ loc'[p].node = loc[p].node /\ loc'[p].next = loc[p].next /\ loc'[p].name = loc[p].name
           /\ \A e \in Buffers : e # loc[p].node => buf'[e] = buf[e]
           /\ \/ /\ pc[p] = "drained" /\ pc'[p] = "unlink" /\ proc' = proc
                 /\ buf'[loc[p].node].state = "nofifo"
                 /\ buf'[loc[p].node].name = buf[loc[p].node].name
              \/ /\ pc[p] = "unlink" /\ pc'[p] = "rundown" /\ buf' = buf
                 /\ proc' = [proc EXCEPT ![loc[p].name] = None]
                 /\ loc'[p].reg = proc[loc[p].name]
              \/ /\ pc[p] = "rundown" /\ pc'[p] = "unlist" /\ proc' = proc
                 /\ buf'[loc[p].node] = Freed /\ Using(loc[p].reg) = {}
<1>1. /\ pc \in [Procs -> PCs] /\ loc \in [Procs -> Locals] /\ loc[p] \in Locals
      /\ buf \in [Buffers -> BufTypes]
  BY DEF TypeInv
<1>2. pc[p] \in {"drained", "unlink", "rundown"} BY DEF FreeBuffer, Unlink, Rundown
<1>3. /\ p \in Admins /\ Removing(p) /\ ~Creating(p) /\ loc[p].node \in Buffers
      /\ \A q \in Admins : q # p => pc[q] = "idle"
  BY <1>2, OneAdmin DEF Removing, RemovePCs, Control
<1>4. loc[p].name \in Names BY <1>1 DEF Locals
<1>5. CASE FreeBuffer(p)
  <2>1. /\ list' = list /\ proc' = proc /\ loc' = loc /\ pc' = [pc EXCEPT ![p] = "unlink"]
        /\ pc[p] = "drained"
        /\ buf' = [buf EXCEPT ![loc[p].node].state = "nofifo", ![loc[p].node].stored = 0]
    BY <1>5 DEF FreeBuffer, Goto, admin
  <2>2. buf'[loc[p].node].state = "nofifo" /\ buf'[loc[p].node].name = buf[loc[p].node].name
        /\ \A e \in Buffers : e # loc[p].node => buf'[e] = buf[e]
    BY <1>1, <1>3, <2>1 DEF BufTypes
  <2> QED BY <1>1, <1>3, <1>4, <2>1, <2>2
<1>6. CASE Unlink(p)
  <2>1. buf[loc[p].node].name = loc[p].name BY <1>3, <1>6 DEF RemoveInv, Stands, Phase, Unlink
  <2>2. /\ list' = list /\ buf' = buf /\ pc' = [pc EXCEPT ![p] = "rundown"] /\ pc[p] = "unlink"
        /\ proc' = [proc EXCEPT ![loc[p].name] = None]
        /\ loc' = [loc EXCEPT ![p].reg = proc[loc[p].name]]
    BY <1>6, <2>1 DEF Unlink, Goto
  <2>3. /\ loc'[p].node = loc[p].node /\ loc'[p].next = loc[p].next
        /\ loc'[p].name = loc[p].name /\ loc'[p].reg = proc[loc[p].name]
        /\ \A q \in Procs : q # p => loc'[q] = loc[q]
    BY <1>1, <2>2 DEF Locals
  <2> QED BY <1>1, <1>3, <1>4, <2>2, <2>3
<1>7. CASE Rundown(p)
  <2>1. /\ list' = list /\ proc' = proc /\ pc' = [pc EXCEPT ![p] = "unlist"] /\ pc[p] = "rundown"
        /\ loc' = [loc EXCEPT ![p].reg = None] /\ Using(loc[p].reg) = {}
        /\ buf' = [buf EXCEPT ![loc[p].node] = Freed]
    BY <1>7 DEF Rundown, Goto
  <2>2. /\ loc'[p].node = loc[p].node /\ loc'[p].next = loc[p].next
        /\ loc'[p].name = loc[p].name
        /\ \A q \in Procs : q # p => loc'[q] = loc[q]
    BY <1>1, <2>1 DEF Locals
  <2> QED BY <1>1, <1>3, <1>4, <2>1, <2>2
<1> QED BY <1>5, <1>6, <1>7

LEMMA AppendIs ==
    ASSUME TypeInv, Control, ListInv, NEW p \in Procs, AddAppend(p)
    PROVE  /\ p \in Admins /\ Creating(p) /\ pc[p] = "append" /\ pc'[p] = "load"
           /\ \A q \in Admins : ~Removing(q)
           /\ proc' = proc /\ buf' = buf /\ loc' = loc
           /\ \A q \in Procs : q # p => pc'[q] = pc[q]
           /\ loc[p].node \in Buffers
           /\ \A e : (Linked(e))' <=> Linked(e) \/ e = loc[p].node
<1>1. pc \in [Procs -> PCs] /\ list \in Seq(Buffers) /\ Len(list) \in Nat
      /\ DOMAIN list = 1 .. Len(list)
  BY LenProperties DEF TypeInv
<1>2. /\ p \in Admins /\ Creating(p) /\ \A q \in Admins : ~Removing(q)
  BY AdminAt, OneAdmin DEF AddAppend, Granted, Creating, UserPCs, CreatePCs
<1>3. /\ list' = Append(list, loc[p].node) /\ buf' = buf /\ loc' = loc /\ proc' = proc
      /\ pc[p] = "append" /\ pc' = [pc EXCEPT ![p] = "load"]
  BY DEF AddAppend, Goto, Granted
<1>4. loc[p].node \in Buffers BY <1>2 DEF Creating, Control
<1>5. /\ DOMAIN list' = 1 .. Len(list) + 1 /\ list'[Len(list) + 1] = loc[p].node
      /\ \A i \in 1 .. Len(list) : list'[i] = list[i]
  BY <1>1, <1>3, <1>4, AppendProperties, LenProperties
<1>6. \A e : (Linked(e))' <=> Linked(e) \/ e = loc[p].node
  BY <1>1, <1>5 DEF Linked, Occurs
<1> QED BY <1>1, <1>2, <1>3, <1>4, <1>6

LEMMA NextRemove ==
    ASSUME TypeInv, Control, ListInv, RemoveInv, [Next]_vars
    PROVE  RemoveInv'
<1>1. CASE UNCHANGED vars
  BY <1>1 DEF vars, admin, RemoveInv, Stands, Phase, Removing
<1>2. CASE Next
  <2>1. PICK p \in Procs :
              \/ Onward(p) \/ Leave(p) \/ EnterKind(p) \/ UseKind(p) \/ CreateKind(p)
              \/ AddAppend(p) \/ WalkKind(p) \/ FreeBuffer(p) \/ Unlink(p) \/ Rundown(p)
              \/ UnlistKind(p)
    BY <1>2, Kinds
  <2>2. SUFFICES ASSUME NEW r \in Admins, (Removing(r))' PROVE (Stands(r))' /\ (Phase(r))'
    BY DEF RemoveInv
  <2>3. /\ list \in Seq(Buffers) /\ DOMAIN list = 1 .. Len(list) /\ Len(list) \in Nat
        /\ \A i \in DOMAIN list : list[i] \in Buffers
        /\ r \in Procs /\ proc \in [Names -> Buffers \cup {None}] /\ buf \in [Buffers -> BufTypes]
    BY Constants, LenProperties, ElementOfSeq DEF TypeInv
  <2>4. pc'[r] \in RemovePCs BY <2>2 DEF Removing
  <2>5. \A i, j \in DOMAIN list : list[i] = list[j] => i = j BY DEF ListInv, Distinct
  <2>6. Removing(r) => Stands(r) /\ Phase(r) BY DEF RemoveInv
  <2> USE DEF RemovePCs
  <2>7. ASSUME list' = list, proc' = proc,
               \A e \in Buffers : buf'[e].state = buf[e].state /\ buf'[e].name = buf[e].name,
               Removing(r), loc'[r].node = loc[r].node, loc'[r].next = loc[r].next,
               loc'[r].name = loc[r].name,
               \/ pc'[r] = pc[r]
               \/ {pc[r], pc'[r]} \subseteq {"drain", "drainlock", "drainup", "drained"}
        PROVE  (Stands(r))' /\ (Phase(r))'
    <3>1. (Stands(r))' BY <2>3, <2>6, <2>7 DEF Stands
    <3>2. loc[r].node \in Buffers BY <2>3, <2>6, <2>7 DEF Stands
    <3>3. (Phase(r))' BY <2>6, <2>7, <3>2 DEF Phase
    <3> QED BY <3>1, <3>3
  <2>8. ASSUME r # p, Steady(p) PROVE (Stands(r))' /\ (Phase(r))'
    BY <2>3, <2>4, <2>7, <2>8 DEF Steady, Removing
  <2>9. CASE Onward(p)
    <3>1. CASE r = p
      <4>1. /\ Removing(p)
            /\ \/ pc'[r] = pc[r]
               \/ {pc[r], pc'[r]} \subseteq {"drain", "drainlock", "drainup", "drained"}
        BY <2>4, <2>9, <3>1 DEF Onward, Removing, UserPCs
      <4> QED BY <2>7, <2>9, <3>1, <4>1 DEF Onward, Steady
    <3> QED BY <2>8, <2>9, <3>1 DEF Onward
  <2>10. CASE Leave(p) BY <2>4, <2>8, <2>10 DEF Leave
  <2>11. CASE EnterKind(p) BY <2>4, <2>8, <2>11 DEF EnterKind
  <2>12. CASE UseKind(p) BY <2>4, <2>8, <2>12 DEF UseKind, UserPCs
  <2>13. CASE CreateKind(p)
    <3>1. \A q \in Admins : ~Removing(q) BY <2>13, OneAdmin DEF CreateKind, CreatePCs
    <3> QED BY <2>3, <2>4, <2>13, <3>1 DEF CreateKind, Removing
  <2>14. CASE AddAppend(p)
    <3>1. \A q \in Admins : ~Removing(q) BY <2>14, AppendIs
    <3>2. pc'[p] = "load" /\ \A q \in Procs : q # p => pc'[q] = pc[q] BY <2>14, AppendIs
    <3> QED BY <2>3, <2>4, <3>1, <3>2 DEF Removing
  <2>15. ASSUME NEW k, Finds(p, k) \/ FindsNone(p, k), pc[p] \in {"walk", "unlist"}
         PROVE  r = p /\ Finds(p, k) /\ p \in Admins /\ \A q \in Admins : q # p => pc[q] = "idle"
    <3>1. p \in Admins /\ \A q \in Admins : q # p => pc[q] = "idle" BY <2>15, OneAdmin
    <3> QED BY <2>3, <2>4, <2>15, <3>1 DEF Finds, FindsNone
  <2>16. CASE WalkKind(p)
    <3>1. /\ r = p /\ Finds(p, 1) /\ pc[p] = "walk" /\ UNCHANGED <<list, proc, buf>>
          /\ \A q \in Admins : pc[q] \in {"idle", "walk"}
      BY <2>15, <2>16 DEF WalkKind
    <3>2. PICK i \in DOMAIN list :
            /\ loc'[p].node = list[i] /\ buf[list[i]].name = loc[p].name
            /\ loc'[p].next = IF i < Len(list) THEN list[i + 1] ELSE None
            /\ \A j \in 1 .. i - 1 : buf[list[j]].name # loc[p].name
      BY <3>1 DEF Finds
    <3>3. pc'[p] = "drain" /\ loc'[p].name = loc[p].name BY <3>1 DEF Finds
    <3>4. buf[list[i]].state = "live"
      BY <2>3, <3>1 DEF ListInv, Linked, Occurs
    <3>5. (Stands(r))' BY <3>1, <3>2, <3>3 DEF Stands
    <3>6. (Phase(r))' BY <3>1, <3>2, <3>3, <3>4 DEF Phase
    <3> QED BY <3>5, <3>6
  <2>17. CASE FreeBuffer(p) \/ Unlink(p) \/ Rundown(p)
    <3>1. r = p /\ Removing(p) /\ list' = list /\ loc[p].node \in Buffers /\ loc[p].name \in Names
          /\ loc'[p].node = loc[p].node /\ loc'[p].next = loc[p].next /\ loc'[p].name = loc[p].name
          /\ \A e \in Buffers : e # loc[p].node => buf'[e] = buf[e]
      BY <2>3, <2>4, <2>17, RemovalIs
    <3>2. PICK k \in DOMAIN list :
            /\ list[k] = loc[p].node
            /\ loc[p].next = IF k < Len(list) THEN list[k + 1] ELSE None
            /\ \A j \in 1 .. k - 1 : buf[list[j]].name # loc[p].name
      BY <2>6, <3>1 DEF Stands
    <3>3. \A j \in 1 .. k - 1 : buf'[list[j]] = buf[list[j]]
      <4>1. \A j \in 1 .. k - 1 : j \in DOMAIN list /\ j # k BY <2>3
      <4> QED BY <2>3, <2>5, <3>1, <3>2, <4>1
    <3>4. (Stands(r))' BY <3>1, <3>2, <3>3 DEF Stands
    <3>5. (Phase(r))'
      <4>1. Phase(p) BY <2>6, <3>1
      <4>2. CASE pc[p] = "drained" BY <2>17, <3>1, <4>1, <4>2, RemovalIs DEF Phase
      <4>3. CASE pc[p] = "unlink"
        BY <2>3, <2>17, <3>1, <4>1, <4>3, RemovalIs DEF Phase
      <4>4. CASE pc[p] = "rundown"
        BY <2>17, <3>1, <4>1, <4>4, RemovalIs DEF Phase, Freed
      <4> QED BY <2>17, <4>2, <4>3, <4>4 DEF FreeBuffer, Unlink, Rundown
    <3> QED BY <3>4, <3>5
  <2>18. CASE UnlistKind(p)
    <3>1. PICK k \in DOMAIN list :
            /\ pc[p] = "unlist" /\ list[k] = loc[p].node
            /\ UNCHANGED <<proc, buf>> /\ list' = RemoveAt(list, k)
            /\ Finds(p, k + 1) \/ FindsNone(p, k + 1)
      BY <2>18 DEF UnlistKind
    <3>2. /\ r = p /\ Finds(p, k + 1) /\ Removing(p)
          /\ \A q \in Admins : pc[q] \in {"idle", "unlist"} /\ (pc[q] = "unlist" => q = p)
      BY <2>15, <3>1 DEF Removing
    <3>3. PICK i \in DOMAIN list :
            /\ k + 1 <= i /\ loc'[p].node = list[i] /\ buf[list[i]].name = loc[p].name
            /\ loc'[p].next = IF i < Len(list) THEN list[i + 1] ELSE None
            /\ \A j \in k + 1 .. i - 1 : buf[list[j]].name # loc[p].name
      BY <3>2 DEF Finds
    <3>4. pc'[p] = "drain" /\ loc'[p].name = loc[p].name BY <3>2 DEF Finds
    <3>5. \A j \in 1 .. k - 1 : buf[list[j]].name # loc[p].name
      BY <2>3, <2>5, <2>6, <3>1, <3>2 DEF Stands
    <3>6. buf[list[i]].state = "live"
      <4>1. list[i] # loc[p].node BY <2>3, <2>5, <3>1, <3>3
      <4> QED BY <2>3, <3>2, <4>1 DEF ListInv, Linked, Occurs
    <3>7. /\ DOMAIN list' = 1 .. Len(list) - 1 /\ Len(list') = Len(list) - 1
          /\ \A j \in 1 .. Len(list) - 1 : list'[j] = list[IF j < k THEN j ELSE j + 1]
      BY <2>3, <3>1, RemoveAtEffect
    <3>8. /\ i - 1 \in DOMAIN list' /\ list'[i - 1] = loc'[p].node
          /\ loc'[p].next = IF i - 1 < Len(list') THEN list'[(i - 1) + 1] ELSE None
      <4>1. k \in Nat /\ i \in Nat /\ i <= Len(list) /\ k + 1 <= i /\ 1 <= k BY <2>3, <3>3
      <4>2. i - 1 \in 1 .. Len(list) - 1 /\ ~(i - 1 < k) /\ (i - 1) + 1 = i BY <2>3, <4>1
      <4>3. list'[i - 1] = list[i] BY <3>7, <4>2
      <4>4. i - 1 < Len(list') <=> i < Len(list) BY <2>3, <3>7, <4>1
      <4>5. i < Len(list) => list'[i] = list[i + 1] BY <2>3, <3>7, <4>1
      <4> QED BY <3>3, <3>7, <4>2, <4>3, <4>4, <4>5
    <3>9. ASSUME NEW j \in 1 .. (i - 1) - 1 PROVE buf[list'[j]].name # loc[p].name
      <4>1. k \in Nat /\ i \in Nat /\ i <= Len(list) /\ k + 1 <= i /\ 1 <= k BY <2>3, <3>3
      <4>2. j \in 1 .. Len(list) - 1 BY <2>3, <4>1
      <4>3. CASE j < k BY <3>5, <3>7, <4>1, <4>2, <4>3
      <4>4. CASE j >= k
        <5>1. j + 1 \in k + 1 .. i - 1 /\ ~(j < k) BY <4>1, <4>2, <4>4
        <5> QED BY <3>3, <3>7, <4>2, <5>1
      <4> QED BY <4>1, <4>2, <4>3, <4>4
    <3>10. (Stands(r))' BY <3>1, <3>2, <3>4, <3>8, <3>9 DEF Stands
    <3>11. (Phase(r))' BY <3>1, <3>2, <3>3, <3>4, <3>6 DEF Phase
    <3> QED BY <3>10, <3>11
  <2> QED BY <2>1, <2>9, <2>10, <2>11, <2>12, <2>13, <2>14, <2>16, <2>17, <2>18
<1> QED BY <1>1, <1>2

\* Whoever waits for the mutex of a buffer waits for another one, who is at work.
LEMMA WaitsForOne ==
    ASSUME TypeInv, Control, MtxInv, NEW p \in Procs, NEW d \in Buffers,
           buf[d].state # "freed", Waiting(buf[d].mtx, p)
    PROVE  \E h \in Procs : h # p /\ loc[h].node = d /\ pc[h] \in {"wlock", "rlock", "drainlock"}
<1> DEFINE s == buf[d].mtx
           H == Held(Procs, s, LockPlace(d), {"lock"}, {})
<1>1. Account(Procs, s, LockPlace(d), {"lock"}, {}, 1) BY DEF MtxInv
<1>2. InOrder(s) BY <1>1 DEF Account, Units
<1>3. s.waiters # << >> BY DEF Waiting
<1>4. s.count # 1 BY <1>2, <1>3 DEF InOrder
<1>5. H # {} BY <1>1, <1>4, AccountOne
<1>6. PICK h \in Procs : LockPlace(d)[h] = "lock" /\ ~Waiting(s, h) BY <1>5 DEF Held
<1>7. loc[h].node = d /\ pc[h] \in {"wlock", "rlock", "drainlock"} BY <1>6 DEF LockPlace, LockAt
<1> QED BY <1>6, <1>7

LEMMA NextProc ==
    ASSUME TypeInv, Control, ListInv, RemoveInv, ProcInv, UseInv, MtxInv, [Next]_vars
    PROVE  ProcInv'
<1>1. CASE UNCHANGED vars
  BY <1>1 DEF vars, admin, ProcInv, Linked, Occurs, Creating, Removing
<1>2. CASE Next
  <2>1. PICK p \in Procs :
              \/ Onward(p) \/ Leave(p) \/ EnterKind(p) \/ UseKind(p) \/ CreateKind(p)
              \/ AddAppend(p) \/ WalkKind(p) \/ FreeBuffer(p) \/ Unlink(p) \/ Rundown(p)
              \/ UnlistKind(p)
    BY <1>2, Kinds
  <2>2. /\ list \in Seq(Buffers) /\ DOMAIN list = 1 .. Len(list) /\ Len(list) \in Nat
        /\ \A i \in DOMAIN list : list[i] \in Buffers
        /\ Admins \subseteq Procs /\ Users \subseteq Procs
        /\ proc \in [Names -> Buffers \cup {None}] /\ buf \in [Buffers -> BufTypes]
        /\ \A q \in Procs : loc[q].name \in Names
        /\ \A d \in Buffers : buf[d].name \in Names
    <3>1. /\ list \in Seq(Buffers) /\ buf \in [Buffers -> BufTypes] /\ loc \in [Procs -> Locals]
          /\ proc \in [Names -> Buffers \cup {None}]
      BY DEF TypeInv
    <3>2. /\ \A q \in Procs : loc[q].name \in Names
          /\ \A d \in Buffers : buf[d].name \in Names
      BY <3>1 DEF Locals, BufTypes
    <3> QED BY <3>1, <3>2, Constants, LenProperties, ElementOfSeq
  \* Steps that keep the list, the directory and what the buffers are.
  <2>3. ASSUME list' = list, proc' = proc,
               \A e \in Buffers : buf'[e].state = buf[e].state /\ buf'[e].name = buf[e].name,
               \A q \in Procs : q # p => pc'[q] = pc[q] /\ loc'[q] = loc[q],
               p \in Admins /\ pc'[p] \in {"add", "append"} =>
                   pc[p] \in {"add", "append"} /\ loc'[p].name = loc[p].name,
               \/ Removing(p) => (Removing(p))' /\ loc'[p].name = loc[p].name
               \/ Removing(p) => \A d \in Buffers :
                       ~(Linked(d) /\ buf[d].state # "freed" /\ buf[d].name = loc[p].name
                         /\ proc[buf[d].name] = None)
        PROVE  ProcInv'
    <3>1. \A n \in Names : proc'[n] # None =>
              buf'[proc'[n]].state # "freed" /\ buf'[proc'[n]].name = n
      BY <2>2, <2>3 DEF ProcInv
    <3>2. \A q \in Admins : (Creating(q))' => proc'[loc'[q].name] # None
      BY <2>2, <2>3 DEF ProcInv, Creating
    <3>3. ASSUME NEW d \in Buffers, (Linked(d))', buf'[d].state # "freed", proc'[buf'[d].name] = None
          PROVE  \E q \in Admins : (Removing(q))' /\ loc'[q].name = buf'[d].name
      <4>1. Linked(d) /\ buf[d].state # "freed" /\ proc[buf[d].name] = None
        BY <2>3, <3>3 DEF Linked, Occurs
      <4>2. PICK q \in Admins : Removing(q) /\ loc[q].name = buf[d].name BY <4>1 DEF ProcInv
      <4>3. CASE q = p BY <2>3, <4>1, <4>2, <4>3
      <4>4. CASE q # p BY <2>2, <2>3, <4>2, <4>4 DEF Removing
      <4> QED BY <4>3, <4>4
    <3> QED BY <3>1, <3>2, <3>3 DEF ProcInv
  <2>4. CASE Onward(p)
    <3>1. Removing(p) => (Removing(p))' BY <2>4 DEF Onward, Removing, RemovePCs, UserPCs
    <3>2. pc'[p] \in {"add", "append"} => pc[p] \in {"add", "append"}
      BY <2>4 DEF Onward, UserPCs
    <3> QED BY <2>3, <2>4, <3>1, <3>2 DEF Onward, Steady
  <2>5. CASE Leave(p)
    <3>1. CASE Removing(p)
      <4>1. pc[p] = "drainlock" /\ Waiting(buf[loc[p].node].mtx, p)
        BY <2>5, <3>1 DEF Leave, Removing, RemovePCs, UserPCs
      <4> DEFINE d == loc[p].node
      <4>2. d \in Buffers /\ buf[d].state # "freed" /\ buf[d].name = loc[p].name
            /\ \A q \in Admins : q # p => pc[q] = "idle"
        BY <3>1, <4>1, OneAdmin DEF Removing, RemoveInv, Phase, Control, RemovePCs
      <4>3. PICK h \in Procs : h # p /\ loc[h].node = d /\ pc[h] \in {"wlock", "rlock", "drainlock"}
        BY <4>1, <4>2, WaitsForOne
      <4>4. h \in Users /\ pc[h] # "idle" BY <4>2, <4>3, Constants
      <4>5. ~(\E q \in Admins : pc[q] = "rundown")
        BY <4>1, <4>2
      <4>6. proc[buf[d].name] = d BY <4>3, <4>4, <4>5 DEF UseInv
      <4>7. proc[loc[p].name] # None BY <4>2, <4>6, Constants
      <4>8. pc'[p] = "idle" BY <2>5 DEF Leave
      <4> QED BY <2>3, <2>5, <4>7, <4>8 DEF Leave, Steady
    <3>2. CASE ~Removing(p)
      <4>1. pc'[p] = "idle" BY <2>5 DEF Leave
      <4> QED BY <2>3, <2>5, <3>2, <4>1 DEF Leave, Steady
    <3> QED BY <3>1, <3>2
  <2>6. CASE EnterKind(p)
    <3>1. ~Removing(p) /\ pc'[p] = "exists" BY <2>6 DEF EnterKind, Removing, RemovePCs
    <3> QED BY <2>3, <2>6, <3>1 DEF EnterKind, Steady
  <2>7. CASE UseKind(p)
    <3>1. ~Removing(p) /\ pc'[p] \in UserPCs BY <2>7 DEF UseKind, Removing, RemovePCs
    <3> QED BY <2>3, <2>7, <3>1 DEF UseKind, Steady, UserPCs
  <2>8. CASE CreateKind(p)
    <3>1. p \in Admins /\ \A q \in Admins : ~Removing(q)
      BY <2>8, AdminAt, OneAdmin DEF CreateKind, CreatePCs, UserPCs
    <3>2. PICK d \in Buffers :
            /\ buf[d].state = "freed" /\ loc'[p].node = d
            /\ buf'[d].state = "live" /\ buf'[d].name = loc[p].name
            /\ \A e \in Buffers : e # d => buf'[e] = buf[e]
            /\ proc' = [proc EXCEPT ![loc[p].name] = IF @ = None THEN d ELSE @]
      BY <2>8 DEF CreateKind
    <3>3. /\ list' = list /\ pc'[p] = "add" /\ loc'[p].name = loc[p].name
          /\ \A q \in Procs : q # p => pc'[q] = pc[q] /\ loc'[q] = loc[q]
      BY <2>8 DEF CreateKind
    <3>4. /\ \A n \in Names : n # loc[p].name => proc'[n] = proc[n]
          /\ \A n \in Names : proc[n] # None => proc'[n] = proc[n]
          /\ proc[loc[p].name] = None => proc'[loc[p].name] = d
          /\ d # None
      BY <2>2, <3>2, Constants
    <3>5. \A n \in Names : proc'[n] # None =>
              buf'[proc'[n]].state # "freed" /\ buf'[proc'[n]].name = n
      <4>1. SUFFICES ASSUME NEW n \in Names, proc'[n] # None
                     PROVE  buf'[proc'[n]].state # "freed" /\ buf'[proc'[n]].name = n
        OBVIOUS
      <4>2. CASE proc[n] # None
        <5>1. proc'[n] = proc[n] /\ proc[n] \in Buffers /\ buf[proc[n]].state # "freed"
              /\ buf[proc[n]].name = n
          BY <2>2, <3>4, <4>2 DEF ProcInv
        <5> QED BY <3>2, <5>1
      <4>3. CASE proc[n] = None BY <2>2, <3>2, <3>4, <4>1, <4>3
      <4> QED BY <4>2, <4>3
    <3>6. \A q \in Admins : (Creating(q))' => proc'[loc'[q].name] # None
      BY <2>2, <3>1, <3>3, <3>4 DEF ProcInv, Creating
    <3>7. \A e \in Buffers : ~((Linked(e))' /\ buf'[e].state # "freed" /\ proc'[buf'[e].name] = None)
      <4>1. SUFFICES ASSUME NEW e \in Buffers, Linked(e), buf'[e].state # "freed",
                            proc'[buf'[e].name] = None
                     PROVE  FALSE
        BY <3>3 DEF Linked, Occurs
      <4>2. e # d BY <2>2, <3>2, <3>4, <4>1
      <4>3. buf[e].state # "freed" /\ proc[buf[e].name] = None
        BY <2>2, <3>2, <3>4, <4>1, <4>2
      <4> QED BY <3>1, <4>1, <4>3 DEF ProcInv
    <3> QED BY <3>5, <3>6, <3>7 DEF ProcInv
  <2>9. CASE AddAppend(p)
    <3>1. /\ p \in Admins /\ Creating(p) /\ pc'[p] = "load" /\ \A q \in Admins : ~Removing(q)
          /\ proc' = proc /\ buf' = buf /\ loc' = loc
          /\ \A q \in Procs : q # p => pc'[q] = pc[q]
          /\ \A e : (Linked(e))' <=> Linked(e) \/ e = loc[p].node
      BY <2>9, AppendIs
    <3>2. buf[loc[p].node].name = loc[p].name /\ proc[loc[p].name] # None
      BY <3>1 DEF ListInv, ProcInv
    <3>3. \A q \in Admins : (Creating(q))' => Creating(q) BY <2>2, <3>1 DEF Creating
    <3>4. \A e \in Buffers : ~((Linked(e))' /\ buf[e].state # "freed" /\ proc[buf[e].name] = None)
      BY <3>1, <3>2 DEF ProcInv
    <3> QED BY <3>1, <3>3, <3>4 DEF ProcInv
  <2>10. CASE WalkKind(p)
    <3>1. ~Removing(p) /\ pc'[p] \in {"drain", "idle"} /\ UNCHANGED <<list, proc, buf>>
          /\ \A q \in Procs : q # p => pc'[q] = pc[q] /\ loc'[q] = loc[q]
      BY <2>10 DEF WalkKind, Removing, RemovePCs, Finds, FindsNone
    <3> QED BY <2>3, <3>1
  <2>11. CASE FreeBuffer(p) \/ Unlink(p) \/ Rundown(p)
    <3>1. /\ p \in Admins /\ Removing(p) /\ ~Creating(p) /\ list' = list
          /\ \A q \in Admins : q # p => pc[q] = "idle"
          /\ \A q \in Procs : q # p => pc'[q] = pc[q] /\ loc'[q] = loc[q]
          /\ loc[p].node \in Buffers /\ loc[p].name \in Names
          /\ loc'[p].name = loc[p].name
          /\ \A e \in Buffers : e # loc[p].node => buf'[e] = buf[e]
          /\ pc'[p] \in {"unlink", "rundown", "unlist"}
      BY <2>11, RemovalIs
    <3>2. (Removing(p))' /\ \A q \in Admins : ~(Creating(q))'
      BY <2>2, <3>1 DEF Removing, RemovePCs, Creating
    <3>3. Phase(p) BY <3>1 DEF RemoveInv
    <3>4. CASE pc[p] = "drained"
      <4>1. proc' = proc /\ buf'[loc[p].node].state = "nofifo"
            /\ buf'[loc[p].node].name = buf[loc[p].node].name /\ buf[loc[p].node].state = "live"
        BY <2>11, <3>3, <3>4, RemovalIs DEF Phase
      <4>2. \A e \in Buffers : buf'[e].name = buf[e].name /\ (buf'[e].state = "freed" <=> buf[e].state = "freed")
        BY <3>1, <4>1
      <4>3. \A n \in Names : proc'[n] # None =>
              buf'[proc'[n]].state # "freed" /\ buf'[proc'[n]].name = n
        BY <2>2, <4>1, <4>2 DEF ProcInv
      <4>4. \A e \in Buffers : (Linked(e))' /\ buf'[e].state # "freed" /\ proc'[buf'[e].name] = None
              => loc'[p].name = buf'[e].name
        BY <3>1, <4>1, <4>2 DEF ProcInv, Linked, Occurs, Removing, RemovePCs
      <4> QED BY <3>1, <3>2, <4>3, <4>4 DEF ProcInv
    <3>5. CASE pc[p] = "unlink"
      <4>1. proc' = [proc EXCEPT ![loc[p].name] = None] /\ buf' = buf
        BY <2>11, <3>5, RemovalIs
      <4>2. \A n \in Names : proc'[n] # None =>
              buf'[proc'[n]].state # "freed" /\ buf'[proc'[n]].name = n
        BY <2>2, <4>1 DEF ProcInv
      <4>3. \A e \in Buffers : (Linked(e))' /\ buf[e].state # "freed" /\ proc'[buf[e].name] = None
              => loc'[p].name = buf[e].name
        BY <2>2, <3>1, <4>1 DEF ProcInv, Linked, Occurs, Removing, RemovePCs
      <4> QED BY <3>1, <3>2, <4>1, <4>2, <4>3 DEF ProcInv
    <3>6. CASE pc[p] = "rundown"
      <4>1. proc' = proc /\ buf'[loc[p].node] = Freed BY <2>11, <3>6, RemovalIs
      <4>2. buf[loc[p].node].name = loc[p].name /\ proc[loc[p].name] = None
        BY <3>3, <3>6 DEF Phase
      <4>3. \A n \in Names : proc'[n] # None =>
              buf'[proc'[n]].state # "freed" /\ buf'[proc'[n]].name = n
        <5>1. \A n \in Names : proc[n] # None => proc[n] # loc[p].node BY <2>2, <4>2 DEF ProcInv
        <5> QED BY <2>2, <3>1, <4>1, <5>1 DEF ProcInv
      <4>4. \A e \in Buffers : (Linked(e))' /\ buf'[e].state # "freed" /\ proc'[buf'[e].name] = None
              => loc'[p].name = buf'[e].name
        <5>1. Freed.state = "freed" BY DEF Freed
        <5> QED BY <3>1, <4>1, <5>1 DEF ProcInv, Linked, Occurs, Removing, RemovePCs
      <4> QED BY <3>1, <3>2, <4>3, <4>4 DEF ProcInv
    <3> QED BY <2>11, <3>4, <3>5, <3>6, RemovalIs
  <2>12. CASE UnlistKind(p)
    <3>1. PICK k \in DOMAIN list :
            /\ pc[p] = "unlist" /\ list[k] = loc[p].node
            /\ UNCHANGED <<proc, buf>> /\ list' = RemoveAt(list, k)
            /\ Finds(p, k + 1) \/ FindsNone(p, k + 1)
      BY <2>12 DEF UnlistKind
    <3>2. /\ p \in Admins /\ Removing(p)
          /\ \A q \in Admins : q # p => pc[q] = "idle" /\ ~Creating(q) /\ ~Removing(q)
          /\ pc'[p] \in {"drain", "idle"}
          /\ \A q \in Procs : q # p => pc'[q] = pc[q] /\ loc'[q] = loc[q]
      BY <3>1, OneAdmin DEF Removing, RemovePCs, Finds, FindsNone
    <3>3. \A e : (Linked(e))' <=> Linked(e) /\ e # list[k]
      <4>1. Distinct(list) BY DEF ListInv
      <4> QED BY <2>2, <3>1, <4>1, RemoveAtOne DEF Linked
    <3>4. \A q \in Admins : ~(Creating(q))' BY <2>2, <3>2 DEF Creating
    <3>5. ASSUME NEW e \in Buffers, (Linked(e))', buf'[e].state # "freed", proc'[buf'[e].name] = None
          PROVE  \E q \in Admins : (Removing(q))' /\ loc'[q].name = buf'[e].name
      <4>1. Linked(e) /\ e # list[k] /\ buf[e].name = loc[p].name
        BY <3>1, <3>2, <3>3, <3>5 DEF ProcInv
      <4>2. CASE Finds(p, k + 1)
        BY <3>1, <3>2, <4>1, <4>2 DEF Finds, Removing, RemovePCs
      <4>3. CASE FindsNone(p, k + 1)
        <5>1. PICK j \in DOMAIN list : list[j] = e BY <4>1 DEF Linked, Occurs
        <5>2. \A j2 \in 1 .. k - 1 : buf[list[j2]].name # loc[p].name
          <6>1. Stands(p) BY <3>2 DEF RemoveInv
          <6> QED BY <2>2, <3>1, <6>1 DEF Stands, ListInv, Distinct
        <5>3. j # k /\ j \in Nat /\ k \in Nat /\ j <= Len(list) /\ 1 <= j BY <2>2, <4>1, <5>1
        <5>4. CASE j < k
          <6>1. j \in 1 .. k - 1 BY <5>3, <5>4
          <6> QED BY <4>1, <5>1, <5>2, <6>1
        <5>5. CASE j > k
          <6>1. j \in k + 1 .. Len(list) BY <2>2, <5>3, <5>5
          <6> QED BY <4>1, <4>3, <5>1, <6>1 DEF FindsNone
        <5> QED BY <5>3, <5>4, <5>5
      <4> QED BY <3>1, <4>2, <4>3
    <3>6. \A n \in Names : proc'[n] # None =>
              buf'[proc'[n]].state # "freed" /\ buf'[proc'[n]].name = n
      BY <3>1 DEF ProcInv
    <3> QED BY <3>4, <3>5, <3>6 DEF ProcInv
  <2> QED BY <2>1, <2>4, <2>5, <2>6, <2>7, <2>8, <2>9, <2>10, <2>11, <2>12
<1> QED BY <1>1, <1>2

LEMMA NextUse ==
    ASSUME TypeInv, Control, ListInv, RemoveInv, ProcInv, UseInv, [Next]_vars
    PROVE  UseInv'
<1>1. CASE UNCHANGED vars BY <1>1 DEF vars, admin, UseInv
<1>2. CASE Next
  <2>1. PICK p \in Procs :
              \/ Onward(p) \/ Leave(p) \/ EnterKind(p) \/ UseKind(p) \/ CreateKind(p)
              \/ AddAppend(p) \/ WalkKind(p) \/ FreeBuffer(p) \/ Unlink(p) \/ Rundown(p)
              \/ UnlistKind(p)
    BY <1>2, Kinds
  <2>2. SUFFICES ASSUME NEW u \in Users, pc'[u] # "idle"
                 PROVE  /\ buf'[loc'[u].node].state # "freed"
                        /\ \/ proc'[buf'[loc'[u].node].name] = loc'[u].node
                           \/ \E q \in Admins : /\ pc'[q] = "rundown" /\ loc'[q].reg = loc'[u].node
                                                /\ loc'[q].name = buf'[loc'[u].node].name
    BY DEF UseInv
  <2> DEFINE d == loc[u].node
  <2>3. /\ u \in Procs /\ u \notin Admins /\ Admins \subseteq Procs
        /\ pc[u] # "idle" => /\ d \in Buffers /\ pc[u] \in UserPCs /\ buf[d].name \in Names
    <3>1. pc[u] # "idle" => d \in Buffers /\ pc[u] \in UserPCs
      BY Constants DEF Control
    <3> QED BY <3>1, Constants DEF TypeInv, BufTypes
  <2>4. pc[u] # "idle" =>
            /\ buf[d].state # "freed"
            /\ \/ proc[buf[d].name] = d
               \/ \E q \in Admins : pc[q] = "rundown" /\ loc[q].reg = d /\ loc[q].name = buf[d].name
    BY DEF UseInv
  <2>5. proc \in [Names -> Buffers \cup {None}] /\ buf \in [Buffers -> BufTypes] BY DEF TypeInv
  <2> HIDE DEF d
  \* Steps that keep the directory, u and whoever waits for it.
  <2>6. ASSUME pc[u] # "idle", loc'[u].node = d, buf'[d].state # "freed",
               buf'[d].name = buf[d].name, proc' = proc,
               \A q \in Admins : pc[q] = "rundown" =>
                   pc'[q] = "rundown" /\ loc'[q].reg = loc[q].reg /\ loc'[q].name = loc[q].name
        PROVE  /\ buf'[loc'[u].node].state # "freed"
               /\ \/ proc'[buf'[loc'[u].node].name] = loc'[u].node
                  \/ \E q \in Admins : /\ pc'[q] = "rundown" /\ loc'[q].reg = loc'[u].node
                                       /\ loc'[q].name = buf'[loc'[u].node].name
    BY <2>4, <2>6
  <2>7. CASE Onward(p)
    <3>1. pc[u] # "idle" /\ loc'[u].node = d
      BY <2>2, <2>3, <2>7 DEF Onward, Steady, UserPCs, d
    <3>2. \A q \in Admins : pc[q] = "rundown" =>
             pc'[q] = "rundown" /\ loc'[q].reg = loc[q].reg /\ loc'[q].name = loc[q].name
      BY <2>3, <2>7 DEF Onward, Steady, UserPCs
    <3> QED BY <2>3, <2>4, <2>6, <2>7, <3>1, <3>2 DEF Onward, Steady
  <2>8. CASE Leave(p)
    <3>1. pc[u] # "idle" /\ loc'[u].node = d BY <2>2, <2>3, <2>8 DEF Leave, Steady, d
    <3>2. \A q \in Admins : pc[q] = "rundown" => pc'[q] = "rundown" /\ loc'[q] = loc[q]
      BY <2>3, <2>8 DEF Leave, Steady, UserPCs
    <3> QED BY <2>3, <2>4, <2>6, <2>8, <3>1, <3>2 DEF Leave, Steady
  <2>9. CASE EnterKind(p)
    <3>1. u # p /\ pc[u] # "idle" /\ loc'[u].node = d
      BY <2>2, <2>3, <2>9 DEF EnterKind, Steady, d
    <3>2. \A q \in Admins : pc[q] = "rundown" => pc'[q] = "rundown" /\ loc'[q] = loc[q]
      BY <2>3, <2>9 DEF EnterKind, Steady
    <3> QED BY <2>3, <2>4, <2>6, <2>9, <3>1, <3>2 DEF EnterKind, Steady
  <2>10. CASE UseKind(p)
    <3>1. \A q \in Admins : pc'[q] = pc[q] /\ loc'[q] = loc[q]
      BY <2>3, <2>10, Constants DEF UseKind, Steady
    <3>2. CASE u = p
      <4>1. PICK n \in Names : proc[n] \in Buffers /\ loc'[u].node = proc[n]
        BY <2>10, <3>2 DEF UseKind
      <4>2. buf[proc[n]].state # "freed" /\ buf[proc[n]].name = n
        BY <4>1, Constants DEF ProcInv
      <4> QED BY <2>10, <4>1, <4>2 DEF UseKind, Steady
    <3>3. CASE u # p
      <4>1. pc[u] # "idle" /\ loc'[u].node = d BY <2>2, <2>3, <2>10, <3>3 DEF UseKind, Steady, d
      <4> QED BY <2>3, <2>4, <2>6, <2>10, <3>1, <4>1 DEF UseKind, Steady
    <3> QED BY <3>2, <3>3
  <2>11. CASE CreateKind(p)
    <3>1. p \in Admins /\ \A q \in Admins : ~Removing(q)
      BY <2>11, AdminAt, OneAdmin DEF CreateKind, CreatePCs, UserPCs
    <3>2. PICK e \in Buffers :
            /\ buf[e].state = "freed"
            /\ \A f \in Buffers : f # e => buf'[f] = buf[f]
            /\ proc' = [proc EXCEPT ![loc[p].name] = IF @ = None THEN e ELSE @]
            /\ \A q \in Procs : q # p => pc'[q] = pc[q] /\ loc'[q] = loc[q]
      BY <2>11 DEF CreateKind
    <3>3. pc[u] # "idle" /\ loc'[u].node = d BY <2>2, <2>3, <3>1, <3>2 DEF d
    <3>4. d # e /\ proc[buf[d].name] = d
      BY <2>4, <3>1, <3>2, <3>3 DEF Removing, RemovePCs
    <3>5. buf'[d] = buf[d]
      <4>1. d \in Buffers BY <2>3, <3>3
      <4> QED BY <3>2, <3>4, <4>1
    <3>7. proc'[buf[d].name] = d
      <4>1. buf[d].name \in Names /\ d # None BY <2>3, <3>3, Constants
      <4>2. proc' = [proc EXCEPT ![loc[p].name] = IF @ = None THEN e ELSE @] BY <3>2
      <4> QED BY <2>5, <3>4, <4>1, <4>2
    <3> QED BY <2>4, <3>3, <3>5, <3>7
  <2>12. CASE AddAppend(p)
    <3>1. pc'[p] = "load" /\ p \in Admins /\ proc' = proc /\ buf' = buf /\ loc' = loc
          /\ pc[p] = "append" /\ \A q \in Procs : q # p => pc'[q] = pc[q]
      BY <2>12, AppendIs
    <3>2. pc[u] # "idle" /\ loc'[u].node = d BY <2>2, <2>3, <3>1 DEF d
    <3> QED BY <2>3, <2>4, <2>6, <3>1, <3>2
  <2>13. CASE WalkKind(p) \/ UnlistKind(p)
    <3>1. /\ pc[p] \in {"walk", "unlist"} /\ proc' = proc /\ buf' = buf
          /\ \A q \in Procs : q # p => pc'[q] = pc[q] /\ loc'[q] = loc[q]
      BY <2>13 DEF WalkKind, UnlistKind, Finds, FindsNone
    <3>2. p \in Admins BY <3>1, OneAdmin DEF RemovePCs
    <3>3. pc[u] # "idle" /\ loc'[u].node = d BY <2>2, <2>3, <3>1, <3>2 DEF d
    <3> QED BY <2>3, <2>4, <2>6, <3>1, <3>3
  <2>14. CASE FreeBuffer(p) \/ Unlink(p) \/ Rundown(p)
    <3>1. /\ p \in Admins /\ Removing(p)
          /\ \A q \in Admins : q # p => pc[q] = "idle"
          /\ \A q \in Procs : q # p => pc'[q] = pc[q] /\ loc'[q] = loc[q]
          /\ loc[p].node \in Buffers /\ loc[p].name \in Names
          /\ loc'[p].name = loc[p].name
          /\ \A e \in Buffers : e # loc[p].node => buf'[e] = buf[e]
      BY <2>14, RemovalIs
    <3>2. pc[u] # "idle" /\ loc'[u].node = d BY <2>2, <2>3, <3>1 DEF d
    <3>3. Phase(p) BY <3>1 DEF RemoveInv
    <3>4. CASE pc[p] = "drained"
      <4>1. proc' = proc /\ buf'[loc[p].node].state = "nofifo"
            /\ buf'[loc[p].node].name = buf[loc[p].node].name
        BY <2>14, <3>4, RemovalIs
      <4>2. buf'[d].state # "freed" /\ buf'[d].name = buf[d].name
        BY <2>3, <2>4, <3>1, <3>2, <4>1
      <4> QED BY <2>6, <3>1, <3>2, <3>4, <4>1, <4>2
    <3>5. CASE pc[p] = "unlink"
      <4>1. /\ proc' = [proc EXCEPT ![loc[p].name] = None] /\ buf' = buf
            /\ pc'[p] = "rundown" /\ loc'[p].reg = proc[loc[p].name]
        BY <2>14, <3>5, RemovalIs
      <4>2. proc[buf[d].name] = d BY <2>4, <3>1, <3>2, <3>5
      <4>3. CASE buf[d].name = loc[p].name BY <2>4, <3>1, <3>2, <4>1, <4>2, <4>3
      <4>4. CASE buf[d].name # loc[p].name
        BY <2>3, <2>4, <2>5, <3>2, <4>1, <4>2, <4>4
      <4> QED BY <4>3, <4>4
    <3>6. CASE pc[p] = "rundown"
      <4>1. proc' = proc /\ Using(loc[p].reg) = {} BY <2>14, <3>6, RemovalIs
      <4>2. loc[p].reg # d BY <3>2, <4>1 DEF Using, d
      <4>3. proc[buf[d].name] = d BY <2>4, <3>1, <3>2, <4>2
      <4>4. d # loc[p].node BY <2>3, <3>2, <3>3, <3>6, <4>3, Constants DEF Phase
      <4>5. buf'[d] = buf[d] BY <2>3, <3>1, <3>2, <4>4
      <4> QED BY <2>4, <3>2, <4>1, <4>3, <4>5
    <3> QED BY <2>14, <3>4, <3>5, <3>6 DEF FreeBuffer, Unlink, Rundown
  <2> QED BY <2>1, <2>7, <2>8, <2>9, <2>10, <2>11, <2>12, <2>13, <2>14
<1> QED BY <1>1, <1>2

LEMMA NextStore ==
    ASSUME TypeInv, Control, ListInv, RemoveInv, StoreInv, [Next]_vars
    PROVE  StoreInv'
<1>1. CASE UNCHANGED vars BY <1>1 DEF vars, StoreInv
<1>2. CASE Next
  <2>1. PICK p \in Procs : Call(p) \/ Run(p) \/ Interrupt(p) BY <1>2 DEF Next
  <2>2. SUFFICES ASSUME NEW d \in Buffers, buf'[d].state # "live" PROVE buf'[d].stored = 0
    BY DEF StoreInv
  <2>3. buf'[d] = buf[d] => buf'[d].stored = 0 BY <2>2 DEF StoreInv
  <2>4. CASE AsideKind(p) BY <2>3, <2>4 DEF AsideKind
  <2>5. ASSUME NEW e \in Buffers, WorkKind(p, e) PROVE buf'[d].stored = 0
    <3>1. CASE e = d
      <4>1. buf'[d].state = buf[d].state BY <2>5, <3>1 DEF WorkKind, Works
      <4>2. buf[d].stored = 0 /\ ~Room(d) BY <2>2, <4>1 DEF StoreInv, Room
      <4>3. buf'[d].stored \in {buf[d].stored, Fewer(buf[d].stored)}
        BY <2>5, <3>1, <4>2 DEF WorkKind, Works
      <4> QED BY <4>2, <4>3 DEF Fewer
    <3>2. CASE e # d
      <4>1. buf'[d] = buf[d] BY <2>5, <3>2 DEF WorkKind, Works
      <4> QED BY <2>3, <4>1
    <3> QED BY <3>1, <3>2
  <2>6. ASSUME NEW e \in Buffers, AllocKind(p, e) PROVE buf'[d].stored = 0
    <3>1. e = d => buf'[d].state = "live" BY <2>6 DEF AllocKind, NewBuffer
    <3> QED BY <2>2, <2>3, <2>6, <3>1 DEF AllocKind
  <2>7. ASSUME NEW e \in Buffers, FreeKind(p, e) PROVE buf'[d].stored = 0
    <3>1. e = d => buf'[d].stored = 0 BY <2>7 DEF FreeKind, Freed
    <3> QED BY <2>3, <2>7, <3>1 DEF FreeKind
  <2> QED BY <2>1, <2>4, <2>5, <2>6, <2>7, BufferKinds
<1> QED BY <1>1, <1>2

-----------------------------------------------------------------------------
(* What calls work on, and what the list says. *)

\* The parts that only hold together.
CoreInv ==
    TypeInv /\ Control /\ ListInv /\ RemoveInv /\ ProcInv /\ UseInv /\ MtxInv /\ StoreInv

LEMMA InitCore == Init => CoreInv
BY InitTypes, InitControl, InitList, InitMtx DEF CoreInv

LEMMA NextCore == CoreInv /\ [Next]_vars => CoreInv'
BY NextTypes, NextControl, NextList, NextRemove, NextProc, NextUse, NextMtx, NextStore DEF CoreInv

LEMMA AlwaysCore == Spec => []CoreInv
<1>1. Init => CoreInv BY InitCore
<1>2. CoreInv /\ [Next]_vars => CoreInv' BY NextCore
<1> QED BY <1>1, <1>2, PTL DEF Spec

LEMMA CoreUse == CoreInv => DataOutlivesCalls
<1> SUFFICES ASSUME CoreInv, NEW u \in Users, pc[u] # "idle"
             PROVE  buf[loc[u].node].state \in {"live", "nofifo"}
  BY DEF DataOutlivesCalls
<1>1. buf[loc[u].node].state # "freed" BY DEF CoreInv, UseInv
<1>2. loc[u].node \in Buffers BY Constants DEF CoreInv, Control
<1> QED BY <1>1, <1>2 DEF CoreInv, TypeInv, BufTypes

LEMMA CoreList == CoreInv => ListMatchesProc
<1> SUFFICES ASSUME CoreInv, \A p \in Admins : pc[p] = "idle"
             PROVE  /\ \A n \in Names : proc[n] # None <=> Listed(n)
                    /\ \A n \in Names : proc[n] # None =>
                          /\ buf[proc[n]].name = n
                          /\ \E i \in DOMAIN list : list[i] = proc[n]
                    /\ \A i \in DOMAIN list : buf[list[i]].state = "live"
  BY DEF ListMatchesProc
<1>1. \A p \in Admins : ~Creating(p) /\ ~Removing(p) BY DEF Creating, Removing, RemovePCs
<1>2. /\ list \in Seq(Buffers) /\ \A i \in DOMAIN list : list[i] \in Buffers
      /\ proc \in [Names -> Buffers \cup {None}]
  BY ElementOfSeq DEF CoreInv, TypeInv
<1>3. \A i \in DOMAIN list : buf[list[i]].state = "live"
  <2>1. \A i \in DOMAIN list : Linked(list[i]) BY DEF Linked, Occurs
  <2> QED BY <1>2, <2>1 DEF CoreInv, ListInv
<1>4. ASSUME NEW n \in Names, proc[n] # None
      PROVE  buf[proc[n]].name = n /\ \E i \in DOMAIN list : list[i] = proc[n]
  <2>1. proc[n] \in Buffers /\ buf[proc[n]].state # "freed" /\ buf[proc[n]].name = n
    BY <1>2, <1>4 DEF CoreInv, ProcInv
  <2>2. Linked(proc[n]) BY <1>1, <2>1 DEF CoreInv, ListInv
  <2> QED BY <2>1, <2>2 DEF Linked, Occurs
<1>5. ASSUME NEW n \in Names, Listed(n) PROVE proc[n] # None
  <2>1. PICK i \in DOMAIN list : buf[list[i]].name = n BY <1>5 DEF Listed
  <2>2. Linked(list[i]) /\ list[i] \in Buffers /\ buf[list[i]].state = "live"
    BY <1>2, <1>3 DEF Linked, Occurs
  <2> QED BY <1>1, <2>1, <2>2 DEF CoreInv, ProcInv
<1>6. \A n \in Names : proc[n] # None => Listed(n) BY <1>4 DEF Listed
<1> QED BY <1>3, <1>4, <1>5, <1>6

\* A buffer is not freed while a write() or a read() on it is in progress: for
\* remove_proc_entry() waits for those that began before it, use_pde() lets no
\* other begin, and a name that is registered twice has one buffer in /proc.
THEOREM CallsHaveTheirBuffer == Spec => []DataOutlivesCalls
<1>1. CoreInv => DataOutlivesCalls BY CoreUse
<1> QED BY <1>1, AlwaysCore, PTL

\* When admin_write() is in no call, the names in /proc are those of the list,
\* and no node has a buffer that has been freed.
THEOREM ListAndDirectoryAgree == Spec => []ListMatchesProc
<1>1. CoreInv => ListMatchesProc BY CoreList
<1> QED BY <1>1, AlwaysCore, PTL

-----------------------------------------------------------------------------
(* The mutex of the list, and what may go wrong without it. *)

\* What a step does to the mutex of the list and to the marks.
LEMMA ListSteps ==
    ASSUME TypeInv, NEW p \in Procs, Call(p) \/ Run(p) \/ Interrupt(p)
    PROVE  /\ \A q \in Procs : q # p => pc'[q] = pc[q]
           /\ \/ unlocked' = TRUE
              \/ /\ unlocked' = unlocked
                 /\ Moves(sem_list, 1, sem_list', 1, p, pc[p], pc'[p], ListPCs, {})
           /\ \/ misuse' = misuse
              \/ Exists(p) \/ AddAppend(p) \/ Walk(p) \/ DrainFree(p) \/ FreeBuffer(p) \/ Unlist(p)
           /\ \/ overlapped' = overlapped
              \/ Walk(p) \/ Unlist(p) \/ CallWrite(p) \/ CallRead(p)
<1> DEFINE Others == \A q \in Procs : q # p => pc'[q] = pc[q]
<1>1. pc \in [Procs -> PCs] BY DEF TypeInv
<1>2. \A a : Goto(p, a) => Others /\ pc'[p] = a BY <1>1 DEF Goto
<1>3. Return(p) => Others /\ pc'[p] = "idle" BY <1>1 DEF Return, Goto
<1>4. ASSUME pc[p] \notin ListPCs, pc'[p] \notin ListPCs, sem_list' = sem_list
      PROVE  Moves(sem_list, 1, sem_list', 1, p, pc[p], pc'[p], ListPCs, {})
  BY <1>4 DEF Moves
<1>5. ASSUME pc[p] \notin ListPCs, pc'[p] \in ListPCs, sem_list' = Down(sem_list, p)
      PROVE  Moves(sem_list, 1, sem_list', 1, p, pc[p], pc'[p], ListPCs, {})
  BY <1>5 DEF Moves
<1>6. ASSUME pc[p] \in ListPCs, ~Waiting(sem_list, p), pc'[p] \notin ListPCs,
             sem_list' = Up(sem_list)
      PROVE  Moves(sem_list, 1, sem_list', 1, p, pc[p], pc'[p], ListPCs, {})
  BY <1>6 DEF Moves
<1> USE DEF ListPCs
<1>7. CASE CallWrite(p) \/ CallRead(p)
  <2>1. PICK place \in {"gap", "elem"} : pc[p] = "idle" /\ \E d : EnterBuffer(p, d, place)
    <3>1. CASE CallWrite(p)
      <4>1. PICK n \in Names : pc[p] = "idle" /\ EnterBuffer(p, proc[n], "gap")
        BY <3>1, Zenon DEF CallWrite
      <4> QED BY <4>1
    <3>2. CASE CallRead(p)
      <4>1. PICK n \in Names : pc[p] = "idle" /\ EnterBuffer(p, proc[n], "elem")
        BY <3>2, Zenon DEF CallRead
      <4> QED BY <4>1
    <3> QED BY <1>7, <3>1, <3>2
  <2>2. UNCHANGED <<sem_list, unlocked, misuse>> /\ Goto(p, place)
    BY <2>1 DEF EnterBuffer, admin
  <2>3. Others /\ pc'[p] \in {"gap", "elem"} BY <1>2, <2>2
  <2> QED BY <1>4, <1>7, <2>1, <2>2, <2>3
<1>8. CASE CallNew(p) \/ CallDelete(p)
  <2>1. PICK op, n : pc[p] = "idle" /\ EnterAdmin(p, op, n)
    BY <1>8, Zenon DEF CallNew, CallDelete
  <2>2. /\ UNCHANGED <<unlocked, misuse, overlapped>> /\ pc[p] = "idle" /\ pc'[p] = "exists"
        /\ Others /\ sem_list' = Down(sem_list, p)
    BY <1>2, <2>1 DEF EnterAdmin, ghost
  <2> QED BY <1>5, <2>2
<1>9. CASE Exists(p)
  <2>1. /\ UNCHANGED <<unlocked, overlapped>> /\ pc[p] = "exists" /\ ~Waiting(sem_list, p)
        /\ sem_list' = Up(sem_list)
    BY <1>9 DEF Exists, Granted, ghost
  <2>2. \/ Return(p)
        \/ Goto(p, IF loc[p].op = "new" THEN "create" ELSE "remove")
    BY <1>9, Zenon DEF Exists
  <2>3. Others /\ pc'[p] \in {"idle", "create", "remove"} BY <1>2, <1>3, <2>2
  <2> QED BY <1>6, <1>9, <2>1, <2>3
<1>10. CASE Create(p)
  <2>1. UNCHANGED <<sem_list, unlocked, misuse, overlapped>> /\ pc[p] = "create"
    BY <1>10 DEF Create, ghost
  <2>2. Return(p) \/ Goto(p, "add") BY <1>10 DEF Create
  <2>3. Others /\ pc'[p] \in {"idle", "add"} BY <1>2, <1>3, <2>2
  <2> QED BY <1>4, <2>1, <2>3
<1>11. CASE AddLock(p) \/ RemoveLock(p)
  <2>1. /\ UNCHANGED <<unlocked, misuse, overlapped>> /\ pc[p] \in {"add", "remove"}
        /\ sem_list' = Down(sem_list, p)
        /\ Goto(p, "append") \/ Goto(p, "walk")
    BY <1>11 DEF AddLock, RemoveLock, ghost
  <2>2. Others /\ pc'[p] \in {"append", "walk"} BY <1>2, <2>1
  <2> QED BY <1>5, <2>1, <2>2
<1>12. CASE AddAppend(p)
  <2>1. /\ UNCHANGED <<unlocked, overlapped>> /\ pc[p] = "append" /\ ~Waiting(sem_list, p)
        /\ sem_list' = Up(sem_list) /\ Goto(p, "load")
    BY <1>12 DEF AddAppend, Granted, ghost
  <2>2. Others /\ pc'[p] = "load" BY <1>2, <2>1
  <2> QED BY <1>6, <1>12, <2>1, <2>2
<1>13. CASE AddLoad(p) \/ AddStore(p)
  <2>1. /\ UNCHANGED <<sem_list, unlocked, misuse, overlapped>> /\ pc[p] \in {"load", "count"}
        /\ Goto(p, "count") \/ Return(p)
    BY <1>13 DEF AddLoad, AddStore, admin, ghost
  <2>2. Others /\ pc'[p] \in {"idle", "count"} BY <1>2, <1>3, <2>1
  <2> QED BY <1>4, <2>1, <2>2
<1>14. CASE Walk(p) \/ Unlist(p)
  <2>1. PICK rest : WalkOn(p, rest) BY <1>14 DEF Walk, Unlist
  <2>2. /\ unlocked' = unlocked /\ pc[p] \in {"walk", "unlist"} /\ ~Waiting(sem_list, p)
    BY <1>14 DEF Walk, Unlist, Granted
  <2>3. sem_list' = Up(sem_list) /\ (Return(p) \/ Goto(p, "drain")) BY <2>1 DEF WalkOn
  <2>4. Others /\ pc'[p] \in {"idle", "drain"} BY <1>2, <1>3, <2>3
  <2> QED BY <1>6, <1>14, <2>2, <2>3, <2>4
<1>15. CASE DrainLock(p) \/ DrainTake(p) \/ DrainDone(p) \/ FreeBuffer(p) \/ DrainFree(p)
  <2> DEFINE Places == {"drain", "drainlock", "drainup", "drained", "unlink"}
  <2>1. /\ UNCHANGED <<sem_list, unlocked, overlapped>>
        /\ pc[p] \in {"drain", "drainlock", "drainup", "drained"}
        /\ \E a \in Places : Goto(p, a)
    BY <1>15 DEF DrainLock, DrainTake, DrainDone, FreeBuffer, DrainFree, Granted, admin, ghost
  <2>2. misuse' = misuse \/ FreeBuffer(p) \/ DrainFree(p)
    BY <1>15 DEF DrainLock, DrainTake, DrainDone
  <2>3. Others /\ pc'[p] \in Places BY <1>2, <2>1
  <2> QED BY <1>4, <2>1, <2>2, <2>3
<1>16. CASE Unlink(p)
  <2>1. UNCHANGED <<sem_list, unlocked, misuse, overlapped>> /\ pc[p] = "unlink"
        /\ Goto(p, "rundown")
    BY <1>16 DEF Unlink, ghost
  <2>2. Others /\ pc'[p] = "rundown" BY <1>2, <2>1
  <2> QED BY <1>4, <2>1, <2>2
<1>17. CASE Rundown(p)
  <2>1. /\ UNCHANGED <<unlocked, misuse, overlapped>> /\ pc[p] = "rundown"
        /\ sem_list' = Down(sem_list, p) /\ Goto(p, "unlist")
    BY <1>17 DEF Rundown, ghost
  <2>2. Others /\ pc'[p] = "unlist" BY <1>2, <2>1
  <2> QED BY <1>5, <2>1, <2>2
<1>18. CASE WriteLock(p) \/ WritePut(p) \/ WritePost(p) \/ WriteUndo(p) \/ Message(p)
  <2>1. /\ UNCHANGED <<sem_list, unlocked, misuse, overlapped>>
        /\ pc[p] \in {"gap", "wlock", "post", "wundo", "print"}
        /\ Goto(p, "wlock") \/ Goto(p, "post") \/ Goto(p, "print") \/ Return(p)
    BY <1>18 DEF WriteLock, WritePut, WritePost, WriteUndo, Message, Granted, admin, ghost
  <2>2. Others /\ pc'[p] \in {"idle"} \cup UserPCs BY <1>2, <1>3, <2>1 DEF UserPCs
  <2> QED BY <1>4, <2>1, <2>2 DEF UserPCs
<1>19. CASE ReadLock(p) \/ ReadTake(p) \/ ReadFree(p) \/ ReadUndo(p)
  <2>1. /\ UNCHANGED <<sem_list, unlocked, misuse, overlapped>>
        /\ pc[p] \in {"elem", "rlock", "free", "rundo"}
        /\ Goto(p, "rlock") \/ Goto(p, "free") \/ Goto(p, "print") \/ Return(p)
    BY <1>19 DEF ReadLock, ReadTake, ReadFree, ReadUndo, Granted, admin, ghost
  <2>2. Others /\ pc'[p] \in {"idle"} \cup UserPCs BY <1>2, <1>3, <2>1 DEF UserPCs
  <2> QED BY <1>4, <2>1, <2>2 DEF UserPCs
<1>20. CASE InterruptWait(p) \/ InterruptLock(p)
  <2>1. /\ UNCHANGED <<sem_list, unlocked, misuse, overlapped>>
        /\ pc[p] \in {"gap", "elem", "wlock", "rlock", "drainlock"}
        /\ Goto(p, IF pc[p] = "wlock" THEN "wundo" ELSE "rundo") \/ Return(p)
    BY <1>20 DEF InterruptWait, InterruptLock, admin, ghost
  <2>2. Others /\ pc'[p] \in {"idle"} \cup UserPCs BY <1>2, <1>3, <2>1 DEF UserPCs
  <2> QED BY <1>4, <2>1, <2>2 DEF UserPCs
<1>21. CASE InterruptList(p)
  <2>1. unlocked' = TRUE /\ pc' = pc /\ misuse' = misuse /\ overlapped' = overlapped
    BY <1>21 DEF InterruptList
  <2> QED BY <2>1
<1>22. CASE Run(p)
  BY <1>9, <1>10, <1>11, <1>12, <1>13, <1>14, <1>15, <1>16, <1>17, <1>18, <1>19, <1>22
  DEF Run, RunAdmin, RunUser
<1>23. CASE Call(p) BY <1>7, <1>8, <1>23 DEF Call
<1>24. CASE Interrupt(p) BY <1>20, <1>21, <1>24 DEF Interrupt
<1> QED BY <1>22, <1>23, <1>24

LEMMA InitListMtx == Init => ListMtxInv /\ QuietInv /\ MemInv
<1> SUFFICES ASSUME Init PROVE ListMtxInv /\ QuietInv /\ MemInv OBVIOUS
<1>1. sem_list = SemInit(1) /\ misuse = FALSE /\ \A q \in Procs : pc[q] = "idle" BY DEF Init
<1>2. \A q \in Procs : pc[q] \notin ListPCs \cup {} BY <1>1 DEF ListPCs
<1>3. IsFiniteSet(Procs) /\ 1 \in Nat BY Constants
<1>4. Account(Procs, sem_list, pc, ListPCs, {}, 1) BY <1>1, <1>2, <1>3, AccountInit
<1>5. QuietInv BY <1>1, Constants DEF QuietInv, Removing, RemovePCs
<1> QED BY <1>1, <1>4, <1>5 DEF ListMtxInv, MemInv

LEMMA NextListMtx ==
    ASSUME TypeInv, ListMtxInv, [Next]_vars
    PROVE  ListMtxInv'
<1>1. CASE UNCHANGED vars BY <1>1 DEF vars, admin, ghost, ListMtxInv
<1>2. CASE Next
  <2>1. PICK p \in Procs : Call(p) \/ Run(p) \/ Interrupt(p) BY <1>2 DEF Next
  <2>2. SUFFICES ASSUME unlocked' # TRUE
                 PROVE  Account(Procs, sem_list', pc', ListPCs, {}, 1)
    BY Zenon DEF ListMtxInv
  <2>3. /\ unlocked' = unlocked
        /\ Moves(sem_list, 1, sem_list', 1, p, pc[p], pc'[p], ListPCs, {})
        /\ \A q \in Procs : q # p => pc'[q] = pc[q]
    BY <2>1, <2>2, ListSteps
  <2>4. Account(Procs, sem_list, pc, ListPCs, {}, 1) BY <2>2, <2>3 DEF ListMtxInv, TypeInv
  <2> QED BY <2>3, <2>4, AccountStep
<1> QED BY <1>1, <1>2

\* A wait for the mutex that was not interrupted ends with the list to itself.
LEMMA ListAlone ==
    ASSUME ListMtxInv, ~unlocked, NEW p \in Procs, pc[p] \in ListPCs, ~Waiting(sem_list, p)
    PROVE  Alone(p)
<1>1. Account(Procs, sem_list, pc, ListPCs, {}, 1) BY DEF ListMtxInv
<1>2. \A q, r \in Held(Procs, sem_list, pc, ListPCs, {}) : q = r BY <1>1, AccountOne
<1>3. \A q \in Procs : OwnsList(q) => q \in Held(Procs, sem_list, pc, ListPCs, {})
  BY DEF OwnsList, Held, ListPCs
<1>4. p \in Held(Procs, sem_list, pc, ListPCs, {}) BY DEF Held
<1> QED BY <1>2, <1>3, <1>4 DEF Alone

\* A walk meets no buffer that has been freed.
LEMMA NothingFreed ==
    ASSUME CoreInv, NEW p \in Procs, pc[p] \in {"exists", "walk"}, NEW i \in DOMAIN list
    PROVE  buf[list[i]].state # "freed"
<1>1. list[i] \in Buffers /\ Linked(list[i]) BY ElementOfSeq DEF CoreInv, TypeInv, Linked, Occurs
<1>2. SUFFICES ASSUME buf[list[i]].state = "freed" PROVE FALSE OBVIOUS
<1>3. PICK q \in Admins : pc[q] \in {"unlink", "rundown", "unlist"}
  BY <1>1, <1>2 DEF CoreInv, ListInv
<1>4. q \in Procs /\ p \in Admins /\ p # q
  BY <1>3, Constants, AdminAt DEF CoreInv, UserPCs
<1>5. pc[p] = "idle" BY <1>3, <1>4, OneAdmin DEF CoreInv, RemovePCs
<1> QED BY <1>5

\* A process that is in no call can only begin one.
LEMMA IdleCalls ==
    ASSUME NEW p \in Procs, Call(p) \/ Run(p) \/ Interrupt(p), pc[p] = "idle"
    PROVE  Call(p)
BY DEF Run, RunAdmin, RunUser, Interrupt, Exists, Create, AddLock, AddAppend, AddLoad,
       AddStore, RemoveLock, Walk, DrainLock, DrainTake, DrainFree, DrainDone, FreeBuffer, Unlink,
       Rundown, Message, Unlist, WriteLock, WritePut, WritePost, WriteUndo, ReadLock, ReadTake, ReadFree, ReadUndo,
       InterruptWait, InterruptLock, InterruptList, Granted

\* Nobody else is in admin_write() while r removes.
LEMMA WhileRemoving ==
    ASSUME CoreInv, NEW p \in Procs, Call(p) \/ Run(p) \/ Interrupt(p),
           NEW r \in Admins, Removing(r), r # p
    PROVE  /\ p \in Users
           /\ Onward(p) \/ Leave(p) \/ UseKind(p)
           /\ \E d \in Buffers : WorkKind(p, d)
<1>1. r \in Procs /\ loc[r].op = "delete" BY Constants DEF CoreInv, Control, Removing, RemovePCs
<1>2. p \in Admins => pc[p] = "idle" BY <1>1, OneAdmin DEF CoreInv
<1>3. p \notin Admins
  <2>1. SUFFICES ASSUME p \in Admins PROVE FALSE OBVIOUS
  <2>2. pc[p] = "idle" /\ p \notin Users BY <1>2, <2>1, Constants
  <2>3. CallNew(p) \/ CallDelete(p) BY <2>2, IdleCalls DEF Call, Users
  <2>4. ~NobodyDeletes BY <1>1 DEF NobodyDeletes
  <2>5. ~AdminIdle(p) BY <1>1 DEF AdminIdle, Removing, RemovePCs
  <2> QED BY <2>3, <2>4, <2>5 DEF CallNew, CallDelete
<1>4. p \in Users BY <1>3, Constants
<1>5. pc[p] \in {"idle"} \cup UserPCs BY <1>4 DEF CoreInv, Control
<1>6. Onward(p) \/ Leave(p) \/ UseKind(p)
  <2>1. \/ Onward(p) \/ Leave(p) \/ EnterKind(p) \/ UseKind(p) \/ CreateKind(p)
        \/ AddAppend(p) \/ WalkKind(p) \/ FreeBuffer(p) \/ Unlink(p) \/ Rundown(p)
        \/ UnlistKind(p)
    BY KindsOf DEF CoreInv
  <2> QED BY <1>3, <1>5, <2>1 DEF EnterKind, CreateKind, AddAppend, WalkKind, FreeBuffer, Unlink,
        Rundown, UnlistKind, Granted, UserPCs
<1>7. \E d \in Buffers : WorkKind(p, d)
  <2>1. \/ AsideKind(p)
        \/ \E d \in Buffers : WorkKind(p, d) \/ AllocKind(p, d) \/ FreeKind(p, d)
    BY BufferKinds DEF CoreInv
  <2>2. ~AsideKind(p)
    <3>1. CASE pc[p] = "idle"
      <4>1. UseKind(p) BY <1>3, <3>1, IdleCalls, CallKinds DEF EnterKind, CoreInv
      <4> QED BY <4>1 DEF UseKind, AsideKind, BufferPCs
    <3> QED BY <1>5, <3>1 DEF AsideKind, BufferPCs
  <2> QED BY <1>5, <2>1, <2>2 DEF AllocKind, CreateKind, FreeKind, UserPCs
<1> QED BY <1>4, <1>6, <1>7

\* A call on a buffer that is being removed is noted.
LEMMA EnterNoted ==
    ASSUME CoreInv, NEW p \in Procs, CallWrite(p) \/ CallRead(p),
           NEW r \in Admins, Removing(r)
    PROVE  /\ overlapped \subseteq overlapped'
           /\ buf[loc'[p].node].name = loc[r].name => loc[r].name \in overlapped'
<1>1. PICK n \in Names : \E place : EnterBuffer(p, proc[n], place)
  <2>1. CASE CallWrite(p) BY <2>1, Zenon DEF CallWrite
  <2>2. CASE CallRead(p) BY <2>2, Zenon DEF CallRead
  <2> QED BY <2>1, <2>2
<1> DEFINE m == buf[proc[n]].name
<1>2. /\ loc' = [loc EXCEPT ![p].node = proc[n]]
      /\ overlapped' = IF Deleting(m) THEN overlapped \cup {m} ELSE overlapped
  BY <1>1 DEF EnterBuffer
<1>3. loc'[p].node = proc[n] BY <1>2 DEF CoreInv, TypeInv, Locals
<1>4. loc[r].op = "delete" /\ r \in Procs BY Constants DEF CoreInv, Control, Removing
<1>5. Deleting(loc[r].name) BY <1>4 DEF Deleting, Removing, RemovePCs
<1> QED BY <1>2, <1>3, <1>5

\* A step of a buffer is one of a process in a call on it.
LEMMA WorkAt ==
    ASSUME NEW p \in Procs, NEW d \in Buffers, WorkKind(p, d)
    PROVE  /\ (pc[p] # "idle" /\ loc[p].node = d) \/ (pc'[p] # "idle" /\ loc'[p].node = d)
           /\ \A e \in Buffers : e # d => buf'[e] = buf[e]
           /\ buf'[d].state = buf[d].state /\ buf'[d].name = buf[d].name
           /\ buf'[d].isInt = buf[d].isInt
           /\ \A q \in Procs : q # p => pc'[q] = pc[q] /\ loc'[q] = loc[q]
           /\ pc'[p] = "drainlock" => /\ pc[p] = "drain" /\ ~buf[d].isInt /\ buf[d].stored > 0
                                      /\ buf'[d].stored = buf[d].stored
           /\ pc'[p] = "drainup" => /\ pc[p] = "drainlock"
                                    /\ buf[d].stored > 0 => loc'[p].got = "string"
<1>1. ASSUME NEW a, NEW b, NEW m, NEW g, NEW e, NEW n, Works(p, d, a, b, m, g, e, n)
      PROVE  /\ pc[p] = a /\ pc'[p] = b /\ buf'[d].stored = n
             /\ a # "idle" => loc[p].node = d
             /\ b # "idle" => loc'[p].node = d
             /\ \A x \in Buffers : x # d => buf'[x] = buf[x]
             /\ buf'[d].state = buf[d].state /\ buf'[d].name = buf[d].name
             /\ buf'[d].isInt = buf[d].isInt
             /\ \A q \in Procs : q # p => pc'[q] = pc[q] /\ loc'[q] = loc[q]
  BY <1>1, Zenon DEF Works
<1>2. PICK a, b : (\E m, g, e, n : Works(p, d, a, b, m, g, e, n)) /\ (a # "idle" \/ b # "idle")
  <2>1. CASE \E b, m, g, e, n : b # "idle" /\ Works(p, d, "idle", b, m, g, e, n)
    BY <2>1
  <2>2. CASE \E a, b, m, g, e, n : a # "idle" /\ Works(p, d, a, b, m, g, e, n)
    BY <2>2
  <2>3. \/ \E b, m, g, e, n : b # "idle" /\ Works(p, d, "idle", b, m, g, e, n)
        \/ \E a, b, m, g, e, n : a # "idle" /\ Works(p, d, a, b, m, g, e, n)
    BY SMTT(60) DEF WorkKind
  <2> QED BY <2>1, <2>2, <2>3
<1>3. PICK m, g, e, n : Works(p, d, a, b, m, g, e, n) BY <1>2
<1>4. pc'[p] = "drainlock" => /\ pc[p] = "drain" /\ ~buf[d].isInt /\ buf[d].stored > 0
                              /\ buf'[d].stored = buf[d].stored
  BY <1>1, SMTT(60) DEF WorkKind
<1>5. pc'[p] = "drainup" => /\ pc[p] = "drainlock"
                            /\ buf[d].stored > 0 => loc'[p].got = "string"
  BY <1>1, SMTT(60) DEF WorkKind, Strings
<1>6. /\ pc[p] = a /\ pc'[p] = b
      /\ a # "idle" => loc[p].node = d
      /\ b # "idle" => loc'[p].node = d
      /\ \A x \in Buffers : x # d => buf'[x] = buf[x]
      /\ buf'[d].state = buf[d].state /\ buf'[d].name = buf[d].name
      /\ buf'[d].isInt = buf[d].isInt
      /\ \A q \in Procs : q # p => pc'[q] = pc[q] /\ loc'[q] = loc[q]
  BY <1>1, <1>3, Zenon
<1>7. (pc[p] # "idle" /\ loc[p].node = d) \/ (pc'[p] # "idle" /\ loc'[p].node = d)
  BY <1>2, <1>6
<1> QED BY <1>4, <1>5, <1>6, <1>7

\* What a process does that is in the walk, or in the second wait for the list.
LEMMA WalkSteps ==
    ASSUME NEW p \in Procs, Call(p) \/ Run(p) \/ Interrupt(p), pc[p] \in {"walk", "unlist"}
    PROVE  Walk(p) \/ Unlist(p) \/ InterruptList(p)
BY DEF Call, CallNew, CallDelete, CallWrite, CallRead,
       Run, RunAdmin, RunUser, Interrupt, Exists, Create, AddLock, AddAppend, AddLoad,
       AddStore, RemoveLock, DrainLock, DrainTake, DrainFree, DrainDone, FreeBuffer, Unlink,
       Rundown, Message, WriteLock, WritePut, WritePost, WriteUndo, ReadLock, ReadTake, ReadFree, ReadUndo,
       InterruptWait, InterruptLock, Granted

\* No call is on the buffer that r removes.
Undisturbed(r) == \A u \in Users : pc[u] # "idle" => buf[loc[u].node].name # loc[r].name

\* What the drain needs to find a string.
Sure(r) == /\ pc[r] = "drainlock" => ~buf[loc[r].node].isInt /\ buf[loc[r].node].stored > 0
           /\ pc[r] = "drainup" => loc[r].got = "string"

\* The steps of the removal itself.
LEMMA QuietOwn ==
    ASSUME CoreInv, CoreInv', QuietInv, NEW p \in Admins, Call(p) \/ Run(p) \/ Interrupt(p),
           (Removing(p))', loc'[p].name \notin overlapped'
    PROVE  (Undisturbed(p))' /\ (Sure(p))'
<1>1. /\ p \in Procs /\ Users \subseteq Procs /\ \A u \in Users : u # p
      /\ buf \in [Buffers -> BufTypes]
      /\ \A u \in Users : pc[u] # "idle" => loc[u].node \in Buffers
      /\ \A u \in Users : pc'[u] # "idle" =>
            loc'[u].node \in Buffers /\ buf'[loc'[u].node].state # "freed"
  <2>1. Control /\ Control' /\ UseInv' /\ TypeInv BY DEF CoreInv
  <2> QED BY <2>1, Constants DEF TypeInv, Control, UseInv
<1>2. pc'[p] \in RemovePCs BY DEF Removing
<1>3. CASE Walk(p) \/ Unlist(p)
  <2>1. \E k : \/ Finds(p, k) /\ overlapped' = IF Busy(loc[p].name)
                                         THEN overlapped \cup {loc[p].name} ELSE overlapped
               \/ FindsNone(p, k)
    BY <1>1, <1>3, WalkIs, UnlistIs DEF CoreInv
  <2>2. PICK k : Finds(p, k) /\ overlapped' = IF Busy(loc[p].name)
                                              THEN overlapped \cup {loc[p].name} ELSE overlapped
    BY <1>2, <2>1 DEF FindsNone, RemovePCs
  <2>3. /\ pc'[p] = "drain" /\ loc'[p].name = loc[p].name
        /\ \A q \in Procs : q # p => pc'[q] = pc[q] /\ loc'[q] = loc[q]
    BY <2>2 DEF Finds
  <2>4. ~Busy(loc[p].name) BY <2>2, <2>3
  <2>5. buf' = buf BY <1>3 DEF Walk, Unlist
  <2>6. \A u \in Users : pc[u] # "idle" => buf[loc[u].node].name # loc[p].name
    BY <1>1, <2>4 DEF Busy, Using
  <2> QED BY <1>1, <2>3, <2>5, <2>6 DEF Undisturbed, Sure
<1>4. CASE InterruptList(p)
  <2>1. UNCHANGED <<buf, pc, loc, overlapped>> BY <1>4 DEF InterruptList
  <2> QED BY <2>1 DEF QuietInv, Undisturbed, Sure, Removing
<1>5. CASE pc[p] \notin {"walk", "unlist"}
  <2>1. ~(Walk(p) \/ Unlist(p)) BY <1>5 DEF Walk, Unlist, Granted
  <2>2. ~(CallWrite(p) \/ CallRead(p))
    BY <1>1, <1>2 DEF CallWrite, CallRead, EnterBuffer, Goto, CoreInv, TypeInv, RemovePCs
  <2>3. overlapped' = overlapped BY <1>1, <2>1, <2>2, ListSteps DEF CoreInv
  <2>4. \/ Onward(p) \/ Leave(p) \/ EnterKind(p) \/ UseKind(p) \/ CreateKind(p)
        \/ AddAppend(p) \/ WalkKind(p) \/ FreeBuffer(p) \/ Unlink(p) \/ Rundown(p)
        \/ UnlistKind(p)
    BY <1>1, KindsOf DEF CoreInv
  <2>5. Onward(p) \/ FreeBuffer(p) \/ Unlink(p) \/ Rundown(p)
    <3>1. ~AddAppend(p) BY <1>1, <1>2, AppendIs DEF CoreInv, RemovePCs
    <3> QED BY <1>2, <1>5, <2>4, <3>1
        DEF Leave, EnterKind, UseKind, CreateKind, WalkKind, UnlistKind, RemovePCs, UserPCs
  <2>6. Removing(p) /\ loc'[p].name = loc[p].name
    BY <1>1, <1>2, <2>5, RemovalIs DEF Onward, Removing, RemovePCs, UserPCs, CoreInv
  <2>7. Undisturbed(p) /\ Sure(p) BY <2>3, <2>6 DEF QuietInv, Undisturbed, Sure
  <2>8. \A q \in Procs : q # p => pc'[q] = pc[q] /\ loc'[q] = loc[q]
    BY <1>1, <2>5, RemovalIs DEF Onward, Steady, CoreInv
  <2>9. ASSUME NEW u \in Users, pc'[u] # "idle"
        PROVE  buf'[loc'[u].node].name = buf[loc[u].node].name
    <3>1. CASE Onward(p) BY <1>1, <2>8, <2>9, <3>1 DEF Onward, Steady
    <3>2. CASE ~Onward(p)
      <4>1. loc'[u].node = loc[u].node /\ loc[u].node \in Buffers BY <1>1, <2>8, <2>9
      <4>2. loc[u].node = loc[p].node => buf'[loc[u].node] # Freed BY <1>1, <2>9, <4>1 DEF Freed
      <4> QED BY <1>1, <2>5, <3>2, <4>1, <4>2, RemovalIs DEF CoreInv
    <3> QED BY <3>1, <3>2
  <2>10. (Undisturbed(p))' BY <1>1, <2>6, <2>7, <2>8, <2>9 DEF Undisturbed
  <2>11. (Sure(p))'
    <3>1. CASE pc'[p] \notin {"drainlock", "drainup"} BY <3>1 DEF Sure
    <3>2. CASE pc'[p] \in {"drainlock", "drainup"}
      <4>1. ~(FreeBuffer(p) \/ Unlink(p) \/ Rundown(p))
        BY <1>1, <3>2, RemovalIs DEF CoreInv
      <4>2. Onward(p) /\ loc'[p].node = loc[p].node BY <2>5, <4>1 DEF Onward
      <4>3. PICK d \in Buffers : WorkKind(p, d)
        <5>1. \/ AsideKind(p)
              \/ \E d \in Buffers : WorkKind(p, d) \/ AllocKind(p, d) \/ FreeKind(p, d)
          BY <1>1, BufferKinds DEF CoreInv
        <5> QED BY <3>2, <5>1 DEF AsideKind, BufferPCs, AllocKind, CreateKind, FreeKind
      <4>4. loc[p].node = d BY <1>1, <3>2, <4>2, <4>3, WorkAt
      <4>5. CASE pc'[p] = "drainlock"
        BY <1>1, <4>3, <4>4, <4>5, <4>2, WorkAt DEF Sure
      <4>6. CASE pc'[p] = "drainup"
        BY <1>1, <2>7, <4>3, <4>4, <4>6, WorkAt DEF Sure
      <4> QED BY <3>2, <4>5, <4>6
    <3> QED BY <3>1, <3>2
  <2> QED BY <2>10, <2>11
<1> QED BY <1>1, <1>3, <1>4, <1>5, WalkSteps

\* The steps of the calls meanwhile.
LEMMA QuietOther ==
    ASSUME CoreInv, QuietInv, NEW p \in Procs, Call(p) \/ Run(p) \/ Interrupt(p),
           NEW r \in Admins, r # p, (Removing(r))', loc'[r].name \notin overlapped'
    PROVE  (Undisturbed(r))' /\ (Sure(r))'
<1>1. /\ r \in Procs /\ Users \subseteq Procs /\ \A u \in Users : u # r
      /\ \A u \in Users : pc[u] # "idle" => loc[u].node \in Buffers
      /\ buf \in [Buffers -> BufTypes]
  BY Constants DEF CoreInv, Control, TypeInv
<1>2. pc'[r] = pc[r] BY <1>1, ListSteps DEF CoreInv
<1>3. Removing(r) BY <1>2 DEF Removing
<1>4. p \in Users /\ (Onward(p) \/ Leave(p) \/ UseKind(p)) /\ \E d \in Buffers : WorkKind(p, d)
  BY <1>3, WhileRemoving
<1>5. PICK d \in Buffers : WorkKind(p, d) BY <1>4
<1>6. /\ loc'[r] = loc[r] /\ loc[r].node \in Buffers
      /\ \A u \in Users : u # p => pc'[u] = pc[u] /\ loc'[u] = loc[u]
      /\ \A e \in Buffers : buf'[e].name = buf[e].name
  BY <1>1, <1>3, <1>5, WorkAt DEF CoreInv, Control, Removing
<1>7. UseKind(p) => CallWrite(p) \/ CallRead(p)
  <2>1. UseKind(p) => pc[p] = "idle" /\ p \notin Admins BY Constants DEF UseKind
  <2> QED BY <2>1, IdleCalls DEF Call
<1>8. overlapped \subseteq overlapped'
  <2>1. ~(Walk(p) \/ Unlist(p))
    BY <1>4 DEF Walk, Unlist, Granted, CoreInv, Control, UserPCs
  <2>2. CASE CallWrite(p) \/ CallRead(p) BY <2>2, <1>3, EnterNoted
  <2>3. CASE ~(CallWrite(p) \/ CallRead(p)) BY <2>1, <2>3, ListSteps DEF CoreInv
  <2> QED BY <2>2, <2>3
<1>9. Undisturbed(r) /\ Sure(r) BY <1>3, <1>6, <1>8 DEF QuietInv, Undisturbed, Sure
<1>10. ASSUME pc'[p] # "idle"
       PROVE  loc'[p].node \in Buffers /\ buf'[loc'[p].node].name # loc[r].name
  <2>1. CASE UseKind(p)
    <3>1. loc'[p].node \in Buffers BY <2>1 DEF UseKind
    <3>2. buf[loc'[p].node].name # loc[r].name BY <1>3, <1>6, <1>7, <2>1, EnterNoted
    <3> QED BY <1>6, <3>1, <3>2
  <2>2. CASE Onward(p)
    <3>1. loc'[p].node = loc[p].node /\ pc[p] # "idle"
      BY <1>10, <2>2 DEF Onward, UserPCs
    <3> QED BY <1>1, <1>4, <1>6, <1>9, <3>1 DEF Undisturbed
  <2> QED BY <1>4, <1>10, <2>1, <2>2 DEF Leave
<1>11. (Undisturbed(r))'
  BY <1>1, <1>6, <1>9, <1>10 DEF Undisturbed
<1>12. (Sure(r))'
  <2>1. CASE pc[r] = "drainlock"
    <3>1. buf[loc[r].node].name = loc[r].name
      BY <1>3, <2>1 DEF CoreInv, RemoveInv, Phase
    <3>2. d # loc[r].node
      <4>1. CASE pc[p] # "idle" /\ loc[p].node = d BY <1>4, <1>9, <3>1, <4>1 DEF Undisturbed
      <4>2. CASE pc'[p] # "idle" /\ loc'[p].node = d BY <1>6, <1>10, <3>1, <4>2
      <4> QED BY <4>1, <4>2, <1>5, WorkAt
    <3>3. buf'[loc[r].node] = buf[loc[r].node] BY <1>5, <1>6, <3>2, WorkAt
    <3> QED BY <1>2, <1>6, <1>9, <2>1, <3>3 DEF Sure
  <2> QED BY <1>2, <1>6, <1>9, <2>1 DEF Sure
<1> QED BY <1>11, <1>12

LEMMA NextQuiet ==
    ASSUME CoreInv, CoreInv', QuietInv, [Next]_vars
    PROVE  QuietInv'
<1>1. CASE UNCHANGED vars BY <1>1 DEF vars, ghost, QuietInv, Removing
<1>2. CASE Next
  <2>1. PICK p \in Procs : Call(p) \/ Run(p) \/ Interrupt(p) BY <1>2 DEF Next
  <2>2. SUFFICES ASSUME NEW r \in Admins, (Removing(r))', loc'[r].name \notin overlapped'
                 PROVE  (Undisturbed(r))' /\ (Sure(r))'
    BY DEF QuietInv, Undisturbed, Sure
  <2> QED BY <2>1, <2>2, QuietOwn, QuietOther
<1> QED BY <1>1, <1>2

LEMMA NextMem ==
    ASSUME CoreInv, ListMtxInv, QuietInv, MemInv, [Next]_vars
    PROVE  MemInv'
<1>1. CASE UNCHANGED vars BY <1>1 DEF vars, ghost, MemInv
<1>2. CASE Next
  <2>1. PICK p \in Procs : Call(p) \/ Run(p) \/ Interrupt(p) BY <1>2 DEF Next
  <2>2. misuse = FALSE
    <3>1. misuse \in BOOLEAN /\ ~misuse BY <1>2 DEF CoreInv, TypeInv, Next
    <3> QED BY <3>1, Zenon
  <2>3. SUFFICES ASSUME ~unlocked', overlapped' = {}
                 PROVE  ~misuse'
    BY Zenon DEF MemInv
  <2>4. ~unlocked /\ unlocked' = unlocked
    <3>1. unlocked' # TRUE BY <2>3, Zenon
    <3>2. unlocked' = unlocked BY <2>1, <3>1, ListSteps, Zenon DEF CoreInv
    <3> QED BY <2>3, <3>2, Zenon
  <2>5. CASE Exists(p) \/ Walk(p)
    <3>1. pc[p] \in {"exists", "walk"} /\ ~Waiting(sem_list, p) /\ misuse' = (misuse \/ BadWalk(p))
      BY <2>5, Zenon DEF Exists, Walk, Granted
    <3>2. Alone(p) BY <2>4, <3>1, ListAlone DEF ListPCs
    <3>3. \A i \in DOMAIN list : buf[list[i]].state # "freed" BY <3>1, NothingFreed
    <3>4. ~BadWalk(p) BY <3>2, <3>3 DEF BadWalk
    <3> QED BY <2>2, <3>1, <3>4, Zenon
  <2>6. CASE AddAppend(p) \/ Unlist(p)
    <3>1. pc[p] \in {"append", "unlist"} /\ ~Waiting(sem_list, p) /\ misuse' = (misuse \/ ~Alone(p))
      BY <2>6, Zenon DEF AddAppend, Unlist, Granted
    <3>2. Alone(p) BY <2>4, <3>1, ListAlone DEF ListPCs
    <3> QED BY <2>2, <3>1, <3>2, Zenon
  <2>7. CASE DrainFree(p) \/ FreeBuffer(p)
    <3>1. p \in Admins /\ Removing(p) /\ pc[p] \in {"drained", "drainup"}
      BY <2>7, AdminAt DEF DrainFree, FreeBuffer, Removing, RemovePCs, UserPCs, CoreInv
    <3>2. overlapped = {} BY <2>3, <2>7 DEF DrainFree, FreeBuffer, ghost
    <3>3. Undisturbed(p) /\ Sure(p) BY <3>1, <3>2 DEF QuietInv, Undisturbed, Sure
    <3>4. CASE DrainFree(p)
      <4>1. pc[p] = "drainup" /\ misuse' = (misuse \/ loc[p].got = "dangling")
        BY <3>4, Zenon DEF DrainFree
      <4>2. loc[p].got # "dangling" BY <3>3, <4>1 DEF Sure
      <4> QED BY <2>2, <4>1, <4>2, Zenon
    <3>5. CASE FreeBuffer(p)
      <4>1. pc[p] = "drained" /\ misuse' = (misuse \/ OwnsBuffer(loc[p].node) # {})
        BY <3>5, Zenon DEF FreeBuffer
      <4>2. buf[loc[p].node].name = loc[p].name
        BY <3>1, <4>1 DEF CoreInv, RemoveInv, Phase
      <4>3. ASSUME NEW q \in OwnsBuffer(loc[p].node) PROVE FALSE
        <5>1. q \in Procs /\ pc[q] \in {"wlock", "rlock", "drainlock"} /\ loc[q].node = loc[p].node
          BY <4>3 DEF OwnsBuffer
        <5>2. q \notin Users BY <3>3, <4>2, <5>1 DEF Undisturbed
        <5>3. q \in Admins /\ q # p BY <4>1, <5>1, <5>2, Constants
        <5>4. pc[q] = "idle" BY <3>1, <5>3, OneAdmin DEF CoreInv, RemovePCs, Removing
        <5> QED BY <5>1, <5>4
      <4>4. ~(OwnsBuffer(loc[p].node) # {}) BY <4>3
      <4> QED BY <2>2, <4>1, <4>4, Zenon
    <3> QED BY <2>7, <3>4, <3>5
  <2>8. CASE misuse' = misuse BY <2>2, <2>8, Zenon
  <2> QED BY <2>1, <2>5, <2>6, <2>7, <2>8, ListSteps, Zenon DEF CoreInv
<1> QED BY <1>1, <1>2

\* The walks and changes of the list do not meet, and a node that is freed is
\* not used again, unless a signal hit a wait for sem_list, whose -EINTR is
\* ignored, or a write() or read() took part in the deletion of its entry.
THEOREM ListAndBuffersAreSafe == Spec => []ListAndBuffersSafe
<1> DEFINE Inv == CoreInv /\ ListMtxInv /\ QuietInv /\ MemInv
<1>1. Init => Inv BY InitCore, InitListMtx
<1>2. Inv /\ [Next]_vars => Inv'
  BY NextCore, NextListMtx, NextQuiet, NextMem DEF CoreInv
<1>3. Inv => ListAndBuffersSafe BY DEF MemInv, ListAndBuffersSafe
<1> QED BY <1>1, <1>2, <1>3, PTL DEF Spec

-----------------------------------------------------------------------------
(* The count of entries. *)

\* Which steps change it.
LEMMA EntrySteps ==
    ASSUME NEW p \in Procs, Call(p) \/ Run(p) \/ Interrupt(p)
    PROVE  /\ entries' = entries \/ AddStore(p) \/ Unlist(p)
           /\ raced' = raced \/ AddLoad(p)
           /\ pc[p] = "load" => AddLoad(p)
           /\ pc[p] = "count" => AddStore(p)
<1>1. CASE Call(p)
  <2>1. CASE CallNew(p)
    <3>1. pc[p] = "idle" /\ \E op, n : EnterAdmin(p, op, n) BY <2>1 DEF CallNew
    <3> QED BY <3>1 DEF EnterAdmin, ghost
  <2>2. CASE CallDelete(p)
    <3>1. pc[p] = "idle" /\ \E op, n : EnterAdmin(p, op, n) BY <2>2 DEF CallDelete
    <3> QED BY <3>1 DEF EnterAdmin, ghost
  <2>3. CASE CallWrite(p)
    <3>1. pc[p] = "idle" /\ \E d, place : EnterBuffer(p, d, place) BY <2>3, Zenon DEF CallWrite
    <3> QED BY <3>1 DEF EnterBuffer, admin
  <2>4. CASE CallRead(p)
    <3>1. pc[p] = "idle" /\ \E d, place : EnterBuffer(p, d, place) BY <2>4, Zenon DEF CallRead
    <3> QED BY <3>1 DEF EnterBuffer, admin
  <2> QED BY <1>1, <2>1, <2>2, <2>3, <2>4 DEF Call
<1>2. CASE RunAdmin(p)
  <2>1. CASE Exists(p) BY <2>1 DEF Exists, Granted, ghost
  <2>2. CASE Create(p) BY <2>2 DEF Create, ghost
  <2>3. CASE AddLock(p) BY <2>3 DEF AddLock, ghost
  <2>4. CASE AddAppend(p) BY <2>4 DEF AddAppend, Granted, ghost
  <2>5. CASE AddLoad(p) BY <2>5 DEF AddLoad, admin
  <2>6. CASE AddStore(p) BY <2>6 DEF AddStore, ghost
  <2>7. CASE RemoveLock(p) BY <2>7 DEF RemoveLock, ghost
  <2>8. CASE Walk(p) BY <2>8 DEF Walk, Granted
  <2>9. CASE DrainLock(p) BY <2>9 DEF DrainLock, admin, ghost
  <2>10. CASE DrainTake(p) BY <2>10 DEF DrainTake, Granted, admin, ghost
  <2>11. CASE DrainFree(p) BY <2>11 DEF DrainFree, admin, ghost
  <2>12. CASE FreeBuffer(p) BY <2>12 DEF FreeBuffer, admin, ghost
  <2>13. CASE Unlink(p) BY <2>13 DEF Unlink, ghost
  <2>14. CASE Rundown(p) BY <2>14 DEF Rundown, ghost
  <2>15. CASE Unlist(p) BY <2>15 DEF Unlist, Granted
  <2>16. CASE DrainDone(p) BY <2>16 DEF DrainDone, admin, ghost
  <2> QED BY <1>2, <2>1, <2>2, <2>3, <2>4, <2>5, <2>6, <2>7, <2>8, <2>9, <2>10, <2>11, <2>12,
             <2>13, <2>14, <2>15, <2>16 DEF RunAdmin
<1>3. CASE RunUser(p)
  <2>1. CASE Message(p) BY <2>1 DEF Message, admin
  <2>2. CASE ReadFree(p) BY <2>2 DEF ReadFree, admin
  <2>3. CASE ~Message(p) /\ ~ReadFree(p)
    BY <1>3, <2>3 DEF RunUser, WriteLock, WritePut, WritePost, WriteUndo, ReadLock, ReadTake,
                      ReadUndo, Granted, admin, ghost
  <2> QED BY <2>1, <2>2, <2>3
<1>4. CASE Interrupt(p)
  BY <1>4 DEF Interrupt, InterruptWait, InterruptLock, InterruptList, admin, ghost
<1> QED BY <1>1, <1>2, <1>3, <1>4 DEF Run

LEMMA CountingAndEarly ==
    /\ Counting \subseteq Admins /\ Early \subseteq Admins /\ Counting \cap Early = {}
    /\ IsFiniteSet(Counting) /\ IsFiniteSet(Early)
    /\ Cardinality(Counting) \in Nat /\ Cardinality(Early) \in Nat /\ Cardinality(Admins) \in Nat
    /\ Cardinality(Counting) + Cardinality(Early) <= Cardinality(Admins)
<1>1. Counting \subseteq Admins /\ Early \subseteq Admins /\ Counting \cap Early = {}
  BY DEF Counting, Early
<1>2. /\ IsFiniteSet(Counting) /\ IsFiniteSet(Early)
      /\ Cardinality(Counting) \in Nat /\ Cardinality(Early) \in Nat /\ Cardinality(Admins) \in Nat
  BY <1>1, Constants, FS_Subset, FS_CardinalityType
<1>3. /\ IsFiniteSet(Counting \cup Early)
      /\ Cardinality(Counting \cup Early) = Cardinality(Counting) + Cardinality(Early)
           - Cardinality(Counting \cap Early)
  BY <1>2, FS_Union
<1>4. Cardinality(Counting \cap Early) = 0 BY <1>1, FS_EmptySet
<1>5. Cardinality(Counting \cup Early) <= Cardinality(Admins)
  BY <1>1, Constants, FS_Subset
<1> QED BY <1>1, <1>2, <1>3, <1>4, <1>5

\* The parts of EntriesInv.
Exact   == entries + Cardinality(Counting) = Len(list)
Loaded  == \A p \in Admins : pc[p] = "count" => loc[p].reg = entries
OneCount == \A p, q \in Admins : pc[p] = "count" /\ pc[q] = "count" => p = q
Within  == Len(list) + Cardinality(Early) <= MaxEntries + Cardinality(Admins) - 1

\* A step that leaves the count alone, and begins no creation.
LEMMA CountKept ==
    ASSUME TypeInv, Exact, Loaded, OneCount, Within, NEW p \in Procs,
           list' = list, entries' = entries,
           \A q \in Procs : q # p => pc'[q] = pc[q] /\ loc'[q] = loc[q],
           p \in Counting' => p \in Counting, p \in Counting => p \in Counting',
           p \in Early' => p \in Early,
           p \in Admins /\ pc'[p] = "count" => pc[p] = "count" /\ loc'[p].reg = loc[p].reg
    PROVE  Exact' /\ Loaded' /\ OneCount' /\ Within'
<1>1. \A q \in Admins : q \in Procs BY Constants
<1>2. Counting' = Counting BY <1>1 DEF Counting
<1>3. Early' \subseteq Early BY <1>1 DEF Early
<1>4. Cardinality(Early') <= Cardinality(Early) /\ Cardinality(Early') \in Nat
  BY <1>3, CountingAndEarly, FS_Subset, FS_CardinalityType
<1>5. Len(list) \in Nat /\ Cardinality(Early) \in Nat /\ Cardinality(Admins) \in Nat
      /\ MaxEntries \in Nat
  BY Constants, CountingAndEarly, LenProperties DEF TypeInv
<1>6. Within' BY <1>4, <1>5 DEF Within
<1>7. Exact' BY <1>2 DEF Exact
<1>8. Loaded' BY <1>1 DEF Loaded
<1>9. OneCount' BY <1>1 DEF OneCount
<1> QED BY <1>6, <1>7, <1>8, <1>9

\* admin_write("new") passes the test of the limit.
LEMMA CountNew ==
    ASSUME TypeInv, Control, Exact, Loaded, OneCount, Within, NEW p \in Admins, CallNew(p)
    PROVE  Exact' /\ Loaded' /\ OneCount' /\ Within'
<1>1. p \in Procs /\ Admins \subseteq Procs BY Constants
<1>2. PICK n \in Names : EnterAdmin(p, "new", n) /\ pc[p] = "idle" /\ entries < MaxEntries
  BY Constants DEF CallNew, Full, TypeInv
<1>3. /\ list' = list /\ entries' = entries /\ pc'[p] = "exists" /\ loc'[p].op = "new"
      /\ \A q \in Procs : q # p => pc'[q] = pc[q] /\ loc'[q] = loc[q]
  BY <1>1, <1>2 DEF EnterAdmin, Goto, TypeInv, NoLocals
<1>4. Counting' = Counting BY <1>1, <1>2, <1>3 DEF Counting
<1>5. Early' = Early \cup {p} /\ p \notin Early BY <1>1, <1>2, <1>3 DEF Early
<1>6. Cardinality(Early') = Cardinality(Early) + 1 BY <1>5, CountingAndEarly, FS_AddElement
<1>7. Cardinality(Counting) + Cardinality(Early') <= Cardinality(Admins)
  <2>1. (Cardinality(Counting) + Cardinality(Early) <= Cardinality(Admins))'
    BY CountingAndEarly, PTL
  <2> QED BY <1>4, <2>1
<1>8. entries \in Nat /\ Len(list) \in Nat /\ Cardinality(Early) \in Nat
      /\ Cardinality(Counting) \in Nat /\ Cardinality(Admins) \in Nat /\ MaxEntries \in Nat
  BY Constants, CountingAndEarly, LenProperties DEF TypeInv
<1>9. Exact' BY <1>3, <1>4 DEF Exact
<1>10. Within' BY <1>2, <1>3, <1>6, <1>7, <1>8, SMTT(30) DEF Exact, Within
<1>11. Loaded' BY <1>1, <1>3 DEF Loaded
<1>12. OneCount' BY <1>1, <1>3 DEF OneCount
<1> QED BY <1>9, <1>10, <1>11, <1>12

\* The node is linked.
LEMMA CountAppend ==
    ASSUME TypeInv, Control, ListInv, Exact, Loaded, OneCount, Within, NEW p \in Procs,
           AddAppend(p)
    PROVE  Exact' /\ Loaded' /\ OneCount' /\ Within'
<1>1. /\ Admins \subseteq Procs /\ p \in Admins /\ pc[p] = "append" /\ pc'[p] = "load"
      /\ loc' = loc /\ \A q \in Procs : q # p => pc'[q] = pc[q]
      /\ loc[p].node \in Buffers
  BY AppendIs, Constants
<1>2. list' = Append(list, loc[p].node) /\ entries' = entries BY DEF AddAppend
<1>3. Len(list') = Len(list) + 1 /\ Len(list) \in Nat
  BY <1>1, <1>2, AppendProperties, LenProperties DEF TypeInv
<1>4. loc[p].op = "new" BY <1>1 DEF Control, CreatePCs
<1>5. Counting' = Counting \cup {p} /\ p \notin Counting BY <1>1 DEF Counting
<1>6. Early' = Early \ {p} /\ p \in Early BY <1>1, <1>4 DEF Early
<1>7. /\ Cardinality(Counting') = Cardinality(Counting) + 1
      /\ Cardinality(Early') = Cardinality(Early) - 1
  BY <1>5, <1>6, CountingAndEarly, FS_AddElement, FS_RemoveElement
<1>8. entries \in Nat /\ Cardinality(Early) \in Nat /\ Cardinality(Counting) \in Nat
      /\ Cardinality(Admins) \in Nat /\ MaxEntries \in Nat
  BY Constants, CountingAndEarly DEF TypeInv
<1>9. Exact' BY <1>2, <1>3, <1>7, <1>8 DEF Exact
<1>10. Within' BY <1>3, <1>7, <1>8 DEF Within
<1>11. Loaded' BY <1>1, <1>2 DEF Loaded
<1>12. OneCount' BY <1>1 DEF OneCount
<1> QED BY <1>9, <1>10, <1>11, <1>12

\* entries is loaded, while nobody else has loaded it.
LEMMA CountLoad ==
    ASSUME TypeInv, Control, Exact, Loaded, OneCount, Within, NEW p \in Procs,
           AddLoad(p), ~raced'
    PROVE  Exact' /\ Loaded' /\ OneCount' /\ Within'
<1>1. pc[p] = "load" /\ p \in Admins /\ Admins \subseteq Procs
  BY AdminAt, Constants DEF AddLoad, UserPCs
<1>2. /\ entries' = entries /\ list' = list /\ pc'[p] = "count" /\ loc'[p].reg = entries
      /\ loc'[p].op = loc[p].op
      /\ \A q \in Procs : q # p => pc'[q] = pc[q] /\ loc'[q] = loc[q]
  BY DEF AddLoad, Goto, TypeInv, Locals, admin
<1>3. ~\E q \in Admins : pc[q] = "count" BY Zenon DEF AddLoad
<1>4. Counting' = Counting /\ Early' = Early BY <1>1, <1>2 DEF Counting, Early
<1>5. Exact' BY <1>2, <1>4 DEF Exact
<1>6. Within' BY <1>2, <1>4 DEF Within
<1>7. Loaded' BY <1>1, <1>2, <1>3 DEF Loaded
<1>8. OneCount' BY <1>1, <1>2, <1>3 DEF OneCount
<1> QED BY <1>5, <1>6, <1>7, <1>8

\* It is stored, and has not reached UINT_MAX.
LEMMA CountStore ==
    ASSUME TypeInv, Control, Exact, Loaded, OneCount, Within, NEW p \in Procs, AddStore(p)
    PROVE  Exact' /\ Loaded' /\ OneCount' /\ Within'
<1>1. pc[p] = "count" /\ p \in Admins /\ Admins \subseteq Procs
  BY AdminAt, Constants DEF AddStore, UserPCs
<1>2. /\ list' = list /\ pc'[p] = "idle" /\ loc'[p] = NoLocals
      /\ entries' = (loc[p].reg + 1) % (UINT_MAX + 1)
      /\ \A q \in Procs : q # p => pc'[q] = pc[q] /\ loc'[q] = loc[q]
  BY DEF AddStore, Return, Goto, TypeInv
<1>3. Counting' = Counting \ {p} /\ p \in Counting BY <1>1, <1>2 DEF Counting
<1>4. Early' = Early BY <1>1, <1>2 DEF Early
<1>5. Cardinality(Counting') = Cardinality(Counting) - 1
  BY <1>3, CountingAndEarly, FS_RemoveElement
<1>6. entries \in Nat /\ Cardinality(Early) \in Nat /\ Cardinality(Counting) \in Nat
      /\ Cardinality(Admins) \in Nat /\ MaxEntries \in Nat /\ UINT_MAX \in Nat
      /\ MaxEntries + Cardinality(Admins) - 1 <= UINT_MAX /\ Len(list) \in Nat
  BY Constants, CountingAndEarly, LenProperties DEF TypeInv
<1>7. Cardinality(Counting) # 0 BY <1>3, CountingAndEarly, FS_EmptySet
<1>8. loc[p].reg = entries BY <1>1 DEF Loaded
<1>9. entries + 1 \in 0 .. UINT_MAX BY <1>6, <1>7 DEF Exact, Within
<1>10. entries' = entries + 1 BY <1>2, <1>6, <1>8, <1>9, ModRange
<1>11. Exact' BY <1>2, <1>5, <1>6, <1>10 DEF Exact
<1>12. Within' BY <1>2, <1>4 DEF Within
<1>13. Loaded' BY <1>1, <1>2 DEF Loaded, OneCount
<1>14. OneCount' BY <1>1, <1>2 DEF OneCount
<1> QED BY <1>11, <1>12, <1>13, <1>14

\* The node is unlinked, and --entries follows under the mutex.
LEMMA CountUnlist ==
    ASSUME TypeInv, Control, ListInv, RemoveInv, Exact, Loaded, OneCount, Within, NEW p \in Procs,
           Unlist(p)
    PROVE  Exact' /\ Loaded' /\ OneCount' /\ Within'
<1>1. PICK k \in DOMAIN list : /\ pc[p] = "unlist" /\ list' = RemoveAt(list, k)
                               /\ Finds(p, k + 1) \/ FindsNone(p, k + 1)
  BY UnlistIs
<1>2. /\ p \in Admins /\ Admins \subseteq Procs /\ loc[p].op = "delete"
      /\ \A q \in Admins : q # p => pc[q] = "idle"
  BY <1>1, OneAdmin, Constants DEF RemovePCs, Control
<1>3. /\ pc'[p] \in {"drain", "idle"}
      /\ \A q \in Procs : q # p => pc'[q] = pc[q] /\ loc'[q] = loc[q]
  BY <1>1 DEF Finds, FindsNone
<1>4. entries' = (entries - 1) % (UINT_MAX + 1) BY DEF Unlist
<1>5. /\ Len(list') = Len(list) - 1 /\ Len(list) \in Nat /\ Len(list) # 0
  BY <1>1, RemoveAtEffect, LenProperties DEF TypeInv
<1>6. Counting = {} /\ Early = {} /\ Counting' = {} /\ Early' = {}
  BY <1>1, <1>2, <1>3 DEF Counting, Early
<1>7. Cardinality({}) = 0 BY FS_EmptySet
<1>8. entries \in 0 .. UINT_MAX /\ UINT_MAX \in Nat /\ Cardinality(Admins) \in Nat /\ MaxEntries \in Nat
  BY Constants, CountingAndEarly DEF TypeInv
<1>9. entries = Len(list) BY <1>6, <1>7, <1>8 DEF Exact
<1>10. entries' = entries - 1
  <2>1. entries - 1 \in 0 .. UINT_MAX BY <1>5, <1>8, <1>9
  <2> QED BY <1>4, <1>8, <2>1, ModRange
<1>11. Exact' BY <1>5, <1>6, <1>7, <1>8, <1>9, <1>10 DEF Exact
<1>12. Within' BY <1>5, <1>6, <1>7, <1>8 DEF Within
<1>13. Loaded' BY <1>2, <1>3 DEF Loaded
<1>14. OneCount' BY <1>2, <1>3 DEF OneCount
<1> QED BY <1>11, <1>12, <1>13, <1>14

LEMMA InitEntries == Init => EntriesInv
<1> SUFFICES ASSUME Init PROVE Exact /\ Loaded /\ OneCount /\ Within
  BY DEF EntriesInv, Exact, Loaded, OneCount, Within
<1>1. list = <<1>> /\ entries = 1 /\ \A q \in Admins : pc[q] = "idle" BY Constants DEF Init
<1>2. Counting = {} /\ Early = {} BY <1>1 DEF Counting, Early
<1>3. Cardinality({}) = 0 BY FS_EmptySet
<1>4. MaxEntries \in Nat \ {0} /\ Cardinality(Admins) \in Nat \ {0} /\ Len(list) = 1
  <2>1. Cardinality(Admins) # 0 BY Constants, FS_EmptySet
  <2> QED BY <1>1, <2>1, Constants, CountingAndEarly
<1> QED BY <1>1, <1>2, <1>3, <1>4 DEF Exact, Loaded, OneCount, Within

LEMMA NextEntries ==
    ASSUME TypeInv, Control, ListInv, RemoveInv, EntriesInv, [Next]_vars
    PROVE  EntriesInv'
<1>1. CASE UNCHANGED vars BY <1>1 DEF vars, admin, ghost, EntriesInv, Counting, Early
<1>2. CASE Next
  <2>1. PICK p \in Procs : Call(p) \/ Run(p) \/ Interrupt(p) BY <1>2 DEF Next
  <2>2. SUFFICES ASSUME ~raced' PROVE Exact' /\ Loaded' /\ OneCount' /\ Within'
    BY DEF EntriesInv, Exact, Loaded, OneCount, Within
  <2>3. ~raced
    <3>1. CASE AddLoad(p) BY <2>2, <3>1, Zenon DEF AddLoad
    <3>2. CASE ~AddLoad(p)
      <4>1. raced' = raced BY <2>1, <3>2, EntrySteps, Zenon
      <4> QED BY <2>2, <4>1, Zenon
    <3> QED BY <3>1, <3>2
  <2>4. Exact /\ Loaded /\ OneCount /\ Within
    BY <2>3 DEF EntriesInv, Exact, Loaded, OneCount, Within
  <2>5. CASE p \in Admins /\ CallNew(p) BY <2>4, <2>5, CountNew
  <2>6. CASE AddAppend(p) BY <2>4, <2>6, CountAppend
  <2>7. CASE AddLoad(p) BY <2>2, <2>4, <2>7, CountLoad
  <2>8. CASE AddStore(p) BY <2>4, <2>8, CountStore
  <2>9. CASE Unlist(p) BY <2>4, <2>9, CountUnlist
  <2>10. CASE /\ ~(p \in Admins /\ CallNew(p)) /\ ~AddAppend(p) /\ ~AddLoad(p) /\ ~AddStore(p)
              /\ ~Unlist(p)
    <3>1. entries' = entries /\ pc[p] \notin {"load", "count"} BY <2>1, <2>10, EntrySteps
    <3>2. CASE InterruptList(p)
      <4>1. UNCHANGED <<list, pc, loc>> BY <3>2 DEF InterruptList
      <4>2. p \in Early' => p \in Early BY <4>1 DEF Early
      <4>3. (p \in Counting' => p \in Counting) /\ (p \in Counting => p \in Counting')
        BY <4>1 DEF Counting
      <4> QED BY <2>4, <3>1, <4>1, <4>2, <4>3, CountKept
    <3>3. CASE ~InterruptList(p)
      <4>1. \/ Onward(p) \/ Leave(p) \/ EnterKind(p) \/ UseKind(p) \/ CreateKind(p)
            \/ WalkKind(p) \/ FreeBuffer(p) \/ Unlink(p) \/ Rundown(p) \/ UnlistKind(p)
        BY <2>1, <2>10, KindsOf
      <4>2. pc[p] # "unlist" BY <2>1, <2>10, <3>3, WalkSteps DEF Walk, Granted
      <4>3. /\ list' = list /\ \A q \in Procs : q # p => pc'[q] = pc[q] /\ loc'[q] = loc[q]
            /\ pc'[p] \notin {"load", "count"}
        BY <3>1, <4>1, <4>2, RemovalIs
           DEF Onward, Leave, EnterKind, UseKind, CreateKind, WalkKind, UnlistKind, Finds,
               FindsNone, Steady, UserPCs
      <4>4. (p \in Counting' => p \in Counting) /\ (p \in Counting => p \in Counting')
        BY <3>1, <4>3 DEF Counting
      <4>5. p \in Early' => p \in Early
        <5>1. SUFFICES ASSUME p \in Admins, pc'[p] \in {"exists", "create", "add", "append"},
                              loc'[p].op = "new"
                       PROVE  pc[p] \in {"exists", "create", "add", "append"} /\ loc[p].op = "new"
          BY DEF Early
        <5>2. ~EnterKind(p)
          <6>1. SUFFICES ASSUME EnterKind(p) PROVE FALSE OBVIOUS
          <6>2. pc[p] = "idle" /\ p \notin Users BY <5>1, <6>1, Constants DEF EnterKind
          <6>3. CallDelete(p) BY <2>1, <2>10, <5>1, <6>2, IdleCalls DEF Call, Users
          <6>4. loc'[p].op = "delete"
            BY <6>3 DEF CallDelete, EnterAdmin, NoLocals, TypeInv
          <6> QED BY <5>1, <6>4
        <5>3. Onward(p) \/ CreateKind(p)
          BY <4>1, <4>2, <5>1, <5>2, RemovalIs
             DEF Leave, UseKind, WalkKind, UnlistKind, Finds, FindsNone, UserPCs
        <5> QED BY <5>1, <5>3 DEF Onward, CreateKind, UserPCs
      <4> QED BY <2>4, <3>1, <4>3, <4>4, <4>5, CountKept
    <3> QED BY <3>2, <3>3
  <2> QED BY <2>5, <2>6, <2>7, <2>8, <2>9, <2>10
<1> QED BY <1>1, <1>2

\* As long as no two ++entries overlap, entries is the number of nodes but for
\* those whose increment has not been reached, and max_entries is exceeded by
\* no more than the creations that can pass its test together.
THEOREM EntriesAreExact == Spec => []EntriesExact
<1> DEFINE Inv == CoreInv /\ EntriesInv
<1>1. Init => Inv BY InitCore, InitEntries
<1>2. Inv /\ [Next]_vars => Inv' BY NextCore, NextEntries DEF CoreInv
<1>3. Inv => EntriesExact
  <2>1. SUFFICES ASSUME Inv, ~raced
                 PROVE  /\ entries + Cardinality(Counting) = Len(list)
                        /\ Len(list) <= MaxEntries + Cardinality(Admins) - 1
    BY DEF EntriesExact, Counting
  <2>2. Len(list) \in Nat /\ Cardinality(Early) \in Nat /\ Cardinality(Admins) \in Nat
        /\ MaxEntries \in Nat
    BY <2>1, Constants, CountingAndEarly, LenProperties DEF CoreInv, TypeInv
  <2> QED BY <2>1, <2>2 DEF EntriesInv
<1> QED BY <1>1, <1>2, <1>3, PTL DEF Spec

-----------------------------------------------------------------------------
(* The accounts of gaps and elements. *)

\* There is room for who has a gap, and something for who has an element.
LEMMA RoomHeld ==
    ASSUME TypeInv, NEW p \in Procs, NEW d \in Buffers, buf[d].state = "live",
           Account(Procs, buf[d].gaps, GapPlace(d), {"wait"}, {"hold"}, MaxSize - buf[d].stored),
           pc[p] = "wlock", loc[p].node = d
    PROVE  Room(d)
<1>1. GapPlace(d)[p] = "hold" BY DEF GapPlace, GapAt
<1>2. p \in Held(Procs, buf[d].gaps, GapPlace(d), {"wait"}, {"hold"}) BY <1>1 DEF Held
<1>3. MaxSize - buf[d].stored > 0 BY <1>2, UnitsBound DEF Account
<1>4. buf[d].stored \in 0 .. MaxSize /\ MaxSize \in Nat BY Constants DEF TypeInv, BufTypes
<1> QED BY <1>3, <1>4 DEF Room

LEMMA StoredHeld ==
    ASSUME TypeInv, NEW p \in Procs, NEW d \in Buffers,
           Account(Procs, buf[d].elements, ElemPlace(d), {"wait"}, {"hold"}, buf[d].stored),
           pc[p] = "rlock", loc[p].node = d
    PROVE  buf[d].stored > 0
<1>1. ElemPlace(d)[p] = "hold" BY DEF ElemPlace, ElemAt
<1>2. p \in Held(Procs, buf[d].elements, ElemPlace(d), {"wait"}, {"hold"}) BY <1>1 DEF Held
<1> QED BY <1>2, UnitsBound DEF Account

\* The account of the gaps of the buffer at work: there is room for who holds
\* one, and what is taken is there.
LEMMA WorkGap ==
    ASSUME TypeInv, NEW p \in Procs, NEW d \in Buffers, WorkKind(p, d), buf[d].state = "live",
           Account(Procs, buf[d].gaps, GapPlace(d), {"wait"}, {"hold"}, MaxSize - buf[d].stored),
           pc[p] \in {"rlock", "drainlock"} /\ ~Waiting(buf[d].mtx, p) => buf[d].stored > 0
    PROVE  Account(Procs, buf'[d].gaps, (GapPlace(d))', {"wait"}, {"hold"}, MaxSize - buf'[d].stored)
<1>1. ASSUME NEW a, NEW b, NEW m, NEW x, NEW e, NEW n, Works(p, d, a, b, m, x, e, n),
             Moves(buf[d].gaps, MaxSize - buf[d].stored, x, MaxSize - n, p, GapAt(a), GapAt(b),
                   {"wait"}, {"hold"})
      PROVE  Account(Procs, buf'[d].gaps, (GapPlace(d))', {"wait"}, {"hold"},
                     MaxSize - buf'[d].stored)
  <2>1. /\ GapPlace(d)[p] = GapAt(a) /\ (GapPlace(d))'[p] = GapAt(b)
        /\ \A q \in Procs : q # p => (GapPlace(d))'[q] = GapPlace(d)[q]
    BY <1>1, PlacesStep DEF Works
  <2>2. buf'[d].gaps = x /\ buf'[d].stored = n BY <1>1 DEF Works
  <2> DEFINE f == GapPlace(d)
             h == (GapPlace(d))'
  <2> HIDE DEF f, h
  <2>3. Account(Procs, x, h, {"wait"}, {"hold"}, MaxSize - n)
    BY <1>1, <2>1, AccountStep DEF f, h
  <2> QED BY <2>2, <2>3 DEF h
<1>2. /\ GapAt("gap") = "wait" /\ GapAt("wlock") = "hold" /\ GapAt("wundo") = "hold"
      /\ GapAt("free") = "hold" /\ GapAt("drainup") = "hold"
      /\ \A a : a \notin {"gap", "wlock", "wundo", "free", "drainup"} => GapAt(a) = "off"
  BY DEF GapAt
<1>3. buf[d].stored \in 0 .. MaxSize /\ MaxSize \in Nat BY Constants DEF TypeInv, BufTypes
<1>4. pc[p] = "wlock" /\ loc[p].node = d => Room(d) BY RoomHeld
<1>5. /\ MaxSize - (buf[d].stored + 1) = (MaxSize - buf[d].stored) - 1
      /\ buf[d].stored > 0 => MaxSize - Fewer(buf[d].stored) = (MaxSize - buf[d].stored) + 1
  BY <1>3 DEF Fewer
<1>6. \A a, b, m, x, e, n : Works(p, d, a, b, m, x, e, n) =>
         pc[p] = a /\ (a # "idle" => loc[p].node = d)
  BY DEF Works
<1>7. \E a, b, m, x, e, n :
         /\ Works(p, d, a, b, m, x, e, n)
         /\ Moves(buf[d].gaps, MaxSize - buf[d].stored, x, MaxSize - n, p, GapAt(a), GapAt(b),
                  {"wait"}, {"hold"})
  BY <1>2, <1>4, <1>5, <1>6, SMTT(60) DEF WorkKind, Moves
<1> QED BY <1>1, <1>7

\* The account of its elements, but for a drain.
LEMMA WorkElem ==
    ASSUME TypeInv, NEW p \in Procs, NEW d \in Buffers, WorkKind(p, d), buf[d].state = "live",
           Account(Procs, buf[d].elements, ElemPlace(d), {"wait"}, {"hold"}, buf[d].stored),
           pc[p] = "wlock" => Room(d),
           pc[p] \notin {"drain", "drainlock", "drainup"}
    PROVE  Account(Procs, buf'[d].elements, (ElemPlace(d))', {"wait"}, {"hold"}, buf'[d].stored)
<1>1. ASSUME NEW a, NEW b, NEW m, NEW g, NEW x, NEW n, Works(p, d, a, b, m, g, x, n),
             Moves(buf[d].elements, buf[d].stored, x, n, p, ElemAt(a), ElemAt(b),
                   {"wait"}, {"hold"})
      PROVE  Account(Procs, buf'[d].elements, (ElemPlace(d))', {"wait"}, {"hold"}, buf'[d].stored)
  <2>1. /\ ElemPlace(d)[p] = ElemAt(a) /\ (ElemPlace(d))'[p] = ElemAt(b)
        /\ \A q \in Procs : q # p => (ElemPlace(d))'[q] = ElemPlace(d)[q]
    BY <1>1, PlacesStep DEF Works
  <2>2. buf'[d].elements = x /\ buf'[d].stored = n BY <1>1 DEF Works
  <2> DEFINE f == ElemPlace(d)
             h == (ElemPlace(d))'
  <2> HIDE DEF f, h
  <2>3. Account(Procs, x, h, {"wait"}, {"hold"}, n)
    BY <1>1, <2>1, AccountStep DEF f, h
  <2> QED BY <2>2, <2>3 DEF h
<1>2. /\ ElemAt("elem") = "wait" /\ ElemAt("rlock") = "hold" /\ ElemAt("rundo") = "hold"
      /\ ElemAt("post") = "hold"
      /\ \A a : a \notin {"elem", "rlock", "rundo", "post"} => ElemAt(a) = "off"
  BY DEF ElemAt
<1>3. buf[d].stored \in 0 .. MaxSize /\ MaxSize \in Nat BY Constants DEF TypeInv, BufTypes
<1>4. pc[p] = "rlock" /\ loc[p].node = d => buf[d].stored > 0 BY StoredHeld
<1>5. buf[d].stored > 0 => Fewer(buf[d].stored) = buf[d].stored - 1 BY DEF Fewer
<1>6. \A a, b, m, g, x, n : Works(p, d, a, b, m, g, x, n) =>
         pc[p] = a /\ (a # "idle" => loc[p].node = d)
  BY DEF Works
<1>7. \E a, b, m, g, x, n :
         /\ Works(p, d, a, b, m, g, x, n)
         /\ Moves(buf[d].elements, buf[d].stored, x, n, p, ElemAt(a), ElemAt(b),
                  {"wait"}, {"hold"})
  BY <1>2, <1>4, <1>5, <1>6, SMTT(60) DEF WorkKind, Moves
<1> QED BY <1>1, <1>7

\* When a deletion ends, no buffer of its name is left.
LEMMA NoneLeft ==
    ASSUME CoreInv, NEW p \in Procs, Walk(p) \/ Unlist(p), \E k : FindsNone(p, k),
           NEW d \in Buffers, buf[d].state = "live"
    PROVE  buf[d].name # loc[p].name
<1>1. pc[p] \in {"walk", "unlist"} /\ pc'[p] = "idle" BY DEF Walk, Unlist, Granted, FindsNone
<1>2. p \in Admins /\ \A q \in Admins : ~Creating(q)
  BY <1>1, OneAdmin DEF CoreInv, RemovePCs
<1>3. Linked(d) BY <1>2 DEF CoreInv, ListInv
<1>4. PICK j \in DOMAIN list : list[j] = d BY <1>3 DEF Linked, Occurs
<1>5. DOMAIN list = 1 .. Len(list) /\ Len(list) \in Nat BY LenProperties DEF CoreInv, TypeInv
<1>6. CASE Walk(p)
  <2>1. FindsNone(p, 1) BY <1>1, <1>6, WalkIs DEF CoreInv, Finds
  <2> QED BY <1>4, <1>5, <2>1 DEF FindsNone
<1>7. CASE Unlist(p)
  <2>1. PICK k \in DOMAIN list : list[k] = loc[p].node /\ FindsNone(p, k + 1) /\ pc[p] = "unlist"
    BY <1>1, <1>7, UnlistIs DEF CoreInv, Finds
  <2>2. PICK i \in DOMAIN list : /\ list[i] = loc[p].node
                                 /\ \A m \in 1 .. i - 1 : buf[list[m]].name # loc[p].name
    BY <1>2, <2>1 DEF CoreInv, RemoveInv, Removing, RemovePCs, Stands
  <2>3. i = k BY <2>1, <2>2 DEF CoreInv, ListInv, Distinct
  <2>4. buf[list[k]].state = "freed"
    BY <1>2, <2>1 DEF CoreInv, RemoveInv, Removing, RemovePCs, Phase
  <2>5. j # k BY <1>4, <2>4
  <2>6. CASE j < k BY <1>4, <1>5, <2>2, <2>3, <2>6
  <2>7. CASE j > k
    <3>1. j \in k + 1 .. Len(list) BY <1>4, <1>5, <2>7
    <3> QED BY <1>4, <2>1, <3>1 DEF FindsNone
  <2> QED BY <1>5, <2>5, <2>6, <2>7
<1> QED BY <1>6, <1>7

\* A mark on the name of a live buffer stays.
LEMMA MarkStays ==
    ASSUME CoreInv, NEW p \in Procs, Call(p) \/ Run(p) \/ Interrupt(p),
           NEW d \in Buffers, buf[d].state = "live", buf[d].name \notin overlapped'
    PROVE  buf[d].name \notin overlapped
<1>1. CASE Walk(p) \/ Unlist(p)
  <2>1. \E k : \/ Finds(p, k) /\ overlapped' = IF Busy(loc[p].name)
                                         THEN overlapped \cup {loc[p].name} ELSE overlapped
               \/ FindsNone(p, k) /\ overlapped' = overlapped \ {loc[p].name}
    BY <1>1, WalkIs, UnlistIs DEF CoreInv
  <2>2. CASE \E k : FindsNone(p, k) /\ overlapped' = overlapped \ {loc[p].name}
    BY <1>1, <2>2, NoneLeft
  <2> QED BY <2>1, <2>2
<1>2. CASE CallWrite(p) \/ CallRead(p)
  <2>1. PICK e, place : EnterBuffer(p, e, place)
    <3>1. CASE CallWrite(p) BY <3>1, Zenon DEF CallWrite
    <3>2. CASE CallRead(p) BY <3>2, Zenon DEF CallRead
    <3> QED BY <1>2, <3>1, <3>2
  <2> QED BY <2>1 DEF EnterBuffer
<1>3. CASE overlapped' = overlapped BY <1>3
<1> QED BY <1>1, <1>2, <1>3, ListSteps DEF CoreInv

\* A removal that no call takes part in goes on to the end.
LEMMA RemovalStays ==
    ASSUME CoreInv, QuietInv, NEW p \in Procs, Call(p) \/ Run(p) \/ Interrupt(p),
           NEW d \in Buffers, buf[d].state = "live", buf[d].name \notin overlapped,
           Removed(buf[d].name)
    PROVE  (Removing(p) \/ p \in Users) /\ \E r \in Admins : (Removing(r))' /\ loc'[r].name = buf[d].name
<1>1. PICK r \in Admins : Removing(r) /\ loc[r].name = buf[d].name BY DEF Removed
<1>2. r \in Procs /\ r \notin Users BY Constants
<1>3. CASE r # p
  <2>1. p \in Users /\ \E e \in Buffers : WorkKind(p, e) BY <1>1, <1>3, WhileRemoving
  <2>2. pc'[r] = pc[r] /\ loc'[r] = loc[r] BY <1>2, <1>3, <2>1, WorkAt
  <2> QED BY <1>1, <2>1, <2>2 DEF Removing
<1>4. CASE r = p
  <2>1. CASE InterruptList(p)
    <3>1. pc' = pc /\ loc' = loc BY <2>1 DEF InterruptList
    <3> QED BY <1>1, <1>4, <3>1 DEF Removing
  <2>2. CASE Unlist(p)
    <3>1. \E k : Finds(p, k) \/ FindsNone(p, k) BY <2>2, UnlistIs DEF CoreInv
    <3>2. PICK k : Finds(p, k) BY <1>1, <1>4, <2>2, <3>1, NoneLeft
    <3> QED BY <1>1, <1>4, <3>2 DEF Finds, Removing, RemovePCs
  <2>3. CASE pc[p] # "unlist"
    <3>1. \/ Onward(p) \/ Leave(p) \/ EnterKind(p) \/ UseKind(p) \/ CreateKind(p)
          \/ AddAppend(p) \/ WalkKind(p) \/ FreeBuffer(p) \/ Unlink(p) \/ Rundown(p)
          \/ UnlistKind(p)
      BY KindsOf DEF CoreInv
    <3>2. pc[p] \in RemovePCs BY <1>1, <1>4 DEF Removing
    <3>3. ~Leave(p)
      <4>1. SUFFICES ASSUME Leave(p) PROVE FALSE OBVIOUS
      <4>2. pc[p] = "drainlock" /\ Waiting(buf[loc[p].node].mtx, p)
        BY <3>2, <4>1 DEF Leave, RemovePCs, UserPCs
      <4>3. /\ loc[p].node \in Buffers /\ buf[loc[p].node].state = "live"
            /\ buf[loc[p].node].name = loc[p].name
        BY <1>1, <1>4, <4>2 DEF CoreInv, Control, RemoveInv, Phase, RemovePCs
      <4>4. PICK h \in Procs : /\ h # p /\ loc[h].node = loc[p].node
                               /\ pc[h] \in {"wlock", "rlock", "drainlock"}
        BY <4>2, <4>3, WaitsForOne DEF CoreInv
      <4>5. h \in Users
        <5>1. h \in Admins => pc[h] = "idle" BY <3>2, <4>4, OneAdmin DEF CoreInv
        <5> QED BY <4>4, <5>1, Constants
      <4>6. Undisturbed(p) BY <1>1, <1>4 DEF QuietInv, Undisturbed
      <4> QED BY <4>3, <4>4, <4>5, <4>6 DEF Undisturbed
    <3>4. Onward(p) \/ FreeBuffer(p) \/ Unlink(p) \/ Rundown(p)
      <4>1. ~AddAppend(p) BY <3>2, AppendIs DEF CoreInv, RemovePCs
      <4> QED BY <2>3, <3>1, <3>2, <3>3, <4>1
          DEF EnterKind, UseKind, CreateKind, WalkKind, UnlistKind, RemovePCs
    <3>5. pc'[p] \in RemovePCs /\ loc'[p].name = loc[p].name
      BY <3>2, <3>4, RemovalIs DEF CoreInv, Onward, RemovePCs, UserPCs
    <3> QED BY <1>1, <1>4, <3>5 DEF Removing
  <2>4. CASE pc[p] = "unlist" BY <2>1, <2>2, <2>4, WalkSteps DEF Walk, Granted
  <2> QED BY <2>3, <2>4
<1> QED BY <1>3, <1>4

LEMMA WorkNode ==
    ASSUME NEW p \in Procs, NEW d \in Buffers, WorkKind(p, d), pc[p] # "idle"
    PROVE  loc[p].node = d
<1>1. \A a, b, m, g, x, n : Works(p, d, a, b, m, g, x, n) =>
         pc[p] = a /\ (a # "idle" => loc[p].node = d)
  BY DEF Works
<1> QED BY <1>1 DEF WorkKind

\* Nobody is in a call on a buffer that is not allocated.
LEMMA NobodyAt ==
    ASSUME CoreInv, NEW p \in Procs, pc[p] = "create", NEW d \in Buffers, buf[d].state = "freed",
           NEW q \in Procs
    PROVE  pc[q] \notin BufferPCs \/ loc[q].node # d
<1>1. SUFFICES ASSUME pc[q] \in BufferPCs, loc[q].node = d PROVE FALSE OBVIOUS
<1>2. q \notin Users BY <1>1 DEF CoreInv, UseInv, BufferPCs, UserPCs
<1>3. q \in Admins /\ Removing(q)
  BY <1>1, <1>2, Constants DEF CoreInv, Control, Removing, RemovePCs, BufferPCs, UserPCs, CreatePCs
<1> QED BY <1>3, OneAdmin DEF CoreInv, CreatePCs

\* What is taken from a buffer is there.
LEMMA StoredTaken ==
    ASSUME CoreInv, QuietInv, ElemInv, NEW p \in Procs, NEW d \in Buffers,
           buf[d].state = "live", buf[d].name \notin overlapped,
           loc[p].node = d, pc[p] \in {"rlock", "drainlock"}
    PROVE  buf[d].stored > 0
<1>1. CASE pc[p] = "rlock"
  <2>1. p \in Users BY <1>1, AdminAt DEF CoreInv, UserPCs
  <2>2. ~Removed(buf[d].name) BY <1>1, <2>1 DEF QuietInv, Removed
  <2> QED BY <1>1, <2>2, StoredHeld DEF ElemInv, CoreInv
<1>2. CASE pc[p] = "drainlock"
  <2>1. Removing(p) /\ p \in Admins BY <1>2, AdminAt DEF CoreInv, UserPCs, Removing, RemovePCs
  <2>2. buf[d].name = loc[p].name BY <1>2, <2>1 DEF CoreInv, RemoveInv, Phase
  <2> QED BY <1>2, <2>1, <2>2 DEF QuietInv
<1> QED BY <1>1, <1>2

GapAccount(d) == Account(Procs, buf[d].gaps, GapPlace(d), {"wait"}, {"hold"}, MaxSize - buf[d].stored)
ElemAccount(d) == Account(Procs, buf[d].elements, ElemPlace(d), {"wait"}, {"hold"}, buf[d].stored)

LEMMA InitUnits == Init => GapInv /\ ElemInv
<1> SUFFICES ASSUME Init, NEW d \in Buffers, buf[d].state = "live"
             PROVE  GapAccount(d) /\ ElemAccount(d)
  BY DEF GapInv, ElemInv, GapAccount, ElemAccount
<1>1. buf[d] = IF d = 1 THEN NewBuffer(Test, TRUE) ELSE Freed BY DEF Init
<1>2. buf[d].gaps = SemInit(MaxSize) /\ buf[d].elements = SemInit(0) /\ buf[d].stored = 0
  BY <1>1 DEF NewBuffer, Freed
<1>3. \A q \in Procs : pc[q] = "idle" BY DEF Init
<1>4. \A q \in Procs : /\ GapPlace(d)[q] \notin {"wait"} \cup {"hold"}
                       /\ ElemPlace(d)[q] \notin {"wait"} \cup {"hold"}
  BY <1>3 DEF GapPlace, GapAt, ElemPlace, ElemAt
<1>5. IsFiniteSet(Procs) /\ MaxSize \in Nat /\ 0 \in Nat /\ MaxSize - 0 = MaxSize BY Constants
<1> QED BY <1>2, <1>4, <1>5, AccountInit DEF GapAccount, ElemAccount

\* Who has a gap or an element of d is in a call on it.
LEMMA SamePlaces ==
    ASSUME NEW p \in Procs, \A q \in Procs : q # p => pc'[q] = pc[q] /\ loc'[q] = loc[q],
           NEW d \in Buffers, buf'[d] = buf[d],
           pc[p] \notin BufferPCs \/ loc[p].node # d,
           pc'[p] \notin BufferPCs \/ loc'[p].node # d
    PROVE  /\ GapAccount(d) => (GapAccount(d))'
           /\ ElemAccount(d) => (ElemAccount(d))'
<1>1. (GapPlace(d))' = GapPlace(d) /\ (ElemPlace(d))' = ElemPlace(d) BY PlacesStep
<1> QED BY <1>1 DEF GapAccount, ElemAccount

LEMMA NextUnits ==
    ASSUME CoreInv, QuietInv, GapInv, ElemInv, [Next]_vars
    PROVE  GapInv' /\ ElemInv'
<1>1. CASE UNCHANGED vars
  BY <1>1 DEF vars, ghost, GapInv, ElemInv, GapPlace, ElemPlace, Removed, Removing
<1>2. CASE Next
  <2>1. PICK p \in Procs : Call(p) \/ Run(p) \/ Interrupt(p) BY <1>2 DEF Next
  <2>2. SUFFICES ASSUME NEW d \in Buffers, buf'[d].state = "live", buf'[d].name \notin overlapped'
                 PROVE  /\ (GapAccount(d))'
                        /\ ~(Removed(buf[d].name))' => (ElemAccount(d))'
    BY DEF GapInv, ElemInv, GapAccount, ElemAccount
  <2>3. \/ AsideKind(p)
        \/ \E e \in Buffers : WorkKind(p, e) \/ AllocKind(p, e) \/ FreeKind(p, e)
    BY <2>1, BufferKinds DEF CoreInv
  <2>4. CASE AllocKind(p, d)
    <3>1. /\ pc[p] = "create" /\ pc'[p] = "add" /\ buf[d].state = "freed"
          /\ \A q \in Procs : q # p => pc'[q] = pc[q] /\ loc'[q] = loc[q]
      BY <2>4 DEF AllocKind, CreateKind
    <3>2. /\ buf'[d].gaps = SemInit(MaxSize) /\ buf'[d].elements = SemInit(0)
          /\ buf'[d].stored = 0
      BY <2>4 DEF AllocKind, NewBuffer
    <3>3. \A q \in Procs : pc'[q] \notin BufferPCs \/ loc'[q].node # d
      BY <3>1, NobodyAt DEF BufferPCs, UserPCs
    <3>4. \A q \in Procs : /\ (GapPlace(d))'[q] \notin {"wait"} \cup {"hold"}
                           /\ (ElemPlace(d))'[q] \notin {"wait"} \cup {"hold"}
      BY <3>3 DEF GapPlace, GapAt, ElemPlace, ElemAt, BufferPCs, UserPCs
    <3>5. IsFiniteSet(Procs) /\ MaxSize \in Nat /\ 0 \in Nat /\ MaxSize - 0 = MaxSize BY Constants
    <3> QED BY <3>2, <3>4, <3>5, AccountInit DEF GapAccount, ElemAccount
  <2>5. CASE ~AllocKind(p, d)
    <3>1. /\ buf[d].state = "live" /\ buf[d].name = buf'[d].name
          /\ \/ WorkKind(p, d)
             \/ /\ buf'[d] = buf[d]
                /\ pc[p] \notin BufferPCs \/ loc[p].node # d
                /\ pc'[p] \notin BufferPCs \/ loc'[p].node # d
          /\ \A q \in Procs : q # p => pc'[q] = pc[q] /\ loc'[q] = loc[q]
      <4>1. CASE AsideKind(p) BY <2>2, <4>1 DEF AsideKind
      <4>2. CASE \E e \in Buffers : WorkKind(p, e)
        <5>1. PICK e \in Buffers : WorkKind(p, e) BY <4>2
        <5>2. CASE e = d BY <2>2, <5>1, <5>2, WorkAt
        <5>3. CASE e # d
          <6>1. /\ buf'[d] = buf[d]
                /\ pc[p] \notin BufferPCs \/ loc[p].node # d
                /\ pc'[p] \notin BufferPCs \/ loc'[p].node # d
                /\ \A q \in Procs : q # p => pc'[q] = pc[q] /\ loc'[q] = loc[q]
            BY <5>1, <5>3 DEF WorkKind, Works, BufferPCs, UserPCs
          <6> QED BY <2>2, <6>1
        <5> QED BY <5>2, <5>3
      <4>3. CASE \E e \in Buffers : AllocKind(p, e)
        BY <2>2, <2>5, <4>3 DEF AllocKind, CreateKind, BufferPCs, UserPCs
      <4>4. CASE \E e \in Buffers : FreeKind(p, e)
        BY <2>2, <4>4 DEF FreeKind, Freed, BufferPCs, UserPCs
      <4> QED BY <2>3, <4>1, <4>2, <4>3, <4>4
    <3>2. buf[d].name \notin overlapped BY <2>1, <2>2, <3>1, MarkStays
    <3>3. GapAccount(d) BY <3>1, <3>2 DEF GapInv, GapAccount
    <3>4. pc[p] # "idle" /\ WorkKind(p, d) => loc[p].node = d BY WorkNode
    <3>5. CASE WorkKind(p, d)
      <4>1. pc[p] \in {"rlock", "drainlock"} => buf[d].stored > 0
        BY <3>1, <3>2, <3>4, <3>5, StoredTaken
      <4>2. (GapAccount(d))' BY <3>1, <3>3, <3>5, <4>1, WorkGap DEF GapAccount, CoreInv
      <4>3. ASSUME ~(Removed(buf[d].name))' PROVE (ElemAccount(d))'
        <5>1. ~Removed(buf[d].name)
          BY <2>1, <3>1, <3>2, <4>3, RemovalStays DEF Removed
        <5>2. ElemAccount(d) BY <3>1, <3>2, <5>1 DEF ElemInv, ElemAccount
        <5>3. pc[p] = "wlock" => Room(d)
          BY <3>1, <3>3, <3>4, <3>5, RoomHeld DEF GapAccount, CoreInv
        <5>4. pc[p] \notin {"drain", "drainlock", "drainup"}
          <6>1. SUFFICES ASSUME pc[p] \in {"drain", "drainlock", "drainup"} PROVE FALSE OBVIOUS
          <6>2. p \in Admins /\ Removing(p)
            BY <6>1, AdminAt DEF CoreInv, UserPCs, Removing, RemovePCs
          <6>3. buf[d].name = loc[p].name
            BY <3>4, <3>5, <6>1, <6>2 DEF CoreInv, RemoveInv, Phase
          <6> QED BY <5>1, <6>2, <6>3 DEF Removed
        <5> QED BY <3>1, <3>5, <5>2, <5>3, <5>4, WorkElem DEF ElemAccount, CoreInv
      <4> QED BY <4>2, <4>3
    <3>6. CASE ~WorkKind(p, d)
      <4>1. (GapAccount(d))' BY <3>1, <3>3, <3>6, SamePlaces
      <4>2. ASSUME ~(Removed(buf[d].name))' PROVE (ElemAccount(d))'
        <5>1. ~Removed(buf[d].name)
          BY <2>1, <3>1, <3>2, <4>2, RemovalStays DEF Removed
        <5>2. ElemAccount(d) BY <3>1, <3>2, <5>1 DEF ElemInv, ElemAccount
        <5> QED BY <3>1, <3>6, <5>2, SamePlaces
      <4> QED BY <4>1, <4>2
    <3> QED BY <3>5, <3>6
  <2> QED BY <2>4, <2>5
<1> QED BY <1>1, <1>2

-----------------------------------------------------------------------------
(* The strings. *)

\* What a step of a buffer does to the string of its process.
LEMMA WorkGot ==
    ASSUME NEW p \in Procs, NEW d \in Buffers, WorkKind(p, d),
           loc[p].got = "string" => pc[p] \in {"free", "drainup"}
    PROVE  loc'[p].got = "string" =>
              \/ pc[p] = "rlock" /\ pc'[p] = "free"
              \/ pc[p] = "drainlock" /\ pc'[p] = "drainup"
<1>1. \A a, b, m, g, x, n : Works(p, d, a, b, m, g, x, n) => pc[p] = a /\ pc'[p] = b
  BY DEF Works
<1> QED BY <1>1 DEF WorkKind, Strings

LEMMA NextGot ==
    ASSUME CoreInv, CoreInv', GotInv, [Next]_vars
    PROVE  GotInv'
<1>1. CASE UNCHANGED vars BY <1>1 DEF vars, GotInv
<1>2. CASE Next
  <2>1. PICK p \in Procs : Call(p) \/ Run(p) \/ Interrupt(p) BY <1>2 DEF Next
  <2>2. \/ AsideKind(p)
        \/ \E d \in Buffers : WorkKind(p, d) \/ AllocKind(p, d) \/ FreeKind(p, d)
    BY <2>1, BufferKinds DEF CoreInv
  <2>3. \A q \in Procs : q # p => pc'[q] = pc[q] /\ loc'[q] = loc[q]
    BY <2>2, WorkAt DEF AsideKind, AllocKind, CreateKind, FreeKind
  <2>4. loc[p].got = "string" => pc[p] \in {"free", "drainup"}
    BY Constants DEF GotInv
  <2>5. p \in Users => pc[p] \notin {"drain", "drainlock", "drainup"}
    BY DEF CoreInv, Control, UserPCs
  <2>6. p \in Admins => pc[p] \notin UserPCs
    BY Constants, AdminAt DEF CoreInv
  <2>7. loc'[p].got = "string" =>
           \/ p \in Users /\ pc'[p] = "free"
           \/ p \in Admins /\ pc'[p] = "drainup"
    <3>1. CASE AsideKind(p) BY <2>4, <3>1 DEF AsideKind, BufferPCs, UserPCs
    <3>2. CASE \E d \in Buffers : WorkKind(p, d)
      BY <2>4, <2>5, <2>6, <3>2, WorkGot, Constants DEF UserPCs
    <3>3. CASE \E d \in Buffers : AllocKind(p, d)
      BY <2>4, <3>3 DEF AllocKind, CreateKind, Strings
    <3>4. CASE \E d \in Buffers : FreeKind(p, d) BY <2>4, <3>4 DEF FreeKind, Strings
    <3> QED BY <2>2, <3>1, <3>2, <3>3, <3>4
  <2>8. ASSUME NEW q \in Admins, pc'[q] = "drainlock" PROVE ~buf'[loc'[q].node].isInt
    <3>1. CASE q = p
      <4>1. PICK d \in Buffers : WorkKind(p, d)
        BY <2>2, <2>8, <3>1 DEF AsideKind, AllocKind, CreateKind, FreeKind, BufferPCs
      <4>2. ~buf[d].isInt /\ buf'[d].isInt = buf[d].isInt BY <2>8, <3>1, <4>1, WorkAt
      <4>3. loc'[p].node = d
        <5>1. \A a, b, m, g, x, n : Works(p, d, a, b, m, g, x, n) =>
                 pc'[p] = b /\ (b # "idle" => loc'[p].node = d)
          BY DEF Works
        <5> QED BY <2>8, <3>1, <4>1, <5>1 DEF WorkKind
      <4> QED BY <3>1, <4>2, <4>3
    <3>2. CASE q # p
      <4>1. q \in Procs /\ pc'[q] = pc[q] /\ loc'[q] = loc[q] BY <2>3, <3>2, Constants
      <4>2. Removing(q) BY <2>8, <4>1 DEF Removing, RemovePCs
      <4>3. PICK d \in Buffers : WorkKind(p, d) BY <2>1, <3>2, <4>2, WhileRemoving
      <4>4. loc[q].node \in Buffers BY <2>8, <4>1 DEF CoreInv, Control, RemovePCs
      <4>5. buf'[loc[q].node].isInt = buf[loc[q].node].isInt BY <4>3, <4>4, WorkAt
      <4> QED BY <2>8, <4>1, <4>5 DEF GotInv
    <3> QED BY <3>1, <3>2
  <2>9. \A u \in Users : loc'[u].got = "string" => pc'[u] = "free"
    BY <2>3, <2>7, Constants DEF GotInv
  <2>10. \A q \in Admins : loc'[q].got = "string" => pc'[q] = "drainup"
    BY <2>3, <2>7, Constants DEF GotInv
  <2> QED BY <2>8, <2>9, <2>10 DEF GotInv
<1> QED BY <1>1, <1>2

\* p has a string.
Has(p) == \/ pc[p] \in {"gap", "wlock", "wundo"} /\ ~buf[loc[p].node].isInt
          \/ loc[p].got = "string"

\* What a step of a buffer does to the strings there are: nothing; p allocates
\* one, or frees or loses its own; it stores its own, or takes one.
LEMMA WorkStrings ==
    ASSUME CoreInv, GotInv, NEW p \in Procs, NEW d \in Buffers, WorkKind(p, d)
    PROVE  \/ heap' = heap /\ ((Has(p))' <=> Has(p)) /\ (buf[d].isInt \/ buf'[d].stored = buf[d].stored)
           \/ heap' = heap + 1 /\ ~Has(p) /\ (Has(p))' /\ buf'[d].stored = buf[d].stored
           \/ heap' = heap - 1 /\ Has(p) /\ ~(Has(p))' /\ buf'[d].stored = buf[d].stored
           \/ /\ heap' = heap /\ Has(p) /\ ~(Has(p))'
              /\ ~buf[d].isInt /\ Room(d) /\ buf'[d].stored = buf[d].stored + 1
           \/ /\ heap' = heap /\ ~Has(p) /\ (Has(p))'
              /\ ~buf[d].isInt /\ buf[d].stored > 0 /\ buf'[d].stored = buf[d].stored - 1
<1> DEFINE i   == buf[d].isInt
           n   == buf[d].stored
           In(a) == a \in {"gap", "wlock", "wundo"}
<1>1. /\ buf[d].isInt \in BOOLEAN /\ n \in Nat /\ heap \in Int
  BY Constants DEF CoreInv, TypeInv, BufTypes
<1>2. loc[p].got = "string" => pc[p] \in {"free", "drainup"} BY Constants DEF GotInv
<1>3. pc[p] = "idle" => loc[p].got = "null" BY DEF CoreInv, Control, NoLocals
<1>4. ASSUME NEW a, NEW b, NEW m, NEW g, NEW x, NEW k, Works(p, d, a, b, m, g, x, k)
      PROVE  /\ pc[p] = a /\ pc'[p] = b /\ buf'[d].stored = k
             /\ Has(p) <=> (In(a) /\ ~i) \/ loc[p].got = "string"
             /\ (Has(p))' <=> (In(b) /\ ~i) \/ loc'[p].got = "string"
  <2>1. /\ pc[p] = a /\ pc'[p] = b /\ buf'[d].stored = k
        /\ In(a) => loc[p].node = d
        /\ In(b) => loc'[p].node = d
        /\ buf'[d].isInt = buf[d].isInt
    BY <1>4 DEF Works
  <2>2. Has(p) <=> (In(a) /\ ~i) \/ loc[p].got = "string" BY <2>1 DEF Has
  <2>3. (Has(p))' <=> (In(b) /\ ~i) \/ loc'[p].got = "string" BY <2>1 DEF Has
  <2> QED BY <2>1, <2>2, <2>3
<1>5. \A m, g, x, k : Works(p, d, "drainlock", "drainup", m, g, x, k) => loc[p].node = d
  BY DEF Works
<1>6. pc[p] = "drainlock" => ~buf[loc[p].node].isInt
  BY AdminAt DEF CoreInv, GotInv, UserPCs
<1>7. /\ n > 0 => Fewer(n) = n - 1
      /\ ~(n > 0) => Fewer(n) = n
  BY <1>1 DEF Fewer
<1>8. heap + 0 = heap /\ heap - 0 = heap BY <1>1
<1> HIDE DEF i, n
<1> QED BY <1>1, <1>2, <1>3, <1>4, <1>5, <1>6, <1>7, <1>8, SMTT(100) DEF WorkKind, Strings, i, n

\* How many strings d stores.
StringsIn(d) == IF buf[d].isInt THEN 0 ELSE buf[d].stored

LEMMA StoreIs ==
    ASSUME TypeInv
    PROVE  /\ IsFiniteSet(InStore)
           /\ InStore \subseteq Buffers \X (1 .. MaxSize)
           /\ \A e \in Buffers, i \in 1 .. MaxSize : <<e, i>> \in InStore <=> i <= StringsIn(e)
           /\ \A e \in Buffers : StringsIn(e) \in 0 .. MaxSize
<1>1. MaxBuffers \in Nat /\ MaxSize \in Nat BY Constants
<1>2. IsFiniteSet(Buffers) /\ IsFiniteSet(1 .. MaxSize) BY <1>1, FS_Interval DEF Buffers
<1>3. IsFiniteSet(Buffers \X (1 .. MaxSize)) BY <1>2, FS_Product
<1>4. InStore \subseteq Buffers \X (1 .. MaxSize) BY DEF InStore
<1>5. IsFiniteSet(InStore) BY <1>3, <1>4, FS_Subset
<1>6. \A e \in Buffers : buf[e].stored \in 0 .. MaxSize /\ buf[e].isInt \in BOOLEAN
  BY DEF TypeInv, BufTypes
<1>7. \A e \in Buffers : StringsIn(e) \in 0 .. MaxSize BY <1>1, <1>6 DEF StringsIn
<1>8. ASSUME NEW e \in Buffers, NEW i \in 1 .. MaxSize
      PROVE  <<e, i>> \in InStore <=> i <= StringsIn(e)
  <2>1. <<e, i>> \in InStore <=> ~buf[e].isInt /\ i <= buf[e].stored BY DEF InStore
  <2>2. CASE buf[e].isInt BY <1>1, <2>1, <2>2 DEF StringsIn
  <2>3. CASE ~buf[e].isInt BY <2>1, <2>3 DEF StringsIn
  <2> QED BY <2>2, <2>3
<1> QED BY <1>4, <1>5, <1>7, <1>8

\* One string more or less in d, and none elsewhere.
LEMMA StoreStep ==
    ASSUME TypeInv, TypeInv', NEW d \in Buffers,
           \A e \in Buffers : e # d => (StringsIn(e))' = StringsIn(e)
    PROVE  /\ (StringsIn(d))' = StringsIn(d) => InStore' = InStore
           /\ (StringsIn(d))' = StringsIn(d) + 1 =>
                 \E s : s \notin InStore /\ InStore' = InStore \cup {s}
           /\ (StringsIn(d))' = StringsIn(d) - 1 =>
                 \E s \in InStore : InStore' = InStore \ {s}
<1> DEFINE All == Buffers \X (1 .. MaxSize)
<1>1. /\ InStore \subseteq All /\ InStore' \subseteq All
      /\ \A e \in Buffers, i \in 1 .. MaxSize : <<e, i>> \in InStore <=> i <= StringsIn(e)
      /\ \A e \in Buffers, i \in 1 .. MaxSize : <<e, i>> \in InStore' <=> i <= (StringsIn(e))'
      /\ \A e \in Buffers : StringsIn(e) \in 0 .. MaxSize
      /\ \A e \in Buffers : (StringsIn(e))' \in 0 .. MaxSize
  <2>1. (InStore \subseteq Buffers \X (1 .. MaxSize)
         /\ \A e \in Buffers, i \in 1 .. MaxSize : <<e, i>> \in InStore <=> i <= StringsIn(e))'
    BY StoreIs, PTL
  <2>2. (\A e \in Buffers : StringsIn(e) \in 0 .. MaxSize)' BY StoreIs, PTL
  <2> QED BY <2>1, <2>2, StoreIs
<1>2. MaxSize \in Nat BY Constants
<1>3. \A s \in All : s[1] \in Buffers /\ s[2] \in 1 .. MaxSize /\ s = <<s[1], s[2]>> OBVIOUS
<1>4. /\ \A s \in All : s \in InStore <=> s[2] <= StringsIn(s[1])
      /\ \A s \in All : s \in InStore' <=> s[2] <= (StringsIn(s[1]))'
  BY <1>1, <1>3
<1> HIDE DEF All
<1>5. ASSUME (StringsIn(d))' = StringsIn(d) PROVE InStore' = InStore
  BY <1>1, <1>3, <1>4, <1>5, SMTT(30)
<1>6. ASSUME (StringsIn(d))' = StringsIn(d) + 1
      PROVE  \E s : s \notin InStore /\ InStore' = InStore \cup {s}
  <2> DEFINE s == <<d, StringsIn(d) + 1>>
  <2>1. StringsIn(d) + 1 \in 1 .. MaxSize BY <1>1, <1>2, <1>6
  <2>2. s \in All /\ s[1] = d /\ s[2] = StringsIn(d) + 1 BY <2>1 DEF All
  <2>3. s \notin InStore /\ s \in InStore' BY <1>1, <1>2, <1>4, <1>6, <2>2
  <2>4. ASSUME NEW t \in All, t # s PROVE t \in InStore' <=> t \in InStore
    <3>1. CASE t[1] # d BY <1>3, <1>4, <3>1
    <3>2. CASE t[1] = d
      <4>1. t[2] # StringsIn(d) + 1 BY <1>3, <2>4, <3>2
      <4> QED BY <1>1, <1>2, <1>3, <1>4, <1>6, <3>2, <4>1
    <3> QED BY <3>1, <3>2
  <2>5. InStore' = InStore \cup {s} BY <1>1, <2>2, <2>3, <2>4
  <2> QED BY <2>3, <2>5
<1>7. ASSUME (StringsIn(d))' = StringsIn(d) - 1
      PROVE  \E s \in InStore : InStore' = InStore \ {s}
  <2> DEFINE s == <<d, StringsIn(d)>>
  <2>1. StringsIn(d) \in 1 .. MaxSize BY <1>1, <1>2, <1>7
  <2>2. s \in All /\ s[1] = d /\ s[2] = StringsIn(d) BY <2>1 DEF All
  <2>3. s \in InStore /\ s \notin InStore' BY <1>1, <1>2, <1>4, <1>7, <2>2
  <2>4. ASSUME NEW t \in All, t # s PROVE t \in InStore' <=> t \in InStore
    <3>1. CASE t[1] # d BY <1>3, <1>4, <3>1
    <3>2. CASE t[1] = d
      <4>1. t[2] # StringsIn(d) BY <1>3, <2>4, <3>2
      <4> QED BY <1>1, <1>2, <1>3, <1>4, <1>7, <3>2, <4>1
    <3> QED BY <3>1, <3>2
  <2>5. InStore' = InStore \ {s} BY <1>1, <2>2, <2>3, <2>4
  <2> QED BY <2>3, <2>5
<1> QED BY <1>5, <1>6, <1>7

LEMMA InHandIs == InHand = {p \in Procs : Has(p)}
BY DEF InHand, Has

\* Nobody else gets a string or loses one.
LEMMA OthersKeep ==
    ASSUME CoreInv, CoreInv', NEW p \in Procs, Call(p) \/ Run(p) \/ Interrupt(p),
           NEW q \in Procs, q # p
    PROVE  (Has(q))' <=> Has(q)
<1>1. \/ AsideKind(p)
      \/ \E d \in Buffers : WorkKind(p, d) \/ AllocKind(p, d) \/ FreeKind(p, d)
  BY BufferKinds DEF CoreInv
<1>2. pc'[q] = pc[q] /\ loc'[q] = loc[q]
  BY <1>1, WorkAt DEF AsideKind, AllocKind, CreateKind, FreeKind
<1>3. ASSUME pc[q] \in {"gap", "wlock", "wundo"}
      PROVE  buf'[loc[q].node].isInt = buf[loc[q].node].isInt
  <2>1. q \in Users /\ loc[q].node \in Buffers BY <1>3, AdminAt DEF CoreInv, UserPCs, Control
  <2>2. PICK e \in Buffers : e = loc[q].node BY <2>1
  <2>3. buf[e].state # "freed" BY <1>3, <2>1, <2>2 DEF CoreInv, UseInv
  <2>4. buf'[e].state # "freed"
    <3>1. pc'[q] # "idle" /\ loc'[q].node = e BY <1>2, <1>3, <2>2
    <3>2. UseInv' BY DEF CoreInv
    <3> QED BY <2>1, <3>1, <3>2 DEF UseInv
  <2>5. AsideKind(p) => buf'[e].isInt = buf[e].isInt BY DEF AsideKind
  <2>6. ASSUME NEW d \in Buffers, WorkKind(p, d) PROVE buf'[e].isInt = buf[e].isInt
    BY <2>6, WorkAt
  <2>7. ASSUME NEW d \in Buffers, AllocKind(p, d) PROVE buf'[e].isInt = buf[e].isInt
    BY <2>3, <2>7 DEF AllocKind
  <2>8. ASSUME NEW d \in Buffers, FreeKind(p, d) PROVE buf'[e].isInt = buf[e].isInt
    BY <2>4, <2>8 DEF FreeKind, Freed
  <2> QED BY <1>1, <2>2, <2>5, <2>6, <2>7, <2>8
<1> QED BY <1>2, <1>3 DEF Has

\* p, that has a string or not, allocates one, frees it, stores it or takes one:
\* h strings on the heap, H those who have one, S what is in store; then h2, H2, S2.
StringMoves(p, h, H, S, h2, H2, S2) ==
    \/ h2 = h /\ H2 = H /\ S2 = S
    \/ h2 = h + 1 /\ p \notin H /\ H2 = H \cup {p} /\ S2 = S
    \/ h2 = h - 1 /\ p \in H /\ H2 = H \ {p} /\ S2 = S
    \/ h2 = h /\ p \in H /\ H2 = H \ {p} /\ \E s : s \notin S /\ S2 = S \cup {s}
    \/ h2 = h /\ p \notin H /\ H2 = H \cup {p} /\ \E s \in S : S2 = S \ {s}

\* Strings in the hands of calls, H, and in store, S: one that is allocated or
\* freed, and one that goes from the ones to the others.
LEMMA SumStep ==
    ASSUME NEW H, NEW S, IsFiniteSet(H), IsFiniteSet(S), NEW p, NEW H2, NEW S2, NEW h, NEW h2,
           h = Cardinality(H) + Cardinality(S),
           StringMoves(p, h, H, S, h2, H2, S2)
    PROVE  h2 = Cardinality(H2) + Cardinality(S2)
<1>1. Cardinality(H) \in Nat /\ Cardinality(S) \in Nat BY FS_CardinalityType
<1>2. p \notin H => Cardinality(H \cup {p}) = Cardinality(H) + 1 BY FS_AddElement
<1>3. p \in H => Cardinality(H \ {p}) = Cardinality(H) - 1 BY FS_RemoveElement
<1>4. \A s : s \notin S => Cardinality(S \cup {s}) = Cardinality(S) + 1 BY FS_AddElement
<1>5. \A s \in S : Cardinality(S \ {s}) = Cardinality(S) - 1 BY FS_RemoveElement
<1> USE DEF StringMoves
<1>6. CASE h2 = h /\ H2 = H /\ S2 = S BY <1>6
<1>7. CASE h2 = h + 1 /\ p \notin H /\ H2 = H \cup {p} /\ S2 = S BY <1>1, <1>2, <1>7
<1>8. CASE h2 = h - 1 /\ p \in H /\ H2 = H \ {p} /\ S2 = S BY <1>1, <1>3, <1>8
<1>9. CASE h2 = h /\ p \in H /\ H2 = H \ {p} /\ \E s : s \notin S /\ S2 = S \cup {s}
  <2>1. PICK s : s \notin S /\ S2 = S \cup {s} BY <1>9
  <2>2. Cardinality(S2) = Cardinality(S) + 1 BY <1>4, <2>1
  <2>3. Cardinality(H2) = Cardinality(H) - 1 BY <1>3, <1>9
  <2> QED BY <1>1, <1>9, <2>2, <2>3
<1>10. CASE h2 = h /\ p \notin H /\ H2 = H \cup {p} /\ \E s \in S : S2 = S \ {s}
  <2>1. PICK s \in S : S2 = S \ {s} BY <1>10
  <2>2. Cardinality(S2) = Cardinality(S) - 1 BY <1>5, <2>1
  <2>3. Cardinality(H2) = Cardinality(H) + 1 BY <1>2, <1>10
  <2> QED BY <1>1, <1>10, <2>2, <2>3
<1> QED BY <1>6, <1>7, <1>8, <1>9, <1>10

\* A step that is not one of a buffer at work leaves them all.
LEMMA AsideStrings ==
    ASSUME CoreInv, CoreInv', GotInv, NEW p \in Procs, Call(p) \/ Run(p) \/ Interrupt(p),
           AsideKind(p) \/ \E d \in Buffers : AllocKind(p, d) \/ FreeKind(p, d)
    PROVE  /\ (Has(p))' <=> Has(p)
           /\ \/ heap' = heap /\ \A e \in Buffers : (StringsIn(e))' = StringsIn(e)
              \/ \E d \in Buffers : /\ heap' = heap - StringsIn(d) /\ (StringsIn(d))' = 0
                                   /\ \A e \in Buffers : e # d => (StringsIn(e))' = StringsIn(e)
<1>1. loc[p].got = "string" => pc[p] \in {"free", "drainup"} BY Constants DEF GotInv
<1>2. CASE AsideKind(p)
  <2>1. ~Has(p) /\ ~(Has(p))'
    BY <1>1, <1>2 DEF AsideKind, BufferPCs, UserPCs, Has
  <2> QED BY <1>2, <2>1 DEF AsideKind, StringsIn
<1>3. ASSUME NEW d \in Buffers, AllocKind(p, d)
      PROVE  /\ heap' = heap /\ ((Has(p))' <=> Has(p))
             /\ \A e \in Buffers : (StringsIn(e))' = StringsIn(e)
  <2>1. /\ pc[p] = "create" /\ pc'[p] = "add" /\ heap' = heap /\ loc'[p].got = loc[p].got
        /\ buf[d].state = "freed" /\ buf'[d].stored = 0
        /\ \A e \in Buffers : e # d => buf'[e] = buf[e]
    BY <1>3 DEF AllocKind, CreateKind, Strings, NewBuffer
  <2>2. buf[d].stored = 0 BY <2>1 DEF CoreInv, StoreInv
  <2> QED BY <1>1, <2>1, <2>2 DEF Has, StringsIn
<1>4. ASSUME NEW d \in Buffers, FreeKind(p, d)
      PROVE  /\ (Has(p))' <=> Has(p)
             /\ heap' = heap - StringsIn(d) /\ (StringsIn(d))' = 0
             /\ \A e \in Buffers : e # d => (StringsIn(e))' = StringsIn(e)
  <2>1. /\ pc[p] \in {"drained", "rundown"} /\ pc'[p] \in {"unlink", "unlist"}
        /\ loc'[p].got = loc[p].got /\ \A e \in Buffers : e # d => buf'[e] = buf[e]
    BY <1>4 DEF FreeKind
  <2>2. ~Has(p) /\ ~(Has(p))' BY <1>1, <2>1 DEF Has
  <2>3. (StringsIn(d))' = 0 BY <1>4 DEF FreeKind, StringsIn, Freed
  <2>4. heap' = heap - StringsIn(d)
    <3>1. CASE pc[p] = "drained" BY <1>4, <3>1 DEF FreeKind, StringsIn
    <3>2. CASE pc[p] = "rundown"
      <4>1. p \in Admins /\ loc[p].node = d /\ heap' = heap
        BY <1>4, <3>2, AdminAt DEF CoreInv, UserPCs, FreeKind
      <4>2. buf[d].state = "nofifo"
        BY <3>2, <4>1 DEF CoreInv, RemoveInv, Phase, Removing, RemovePCs
      <4>3. buf[d].stored = 0 BY <4>2 DEF CoreInv, StoreInv
      <4> QED BY <4>1, <4>3 DEF StringsIn, CoreInv, TypeInv
    <3> QED BY <2>1, <3>1, <3>2
  <2> QED BY <2>1, <2>2, <2>3, <2>4 DEF StringsIn
<1> QED BY <1>2, <1>3, <1>4

\* kfifo_free() of d takes its strings from the store.
LEMMA StoreEmptied ==
    ASSUME TypeInv, TypeInv', NEW d \in Buffers, (StringsIn(d))' = 0,
           \A e \in Buffers : e # d => (StringsIn(e))' = StringsIn(e)
    PROVE  Cardinality(InStore') = Cardinality(InStore) - StringsIn(d)
<1> DEFINE All  == Buffers \X (1 .. MaxSize)
           Lost == {d} \X (1 .. StringsIn(d))
<1>1. /\ InStore \subseteq All /\ InStore' \subseteq All /\ IsFiniteSet(InStore)
      /\ \A e \in Buffers, i \in 1 .. MaxSize : <<e, i>> \in InStore <=> i <= StringsIn(e)
      /\ \A e \in Buffers, i \in 1 .. MaxSize : <<e, i>> \in InStore' <=> i <= (StringsIn(e))'
  <2>1. (InStore \subseteq Buffers \X (1 .. MaxSize)
         /\ \A e \in Buffers, i \in 1 .. MaxSize : <<e, i>> \in InStore <=> i <= StringsIn(e))'
    BY StoreIs, PTL
  <2> QED BY <2>1, StoreIs
<1>2. PICK n \in Nat : n = StringsIn(d) /\ n <= MaxSize
  <2>1. StringsIn(d) \in 0 .. MaxSize BY StoreIs
  <2> QED BY <2>1, Constants
<1>3. MaxSize \in Nat BY Constants
<1>4. Lost \subseteq InStore BY <1>1, <1>2, <1>3
<1>5. InStore' = InStore \ Lost
  <2>1. ASSUME NEW e \in Buffers, NEW i \in 1 .. MaxSize
        PROVE  <<e, i>> \in InStore' <=> <<e, i>> \in InStore /\ <<e, i>> \notin Lost
    <3>1. CASE e = d BY <1>1, <1>2, <1>3, <2>1, <3>1
    <3>2. CASE e # d BY <1>1, <2>1, <3>2
    <3> QED BY <3>1, <3>2
  <2> QED BY <1>1, <2>1
<1>6. Cardinality(Lost) = n
  <2>1. IsFiniteSet(1 .. n) /\ Cardinality(1 .. n) = n BY <1>2, FS_Interval
  <2>2. IsFiniteSet({d}) /\ Cardinality({d}) = 1 BY FS_Singleton
  <2>3. Cardinality({d} \X (1 .. n)) = Cardinality({d}) * Cardinality(1 .. n)
    <3> HIDE DEF All, Lost
    <3> QED BY <2>1, <2>2, FS_Product
  <2> QED BY <1>2, <2>1, <2>2, <2>3
<1>7. InStore \cap Lost = Lost BY <1>4
<1>8. Cardinality(InStore \ Lost) = Cardinality(InStore) - Cardinality(InStore \cap Lost)
  BY <1>1, FS_Difference
<1> QED BY <1>2, <1>5, <1>6, <1>7, <1>8

LEMMA NextStrings ==
    ASSUME CoreInv, CoreInv', GotInv, StringsAccounted, [Next]_vars
    PROVE  StringsAccounted'
<1>1. CASE UNCHANGED vars BY <1>1 DEF vars, StringsAccounted, InHand, InStore
<1>2. CASE Next
  <2>1. PICK p \in Procs : Call(p) \/ Run(p) \/ Interrupt(p) BY <1>2 DEF Next
  <2>2. \/ AsideKind(p)
        \/ \E d \in Buffers : WorkKind(p, d) \/ AllocKind(p, d) \/ FreeKind(p, d)
    BY <2>1, BufferKinds DEF CoreInv
  <2>3. \A q \in Procs : q # p => ((Has(q))' <=> Has(q)) BY <2>1, OthersKeep
  <2>4. /\ (Has(p))' => InHand' = InHand \cup {p}
        /\ ~(Has(p))' => InHand' = InHand \ {p}
        /\ p \in InHand <=> Has(p)
        /\ ((Has(p))' <=> Has(p)) => InHand' = InHand
    <3>1. InHand = {q \in Procs : Has(q)} BY InHandIs
    <3>2. InHand' = {q \in Procs : (Has(q))'} BY DEF InHand, Has
    <3> QED BY <2>3, <3>1, <3>2
  <2>5. IsFiniteSet(InStore) BY StoreIs DEF CoreInv
  <2>6. IsFiniteSet(InHand)
    <3>1. InHand \subseteq Procs BY DEF InHand
    <3> QED BY <3>1, Constants, FS_Subset
  <2>7. heap = Cardinality(InHand) + Cardinality(InStore) BY DEF StringsAccounted
  <2>8. SUFFICES
           \/ heap' = heap /\ InHand' = InHand /\ InStore' = InStore
           \/ heap' = heap + 1 /\ p \notin InHand /\ InHand' = InHand \cup {p} /\ InStore' = InStore
           \/ heap' = heap - 1 /\ p \in InHand /\ InHand' = InHand \ {p} /\ InStore' = InStore
           \/ heap' = heap /\ p \in InHand /\ InHand' = InHand \ {p}
              /\ \E s : s \notin InStore /\ InStore' = InStore \cup {s}
           \/ heap' = heap /\ p \notin InHand /\ InHand' = InHand \cup {p}
              /\ \E s \in InStore : InStore' = InStore \ {s}
           \/ StringsAccounted'
    <3>0. CASE StringsAccounted' BY <3>0
    <3> DEFINE H == InHand
               S == InStore
               H2 == InHand'
               S2 == InStore'
               h == heap
               h2 == heap'
    <3>1. IsFiniteSet(H) /\ IsFiniteSet(S) /\ h = Cardinality(H) + Cardinality(S)
      BY <2>5, <2>6, <2>7
    <3>2. CASE StringMoves(p, h, H, S, h2, H2, S2)
      <4>1. h2 = Cardinality(H2) + Cardinality(S2)
        <5> HIDE DEF H, S, H2, S2, h, h2
        <5> QED BY <3>1, <3>2, SumStep
      <4> QED BY <4>1 DEF StringsAccounted
    <3> QED BY <2>8, <3>0, <3>2 DEF StringMoves
  <2>9. CASE AsideKind(p) \/ \E d \in Buffers : AllocKind(p, d) \/ FreeKind(p, d)
    <3>1. InHand' = InHand BY <2>1, <2>4, <2>9, AsideStrings
    <3>2. CASE heap' = heap /\ \A e \in Buffers : (StringsIn(e))' = StringsIn(e)
      <4>1. InStore' = InStore BY <3>2, StoreStep, Constants DEF CoreInv
      <4> QED BY <3>1, <3>2, <4>1
    <3>3. ASSUME NEW d \in Buffers, heap' = heap - StringsIn(d), (StringsIn(d))' = 0,
                 \A e \in Buffers : e # d => (StringsIn(e))' = StringsIn(e)
          PROVE  StringsAccounted'
      <4>1. Cardinality(InStore') = Cardinality(InStore) - StringsIn(d)
        BY <3>3, StoreEmptied DEF CoreInv
      <4>2. Cardinality(InHand) \in Nat /\ Cardinality(InStore) \in Nat
        BY <2>5, <2>6, FS_CardinalityType
      <4>3. StringsIn(d) \in Int
        <5>1. StringsIn(d) \in 0 .. MaxSize BY StoreIs DEF CoreInv
        <5> QED BY <5>1
      <4>4. heap' = Cardinality(InHand) + Cardinality(InStore')
        BY <2>7, <3>3, <4>1, <4>2, <4>3
      <4> QED BY <3>1, <4>4 DEF StringsAccounted
    <3> QED BY <2>1, <2>9, <3>2, <3>3, AsideStrings
  <2>10. CASE \E d \in Buffers : WorkKind(p, d)
    <3>1. PICK d \in Buffers : WorkKind(p, d) BY <2>10
    <3>2. /\ \A e \in Buffers : e # d => (StringsIn(e))' = StringsIn(e)
          /\ buf'[d].isInt = buf[d].isInt
      BY <3>1, WorkAt DEF StringsIn
    <3>3. /\ (StringsIn(d))' = StringsIn(d) => InStore' = InStore
          /\ (StringsIn(d))' = StringsIn(d) + 1 =>
                \E s : s \notin InStore /\ InStore' = InStore \cup {s}
          /\ (StringsIn(d))' = StringsIn(d) - 1 =>
                \E s \in InStore : InStore' = InStore \ {s}
      BY <3>2, StoreStep DEF CoreInv
    <3>4. \/ heap' = heap /\ ((Has(p))' <=> Has(p)) /\ (StringsIn(d))' = StringsIn(d)
          \/ heap' = heap + 1 /\ ~Has(p) /\ (Has(p))' /\ (StringsIn(d))' = StringsIn(d)
          \/ heap' = heap - 1 /\ Has(p) /\ ~(Has(p))' /\ (StringsIn(d))' = StringsIn(d)
          \/ heap' = heap /\ Has(p) /\ ~(Has(p))' /\ (StringsIn(d))' = StringsIn(d) + 1
          \/ heap' = heap /\ ~Has(p) /\ (Has(p))' /\ (StringsIn(d))' = StringsIn(d) - 1
      <4>1. /\ buf'[d].stored = buf[d].stored \/ buf[d].isInt => (StringsIn(d))' = StringsIn(d)
            /\ ~buf[d].isInt => /\ StringsIn(d) = buf[d].stored
                                /\ (StringsIn(d))' = buf'[d].stored
        BY <3>2 DEF StringsIn
      <4> QED BY <3>1, <4>1, WorkStrings
    <3> QED BY <2>4, <3>3, <3>4
  <2> QED BY <2>2, <2>9, <2>10
<1> QED BY <1>1, <1>2

LEMMA InitStrings == Init => GotInv /\ StringsAccounted
<1> SUFFICES ASSUME Init PROVE GotInv /\ StringsAccounted OBVIOUS
<1>1. /\ \A q \in Procs : pc[q] = "idle" /\ loc[q].got = "null"
      /\ heap = 0 /\ \A d \in Buffers : buf[d] = IF d = 1 THEN NewBuffer(Test, TRUE) ELSE Freed
  BY DEF Init, NoLocals
<1>2. \A d \in Buffers : buf[d].isInt = TRUE BY <1>1 DEF NewBuffer, Freed
<1>3. InHand = {} BY <1>1 DEF InHand
<1>4. InStore = {} BY <1>2 DEF InStore
<1>5. Cardinality({}) = 0 BY FS_EmptySet
<1>6. GotInv BY <1>1, Constants DEF GotInv
<1> QED BY <1>1, <1>3, <1>4, <1>5, <1>6 DEF StringsAccounted

LEMMA AccountsMean ==
    ASSUME CoreInv, GapInv, ElemInv
    PROVE  UnitsAccounted
<1>1. SUFFICES ASSUME NEW d \in Buffers, buf[d].state = "live", buf[d].name \notin overlapped
               PROVE  /\ buf[d].gaps.count + Cardinality({p \in Procs : HoldsGap(p, d)})
                           + buf[d].stored = MaxSize
                      /\ ~Deleting(buf[d].name) =>
                           buf[d].elements.count + Cardinality({p \in Procs : HoldsElement(p, d)})
                             = buf[d].stored
  BY DEF UnitsAccounted
<1>2. buf[d].stored \in 0 .. MaxSize /\ MaxSize \in Nat BY Constants DEF CoreInv, TypeInv, BufTypes
<1>3. /\ {p \in Procs : HoldsGap(p, d)} = Held(Procs, buf[d].gaps, GapPlace(d), {"wait"}, {"hold"})
      /\ {p \in Procs : HoldsElement(p, d)}
           = Held(Procs, buf[d].elements, ElemPlace(d), {"wait"}, {"hold"})
  BY DEF HoldsGap, HoldsElement, Granted, Held, GapPlace, ElemPlace, GapAt, ElemAt
<1>4. buf[d].gaps.count + Cardinality({p \in Procs : HoldsGap(p, d)}) + buf[d].stored = MaxSize
  <2> DEFINE c == buf[d].gaps.count
             k == Cardinality({p \in Procs : HoldsGap(p, d)})
  <2>1. c + k = MaxSize - buf[d].stored /\ c \in Nat
    BY <1>1, <1>3 DEF GapInv, Account, Units, Semaphores
  <2>2. k \in Nat
    <3>1. IsFiniteSet({p \in Procs : HoldsGap(p, d)}) BY Constants, FS_Subset
    <3> QED BY <3>1, FS_CardinalityType
  <2> HIDE DEF c, k
  <2>3. c + k + buf[d].stored = MaxSize BY <1>2, <2>1, <2>2
  <2> QED BY <2>3 DEF c, k
<1>5. ASSUME ~Deleting(buf[d].name)
      PROVE  buf[d].elements.count + Cardinality({p \in Procs : HoldsElement(p, d)}) = buf[d].stored
  <2>1. ~Removed(buf[d].name)
    BY <1>5, Constants DEF Removed, Removing, RemovePCs, Deleting, CoreInv, Control
  <2> QED BY <1>1, <1>3, <2>1 DEF ElemInv, Account, Units
<1> QED BY <1>4, <1>5

\* The strings, the gaps and the elements are accounted for: no string is lost
\* or freed twice but for those of a call that an interrupted or freed buffer
\* loses, and the semaphores of a buffer agree with what it stores, unless a
\* write() or read() took part in a deletion of its name.
THEOREM AlwaysConsistent == Spec => []Consistent
<1> DEFINE Inv == CoreInv /\ QuietInv /\ GapInv /\ ElemInv /\ GotInv /\ StringsAccounted
<1>1. Init => Inv BY InitCore, InitListMtx, InitUnits, InitStrings
<1>2. Inv /\ [Next]_vars => Inv'
  BY NextCore, NextQuiet, NextUnits, NextGot, NextStrings
<1>3. Inv => Consistent
  <2>1. SUFFICES ASSUME Inv PROVE TypeOK BY AccountsMean DEF Consistent
  <2>2. TypeInv /\ StringsAccounted BY <2>1 DEF CoreInv
  <2>3. heap \in Nat
    <3>1. IsFiniteSet(InStore) BY <2>2, StoreIs
    <3>2. IsFiniteSet(InHand)
      <4>1. InHand \subseteq Procs BY DEF InHand
      <4> QED BY <4>1, Constants, FS_Subset
    <3>3. Cardinality(InStore) \in Nat /\ Cardinality(InHand) \in Nat
      BY <3>1, <3>2, FS_CardinalityType
    <3> QED BY <2>2, <3>3 DEF StringsAccounted
  <2>4. \A d \in Buffers :
          /\ buf[d].state \in {"freed", "live", "nofifo"}
          /\ buf[d].name \in Names /\ buf[d].isInt \in BOOLEAN
          /\ buf[d].stored \in 0 .. MaxSize
          /\ {buf[d].elements, buf[d].gaps, buf[d].mtx} \subseteq Semaphores(Procs)
    BY <2>2 DEF TypeInv, BufTypes
  <2>5. {unlocked, raced, misuse} \subseteq BOOLEAN BY <2>2, Zenon DEF TypeInv
  <2> QED BY <2>2, <2>3, <2>4, <2>5 DEF TypeInv, TypeOK
<1> QED BY <1>1, <1>2, <1>3, PTL DEF Spec

=============================================================================
