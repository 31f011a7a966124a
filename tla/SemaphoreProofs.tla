-------------------------- MODULE SemaphoreProofs --------------------------
(***************************************************************************)
(* What the semaphore operators do to the count and to the set of waiting  *)
(* processes.  The proofs about the modules that use semaphores cite these *)
(* lemmas and never look inside a semaphore again.  The last part is about *)
(* a semaphore that counts the units of a resource.                        *)
(***************************************************************************)
EXTENDS Semaphore, FiniteSets, SequenceTheorems, FiniteSetTheorems, TLAPS

\* No process is in the list twice.
NoTwice(s) ==
    \A i, j \in DOMAIN s.waiters : s.waiters[i] = s.waiters[j] => i = j

LEMMA DownType ==
    ASSUME NEW P, NEW s \in Semaphores(P), NEW p \in P
    PROVE  Down(s, p) \in Semaphores(P)
<1>1. s.count \in Nat /\ s.waiters \in Seq(P) BY DEF Semaphores
<1>2. CASE s.count > 0
  <2>1. Down(s, p) = [count |-> s.count - 1, waiters |-> s.waiters]
    BY <1>2 DEF Down, Semaphores
  <2> QED BY <2>1, <1>1, <1>2 DEF Semaphores
<1>3. CASE ~(s.count > 0)
  <2>1. Down(s, p) = [count |-> s.count, waiters |-> Append(s.waiters, p)]
    BY <1>3 DEF Down, Semaphores
  <2>2. Append(s.waiters, p) \in Seq(P) BY <1>1, AppendProperties
  <2> QED BY <2>1, <2>2, <1>1 DEF Semaphores
<1> QED BY <1>2, <1>3

LEMMA UpType ==
    ASSUME NEW P, NEW s \in Semaphores(P)
    PROVE  Up(s) \in Semaphores(P)
<1>1. s.count \in Nat /\ s.waiters \in Seq(P) BY DEF Semaphores
<1>2. CASE s.waiters = << >>
  <2>1. Up(s) = [count |-> s.count + 1, waiters |-> s.waiters]
    BY <1>2 DEF Up, Semaphores
  <2> QED BY <2>1, <1>1 DEF Semaphores
<1>3. CASE s.waiters # << >>
  <2>1. Up(s) = [count |-> s.count, waiters |-> Tail(s.waiters)]
    BY <1>3 DEF Up, Semaphores
  <2>2. Tail(s.waiters) \in Seq(P) BY <1>1, <1>3, HeadTailProperties
  <2> QED BY <2>1, <2>2, <1>1 DEF Semaphores
<1> QED BY <1>2, <1>3

\* down() takes the semaphore when its count allows it and queues p otherwise.
LEMMA DownEffect ==
    ASSUME NEW P, NEW s \in Semaphores(P), NEW p \in P
    PROVE  /\ s.count > 0 => /\ Down(s, p).count = s.count - 1
                             /\ \A q : Waiting(Down(s, p), q) <=> Waiting(s, q)
           /\ s.count = 0 => /\ Down(s, p).count = 0
                             /\ \A q : Waiting(Down(s, p), q) <=>
                                         (Waiting(s, q) \/ q = p)
<1>1. s.count \in Nat /\ s.waiters \in Seq(P) BY DEF Semaphores
<1>2. CASE s.count > 0
  <2>1. Down(s, p) = [count |-> s.count - 1, waiters |-> s.waiters]
    BY <1>2 DEF Down, Semaphores
  <2> QED BY <2>1, <1>1, <1>2 DEF Waiting
<1>3. CASE s.count = 0
  <2> DEFINE w == Append(s.waiters, p)
  <2>1. Down(s, p) = [count |-> s.count, waiters |-> w]
    BY <1>3 DEF Down, Semaphores
  <2>2. /\ DOMAIN s.waiters = 1 .. Len(s.waiters) /\ Len(s.waiters) \in Nat
        /\ DOMAIN w = 1 .. Len(s.waiters) + 1
        /\ \A i \in 1 .. Len(s.waiters) : w[i] = s.waiters[i]
        /\ w[Len(s.waiters) + 1] = p
    BY <1>1, AppendProperties, LenProperties
  <2>3. ASSUME NEW q PROVE (\E i \in DOMAIN w : w[i] = q) <=>
                           ((\E i \in DOMAIN s.waiters : s.waiters[i] = q) \/ q = p)
    <3> HIDE DEF w
    <3>1. Len(s.waiters) + 1 \in DOMAIN w BY <2>2
    <3>2. \A i \in DOMAIN w : i \in DOMAIN s.waiters \/ i = Len(s.waiters) + 1
      BY <2>2
    <3>3. \A i \in DOMAIN s.waiters : i \in DOMAIN w /\ w[i] = s.waiters[i]
      BY <2>2
    <3> QED BY <3>1, <3>2, <3>3, <2>2
  <2>4. Down(s, p).waiters = w /\ Down(s, p).count = s.count
    <3> HIDE DEF w
    <3> QED BY <2>1
  <2> QED BY <2>3, <2>4, <1>3 DEF Waiting
<1> QED BY <1>1, <1>2, <1>3

\* A queue in order: nobody in it twice, and nobody in it while there is a unit.
InOrder(s) == NoTwice(s) /\ (s.count > 0 => s.waiters = << >>)

LEMMA DownInOrder ==
    ASSUME NEW P, NEW s \in Semaphores(P), NEW p \in P,
           InOrder(s), ~Waiting(s, p)
    PROVE  InOrder(Down(s, p))
<1>1. s.count \in Nat /\ s.waiters \in Seq(P) BY DEF Semaphores
<1>2. CASE s.count > 0
  <2>1. Down(s, p) = [count |-> s.count - 1, waiters |-> s.waiters]
    BY <1>2 DEF Down, Semaphores
  <2> QED BY <2>1, <1>1, <1>2 DEF InOrder, NoTwice
<1>3. CASE s.count = 0
  <2> DEFINE w == Append(s.waiters, p)
  <2>1. Down(s, p) = [count |-> s.count, waiters |-> w]
    BY <1>3 DEF Down, Semaphores
  <2>2. /\ DOMAIN s.waiters = 1 .. Len(s.waiters) /\ Len(s.waiters) \in Nat
        /\ DOMAIN w = 1 .. Len(s.waiters) + 1
        /\ \A i \in 1 .. Len(s.waiters) : w[i] = s.waiters[i]
        /\ w[Len(s.waiters) + 1] = p
    BY <1>1, AppendProperties, LenProperties
  <2>3. Down(s, p).waiters = w /\ Down(s, p).count = 0
    <3> HIDE DEF w
    <3> QED BY <2>1, <1>3
  <2>4. \A i \in DOMAIN s.waiters : s.waiters[i] # p BY DEF Waiting
  <2>5. \A i, j \in DOMAIN w : w[i] = w[j] => i = j
    <3> HIDE DEF w
    <3> QED BY <2>2, <2>4 DEF InOrder, NoTwice
  <2> HIDE DEF w
  <2> QED BY <2>3, <2>5 DEF InOrder, NoTwice
<1> QED BY <1>1, <1>2, <1>3

\* up() adds a unit when nobody waits, and otherwise grants exactly one waiter.
LEMMA UpEffect ==
    ASSUME NEW P, NEW s \in Semaphores(P), InOrder(s)
    PROVE  /\ InOrder(Up(s))
           /\ s.waiters = << >> => /\ Up(s).count = s.count + 1
                                   /\ \A q : ~Waiting(s, q) /\ ~Waiting(Up(s), q)
           /\ s.waiters # << >> =>
                /\ s.count = 0 /\ Up(s).count = 0
                /\ \E h \in P : /\ Waiting(s, h)
                                /\ \A q : Waiting(Up(s), q) <=>
                                            (Waiting(s, q) /\ q # h)
<1>1. s.count \in Nat /\ s.waiters \in Seq(P) BY DEF Semaphores
<1>2. CASE s.waiters = << >>
  <2>1. Up(s) = [count |-> s.count + 1, waiters |-> s.waiters]
    BY <1>2 DEF Up, Semaphores
  <2>2. DOMAIN s.waiters = {} BY <1>2
  <2> QED BY <2>1, <2>2, <1>1, <1>2 DEF InOrder, NoTwice, Waiting
<1>3. CASE s.waiters # << >>
  <2> DEFINE w == Tail(s.waiters)
  <2>1. Up(s) = [count |-> s.count, waiters |-> w]
    BY <1>3 DEF Up, Semaphores
  <2>2. Up(s).waiters = w /\ Up(s).count = s.count
    <3> HIDE DEF w
    <3> QED BY <2>1
  <2>3. s.count = 0 BY <1>1, <1>3 DEF InOrder
  <2>4. /\ DOMAIN s.waiters = 1 .. Len(s.waiters) /\ Len(s.waiters) \in Nat \ {0}
        /\ DOMAIN w = 1 .. Len(s.waiters) - 1
        /\ \A i \in 1 .. Len(s.waiters) - 1 : w[i] = s.waiters[i + 1]
    BY <1>1, <1>3, HeadTailProperties, LenProperties, EmptySeq
  <2> HIDE DEF w
  <2> DEFINE h == s.waiters[1]
  <2>5. 1 \in DOMAIN s.waiters /\ h \in P
    BY <2>4, <1>1, ElementOfSeq
  <2>6. \A i \in DOMAIN w : i + 1 \in DOMAIN s.waiters /\ i + 1 # 1
    BY <2>4
  <2>7. \A i \in DOMAIN s.waiters : i # 1 => i - 1 \in DOMAIN w /\ w[i - 1] = s.waiters[i]
    BY <2>4
  <2>8. \A i, j \in DOMAIN s.waiters : s.waiters[i] = s.waiters[j] => i = j
    BY DEF InOrder, NoTwice
  <2>9. \A i, j \in DOMAIN w : w[i] = w[j] => i = j
    BY <2>4, <2>6, <2>8
  <2>10. ASSUME NEW q
         PROVE  (\E i \in DOMAIN w : w[i] = q) <=>
                ((\E i \in DOMAIN s.waiters : s.waiters[i] = q) /\ q # h)
    <3>1. ASSUME NEW i \in DOMAIN w, w[i] = q
          PROVE  (\E j \in DOMAIN s.waiters : s.waiters[j] = q) /\ q # h
      <4>1. i + 1 \in DOMAIN s.waiters /\ s.waiters[i + 1] = q BY <3>1, <2>4, <2>6
      <4>2. i + 1 # 1 BY <3>1, <2>6
      <4> QED BY <4>1, <4>2, <2>5, <2>8
    <3>2. ASSUME NEW j \in DOMAIN s.waiters, s.waiters[j] = q, q # h
          PROVE  \E i \in DOMAIN w : w[i] = q
      <4>1. j # 1 BY <3>2
      <4> QED BY <4>1, <3>2, <2>7
    <3> QED BY <3>1, <3>2
  <2>11. InOrder(Up(s)) BY <2>2, <2>3, <2>9 DEF InOrder, NoTwice
  <2>12. Waiting(s, h) BY <2>5 DEF Waiting
  <2>13. \A q : Waiting(Up(s), q) <=> (Waiting(s, q) /\ q # h)
    BY <2>2, <2>10 DEF Waiting
  <2> QED BY <2>2, <2>3, <2>5, <2>11, <2>12, <2>13, <1>3
<1> QED BY <1>2, <1>3

LEMMA CancelType ==
    ASSUME NEW P, NEW s \in Semaphores(P), NEW p, Waiting(s, p)
    PROVE  Cancel(s, p) \in Semaphores(P)
<1>1. s.count \in Nat /\ s.waiters \in Seq(P) BY DEF Semaphores
<1> DEFINE at == Place(s, p)
           w == RemoveAt(s.waiters, at)
<1>2. at \in DOMAIN s.waiters BY DEF Waiting, Place
<1>3. Cancel(s, p) = [count |-> s.count, waiters |-> w]
  BY DEF Cancel, Semaphores
<1> HIDE DEF at
<1>4. /\ DOMAIN s.waiters = 1 .. Len(s.waiters) /\ Len(s.waiters) \in Nat
      /\ \A i \in DOMAIN s.waiters : s.waiters[i] \in P
  BY <1>1, LenProperties, ElementOfSeq
<1>5. /\ SubSeq(s.waiters, 1, at - 1) \in Seq(P)
      /\ SubSeq(s.waiters, at + 1, Len(s.waiters)) \in Seq(P)
  BY <1>2, <1>4, SubSeqProperties
<1>6. w \in Seq(P) BY <1>5, ConcatProperties DEF RemoveAt
<1> QED BY <1>1, <1>3, <1>6 DEF Semaphores

\* An interrupted wait takes p, and nobody else, off the list.
LEMMA CancelEffect ==
    ASSUME NEW P, NEW s \in Semaphores(P), NEW p \in P, InOrder(s), Waiting(s, p)
    PROVE  /\ Cancel(s, p) \in Semaphores(P)
           /\ InOrder(Cancel(s, p))
           /\ s.count = 0 /\ Cancel(s, p).count = 0
           /\ \A q : Waiting(Cancel(s, p), q) <=> (Waiting(s, q) /\ q # p)
<1>1. s.count \in Nat /\ s.waiters \in Seq(P) BY DEF Semaphores
<1> DEFINE at == Place(s, p)
           w == RemoveAt(s.waiters, at)
<1>2. at \in DOMAIN s.waiters /\ s.waiters[at] = p BY DEF Waiting, Place
<1>3. Cancel(s, p) = [count |-> s.count, waiters |-> w]
  BY DEF Cancel, Semaphores
<1> HIDE DEF at
<1>4. /\ DOMAIN s.waiters = 1 .. Len(s.waiters) /\ Len(s.waiters) \in Nat
      /\ \A i \in DOMAIN s.waiters : s.waiters[i] \in P
  BY <1>1, LenProperties, ElementOfSeq
<1>5. at \in 1 .. Len(s.waiters) BY <1>2, <1>4
<1> DEFINE a == SubSeq(s.waiters, 1, at - 1)
           b == SubSeq(s.waiters, at + 1, Len(s.waiters))
<1>6. /\ a \in Seq(P) /\ Len(a) = at - 1
      /\ \A i \in 1 .. at - 1 : a[i] = s.waiters[i]
  BY <1>4, <1>5, SubSeqProperties
<1>7. /\ b \in Seq(P) /\ Len(b) = Len(s.waiters) - at
      /\ \A i \in 1 .. Len(s.waiters) - at : b[i] = s.waiters[at + i]
  BY <1>4, <1>5, SubSeqProperties
<1>8. /\ w \in Seq(P)
      /\ DOMAIN w = 1 .. Len(s.waiters) - 1
      /\ \A i \in DOMAIN w : w[i] = s.waiters[IF i < at THEN i ELSE i + 1]
  <2>1. w = a \o b BY DEF RemoveAt
  <2> HIDE DEF a, b, w
  <2>2. /\ w \in Seq(P) /\ Len(w) = Len(a) + Len(b)
        /\ \A i \in 1 .. Len(a) + Len(b) :
              w[i] = IF i <= Len(a) THEN a[i] ELSE b[i - Len(a)]
    BY <2>1, <1>6, <1>7, ConcatProperties
  <2>3. DOMAIN w = 1 .. Len(s.waiters) - 1
    BY <2>2, <1>4, <1>5, <1>6, <1>7, LenProperties
  <2>4. ASSUME NEW i \in DOMAIN w
        PROVE  w[i] = s.waiters[IF i < at THEN i ELSE i + 1]
    <3>1. i \in 1 .. Len(a) + Len(b) BY <2>3, <1>4, <1>5, <1>6, <1>7
    <3>2. CASE i < at
      <4>1. i <= Len(a) /\ i \in 1 .. at - 1 BY <3>1, <3>2, <1>4, <1>5, <1>6
      <4> QED BY <4>1, <3>1, <3>2, <2>2, <1>6
    <3>3. CASE i >= at
      <4>1. ~(i <= Len(a)) /\ i - Len(a) \in 1 .. Len(s.waiters) - at
        BY <3>1, <3>3, <1>4, <1>5, <1>6, <1>7
      <4>2. w[i] = b[i - Len(a)] BY <4>1, <3>1, <2>2
      <4>3. at + (i - Len(a)) = i + 1 BY <3>1, <1>4, <1>5, <1>6
      <4>4. b[i - Len(a)] = s.waiters[at + (i - Len(a))] BY <4>1, <1>7
      <4>5. ~(i < at) BY <3>1, <3>3, <1>5
      <4> QED BY <4>2, <4>3, <4>4, <4>5
    <3> QED BY <3>1, <3>2, <3>3, <1>4, <1>5
  <2> QED BY <2>2, <2>3, <2>4
<1> HIDE DEF w
<1>9. s.count = 0
  <2>1. s.waiters # << >> BY <1>2
  <2> QED BY <2>1, <1>1 DEF InOrder
<1>10. Cancel(s, p).waiters = w /\ Cancel(s, p).count = 0 BY <1>3, <1>9
<1>11. \A i, j \in DOMAIN s.waiters : s.waiters[i] = s.waiters[j] => i = j
  BY DEF InOrder, NoTwice
<1> DEFINE from(i) == IF i < at THEN i ELSE i + 1
<1>12. \A i \in DOMAIN w : from(i) \in DOMAIN s.waiters /\ from(i) # at
  BY <1>4, <1>5, <1>8
<1>13. \A i \in DOMAIN s.waiters : i # at => \E j \in DOMAIN w : from(j) = i
  <2> SUFFICES ASSUME NEW i \in DOMAIN s.waiters, i # at
               PROVE  \E j \in DOMAIN w : from(j) = i
    OBVIOUS
  <2>1. CASE i < at BY <2>1, <1>4, <1>5, <1>8
  <2>2. CASE i > at
    <3>1. i - 1 \in DOMAIN w /\ from(i - 1) = i BY <2>2, <1>4, <1>5, <1>8
    <3> QED BY <3>1
  <2> QED BY <2>1, <2>2, <1>4, <1>5
<1>14. \A i, j \in DOMAIN w : from(i) = from(j) => i = j BY <1>5, <1>8
<1>15. \A i \in DOMAIN w : w[i] = s.waiters[from(i)] BY <1>8
<1> HIDE DEF from
<1>16. \A i, j \in DOMAIN w : w[i] = w[j] => i = j BY <1>11, <1>12, <1>14, <1>15
<1>17. ASSUME NEW q
       PROVE  (\E i \in DOMAIN w : w[i] = q) <=>
              ((\E i \in DOMAIN s.waiters : s.waiters[i] = q) /\ q # p)
  BY <1>2, <1>11, <1>12, <1>13, <1>15
<1>18. Cancel(s, p) \in Semaphores(P) BY <1>1, <1>3, <1>8 DEF Semaphores
<1> QED BY <1>9, <1>10, <1>16, <1>17, <1>18 DEF InOrder, NoTwice, Waiting
-----------------------------------------------------------------------------
(* Units: n of them, in the count of s or held by the processes H, which are   *)
(* not the ones that wait.                                                     *)

Units(P, s, H, n) ==
    /\ s \in Semaphores(P) /\ InOrder(s)
    /\ IsFiniteSet(P) /\ H \subseteq P
    /\ \A q \in P : Waiting(s, q) => q \notin H
    /\ n \in Int /\ s.count + Cardinality(H) = n

\* There is a unit for every holder.
LEMMA UnitsBound ==
    ASSUME NEW P, NEW s, NEW H, NEW n, Units(P, s, H, n)
    PROVE  /\ n >= 0
           /\ H # {} => n > 0
<1>1. IsFiniteSet(H) BY FS_Subset DEF Units
<1>2. Cardinality(H) \in Nat /\ s.count \in Nat
  BY <1>1, FS_CardinalityType DEF Units, Semaphores
<1>3. H # {} => Cardinality(H) # 0 BY <1>1, FS_EmptySet
<1> QED BY <1>2, <1>3 DEF Units

\* p brings a unit of its own.
LEMMA UnitsAdd ==
    ASSUME NEW P, NEW s, NEW H, NEW n, Units(P, s, H, n), NEW p \in P, p \notin H,
           ~Waiting(s, p)
    PROVE  Units(P, s, H \cup {p}, n + 1)
<1>1. IsFiniteSet(H) BY FS_Subset DEF Units
<1>2. Cardinality(H \cup {p}) = Cardinality(H) + 1 BY <1>1, FS_AddElement
<1>3. Cardinality(H) \in Nat /\ s.count \in Nat
  BY <1>1, FS_CardinalityType DEF Units, Semaphores
<1> QED BY <1>2, <1>3 DEF Units

\* p goes away with its unit.
LEMMA UnitsRemove ==
    ASSUME NEW P, NEW s, NEW H, NEW n, Units(P, s, H, n), NEW p \in H
    PROVE  Units(P, s, H \ {p}, n - 1)
<1>1. IsFiniteSet(H) BY FS_Subset DEF Units
<1>2. Cardinality(H \ {p}) = Cardinality(H) - 1 BY <1>1, FS_RemoveElement
<1>3. Cardinality(H) \in Nat /\ s.count \in Nat
  BY <1>1, FS_CardinalityType DEF Units, Semaphores
<1>4. s.count + Cardinality(H \ {p}) = n - 1 /\ n - 1 \in Int
  BY <1>2, <1>3 DEF Units
<1>5. H \ {p} \subseteq P /\ \A q \in P : Waiting(s, q) => q \notin H \ {p} BY DEF Units
<1> QED BY <1>4, <1>5 DEF Units

\* down() by p: it holds a unit or waits, and nothing else changes.
LEMMA UnitsDown ==
    ASSUME NEW P, NEW s, NEW H, NEW n, Units(P, s, H, n), NEW p \in P, p \notin H,
           ~Waiting(s, p), NEW R \in SUBSET P,
           \A q \in P : q \in R <=> (q \in H \/ (q = p /\ ~Waiting(Down(s, p), p)))
    PROVE  /\ Units(P, Down(s, p), R, n)
           /\ \A q \in P : q # p => (Waiting(Down(s, p), q) <=> Waiting(s, q))
<1>1. IsFiniteSet(H) BY FS_Subset DEF Units
<1>2. Cardinality(H) \in Nat BY <1>1, FS_CardinalityType
<1>3. /\ s \in Semaphores(P) /\ InOrder(s) /\ s.count \in Nat
      /\ Down(s, p) \in Semaphores(P) /\ InOrder(Down(s, p))
  BY DownType, DownInOrder DEF Units, Semaphores
<1>4. CASE s.count > 0
  <2>1. Down(s, p).count = s.count - 1 /\ \A q : Waiting(Down(s, p), q) <=> Waiting(s, q)
    BY <1>3, <1>4, DownEffect
  <2>2. R = H \cup {p} BY <2>1 DEF Units
  <2>3. Cardinality(R) = Cardinality(H) + 1 BY <1>1, <2>2, FS_AddElement
  <2>4. Down(s, p).count + Cardinality(R) = n BY <1>2, <1>3, <2>1, <2>3 DEF Units
  <2>5. \A q \in P : Waiting(Down(s, p), q) => q \notin R BY <2>1, <2>2 DEF Units
  <2> QED BY <1>3, <2>1, <2>4, <2>5 DEF Units
<1>5. CASE s.count = 0
  <2>1. Down(s, p).count = 0 /\ \A q : Waiting(Down(s, p), q) <=> (Waiting(s, q) \/ q = p)
    BY <1>3, <1>5, DownEffect
  <2>2. R = H BY <2>1 DEF Units
  <2>3. \A q \in P : Waiting(Down(s, p), q) => q \notin R BY <2>1, <2>2 DEF Units
  <2>4. Down(s, p).count + Cardinality(R) = n BY <2>1, <2>2, <1>5 DEF Units
  <2> QED BY <1>3, <2>1, <2>3, <2>4 DEF Units
<1> QED BY <1>3, <1>4, <1>5

\* up() by a holder p: its unit is in the count, or with the waiter it wakes.
LEMMA UnitsUp ==
    ASSUME NEW P, NEW s, NEW H, NEW n, Units(P, s, H, n), NEW p \in H,
           NEW R \in SUBSET P,
           \A q \in P : q \in R <=> \/ q \in H /\ q # p
                                    \/ Waiting(s, q) /\ ~Waiting(Up(s), q)
    PROVE  /\ Units(P, Up(s), R, n)
           /\ \A q \in P : Waiting(Up(s), q) => Waiting(s, q)
<1>1. IsFiniteSet(H) BY FS_Subset DEF Units
<1>2. Cardinality(H) \in Nat BY <1>1, FS_CardinalityType
<1>3. /\ s \in Semaphores(P) /\ InOrder(s) /\ s.count \in Nat
      /\ Up(s) \in Semaphores(P) /\ InOrder(Up(s))
  BY UpType, UpEffect DEF Units, Semaphores
<1> DEFINE K == H \ {p}
<1>4. IsFiniteSet(K) /\ Cardinality(K) = Cardinality(H) - 1
  BY <1>1, FS_RemoveElement
<1>5. CASE s.waiters = << >>
  <2>1. Up(s).count = s.count + 1 /\ \A q : ~Waiting(s, q) /\ ~Waiting(Up(s), q)
    BY <1>3, <1>5, UpEffect
  <2>2. R = K BY <2>1 DEF Units
  <2> HIDE DEF K
  <2>3. Up(s).count + Cardinality(R) = n BY <1>2, <1>3, <1>4, <2>1, <2>2 DEF Units
  <2> QED BY <1>3, <2>1, <2>3 DEF Units
<1>6. CASE s.waiters # << >>
  <2>1. s.count = 0 /\ Up(s).count = 0 BY <1>3, <1>6, UpEffect
  <2>2. PICK h \in P : /\ Waiting(s, h)
                       /\ \A q : Waiting(Up(s), q) <=> (Waiting(s, q) /\ q # h)
    BY <1>3, <1>6, UpEffect
  <2>3. h \notin H BY <2>2 DEF Units
  <2>4. R = K \cup {h} BY <2>2 DEF Units
  <2>5. h \notin K /\ K \subseteq H BY <2>3
  <2>6. \A q \in P : Waiting(Up(s), q) => q \notin R
    BY <2>2, <2>4, <2>5 DEF Units
  <2> HIDE DEF K
  <2>7. Cardinality(R) = Cardinality(K) + 1 BY <1>4, <2>4, <2>5, FS_AddElement
  <2>8. Up(s).count + Cardinality(R) = n BY <1>2, <1>4, <2>1, <2>7 DEF Units
  <2> QED BY <1>3, <2>2, <2>6, <2>8 DEF Units
<1> QED BY <1>5, <1>6

\* An interrupted wait moves no unit.
LEMMA UnitsCancel ==
    ASSUME NEW P, NEW s, NEW H, NEW n, Units(P, s, H, n), NEW p \in P, Waiting(s, p)
    PROVE  /\ Units(P, Cancel(s, p), H, n)
           /\ \A q : Waiting(Cancel(s, p), q) <=> (Waiting(s, q) /\ q # p)
BY CancelEffect DEF Units
-----------------------------------------------------------------------------
\* The account of one semaphore s, for the places f of the processes: they wait
\* for a unit at the places of wait, and hold one at the places of hold.
Held(P, s, f, wait, hold) ==
    {q \in P : f[q] \in hold \/ (f[q] \in wait /\ ~Waiting(s, q))}

Account(P, s, f, wait, hold, n) ==
    /\ Units(P, s, Held(P, s, f, wait, hold), n)
    /\ \A q \in P : Waiting(s, q) => f[q] \in wait

\* What a step that takes p from place a to place b may do to the account.
Moves(s, n, t, m, p, a, b, wait, hold) ==
    \/ /\ a \notin hold \cup wait /\ b \notin hold \cup wait
       /\ t = s /\ m = n
    \/ /\ a \in hold \/ (a \in wait /\ ~Waiting(s, p))
       /\ b \in hold
       /\ t = s /\ m = n
    \/ /\ a \notin hold \cup wait /\ b \in wait
       /\ t = Down(s, p) /\ m = n
    \/ /\ a \in hold \/ (a \in wait /\ ~Waiting(s, p))
       /\ b \notin hold \cup wait
       /\ t = Up(s) /\ m = n
    \/ /\ a \in wait /\ Waiting(s, p) /\ b \notin hold \cup wait
       /\ t = Cancel(s, p) /\ m = n
    \/ /\ a \in hold \/ (a \in wait /\ ~Waiting(s, p))
       /\ b \notin hold \cup wait
       /\ t = s /\ m = n - 1
    \/ /\ a \notin hold \cup wait /\ b \in hold
       /\ t = s /\ m = n + 1

LEMMA AccountStep ==
    ASSUME NEW P, NEW s, NEW n, NEW t, NEW m, NEW f, NEW g, NEW p \in P,
           NEW wait, NEW hold, wait \cap hold = {},
           Account(P, s, f, wait, hold, n),
           \A q \in P : q # p => g[q] = f[q],
           Moves(s, n, t, m, p, f[p], g[p], wait, hold)
    PROVE  Account(P, t, g, wait, hold, m)
<1> DEFINE H == Held(P, s, f, wait, hold)
           R == Held(P, t, g, wait, hold)
<1>1. Units(P, s, H, n) /\ \A q \in P : Waiting(s, q) => f[q] \in wait
  BY DEF Account
<1>2. /\ H \in SUBSET P /\ R \in SUBSET P
      /\ \A q \in P : q \in H <=> f[q] \in hold \/ (f[q] \in wait /\ ~Waiting(s, q))
      /\ \A q \in P : q \in R <=> g[q] \in hold \/ (g[q] \in wait /\ ~Waiting(t, q))
  BY DEF Held
<1> HIDE DEF H, R
<1> SUFFICES Units(P, t, R, m) /\ \A q \in P : Waiting(t, q) => g[q] \in wait
  BY DEF Account, R
<1>3. CASE /\ f[p] \notin hold \cup wait /\ g[p] \notin hold \cup wait
           /\ t = s /\ m = n
  <2>1. R = H BY <1>2, <1>3
  <2> QED BY <1>1, <1>3, <2>1
<1>4. CASE /\ f[p] \in hold \/ (f[p] \in wait /\ ~Waiting(s, p))
           /\ g[p] \in hold
           /\ t = s /\ m = n
  <2>1. R = H BY <1>2, <1>4
  <2>2. ~Waiting(s, p) BY <1>1, <1>4
  <2> QED BY <1>1, <1>4, <2>1, <2>2
<1>5. CASE /\ f[p] \notin hold \cup wait /\ g[p] \in wait
           /\ t = Down(s, p) /\ m = n
  <2>1. p \notin H /\ ~Waiting(s, p) BY <1>1, <1>2, <1>5
  <2>2. \A q \in P : q # p => (Waiting(t, q) <=> Waiting(s, q))
    <3> DEFINE K == {q \in P : q \in H \/ (q = p /\ ~Waiting(Down(s, p), p))}
    <3>1. K \in SUBSET P
          /\ \A q \in P : q \in K <=> (q \in H \/ (q = p /\ ~Waiting(Down(s, p), p)))
      OBVIOUS
    <3> HIDE DEF K
    <3>2. \A q \in P : q # p => (Waiting(Down(s, p), q) <=> Waiting(s, q))
      BY <1>1, <2>1, <3>1, UnitsDown
    <3> QED BY <3>2, <1>5
  <2>3. \A q \in P : q \in R <=> (q \in H \/ (q = p /\ ~Waiting(Down(s, p), p)))
    BY <1>2, <1>5, <2>1, <2>2
  <2>4. Units(P, t, R, n) BY <1>1, <1>2, <1>5, <2>1, <2>3, UnitsDown
  <2> QED BY <1>1, <1>5, <2>2, <2>4
<1>6. CASE /\ f[p] \in hold \/ (f[p] \in wait /\ ~Waiting(s, p))
           /\ g[p] \notin hold \cup wait
           /\ t = Up(s) /\ m = n
  <2>1. p \in H /\ ~Waiting(s, p) BY <1>1, <1>2, <1>6
  <2> DEFINE Passed(q) == (q \in H /\ q # p) \/ (Waiting(s, q) /\ ~Waiting(Up(s), q))
  <2>2. ASSUME NEW K \in SUBSET P, \A q \in P : q \in K <=> Passed(q)
        PROVE  Units(P, Up(s), K, n) /\ \A q \in P : Waiting(Up(s), q) => Waiting(s, q)
    BY <1>1, <2>1, <2>2, UnitsUp
  <2>3. \A q \in P : Waiting(t, q) => Waiting(s, q)
    <3> DEFINE K == {q \in P : Passed(q)}
    <3>1. K \in SUBSET P /\ \A q \in P : q \in K <=> Passed(q) OBVIOUS
    <3> HIDE DEF K, Passed
    <3> QED BY <3>1, <2>2, <1>6
  <2>4. R \in SUBSET P /\ \A q \in P : q \in R <=> Passed(q)
    BY <1>1, <1>2, <1>6, <2>1, <2>3
  <2>5. Units(P, Up(s), R, n) BY <2>2, <2>4
  <2> QED BY <1>1, <1>6, <2>1, <2>3, <2>5
<1>7. CASE /\ f[p] \in wait /\ Waiting(s, p) /\ g[p] \notin hold \cup wait
           /\ t = Cancel(s, p) /\ m = n
  <2>1. Units(P, t, H, n) /\ \A q : Waiting(t, q) <=> (Waiting(s, q) /\ q # p)
    BY <1>1, <1>7, UnitsCancel
  <2>2. R = H BY <1>2, <1>7, <2>1
  <2> QED BY <1>1, <1>7, <2>1, <2>2
<1>8. CASE /\ f[p] \in hold \/ (f[p] \in wait /\ ~Waiting(s, p))
           /\ g[p] \notin hold \cup wait
           /\ t = s /\ m = n - 1
  <2>1. p \in H /\ ~Waiting(s, p) BY <1>1, <1>2, <1>8
  <2>2. R = H \ {p} BY <1>2, <1>8
  <2> QED BY <1>1, <1>8, <2>1, <2>2, UnitsRemove
<1>9. CASE /\ f[p] \notin hold \cup wait /\ g[p] \in hold
           /\ t = s /\ m = n + 1
  <2>1. p \notin H /\ ~Waiting(s, p) BY <1>1, <1>2, <1>9
  <2>2. R = H \cup {p} BY <1>2, <1>9
  <2> QED BY <1>1, <1>9, <2>1, <2>2, UnitsAdd
<1> QED BY <1>3, <1>4, <1>5, <1>6, <1>7, <1>8, <1>9 DEF Moves

\* A semaphore nobody has called down() on yet.
LEMMA InitEffect ==
    ASSUME NEW P, NEW n \in Nat
    PROVE  /\ SemInit(n) \in Semaphores(P) /\ SemInit(n).count = n
           /\ InOrder(SemInit(n)) /\ \A p : ~Waiting(SemInit(n), p)
<1>1. << >> \in Seq(P) BY EmptySeq
<1> QED BY <1>1 DEF SemInit, Semaphores, InOrder, NoTwice, Waiting

LEMMA AccountInit ==
    ASSUME NEW P, IsFiniteSet(P), NEW n \in Nat, NEW f, NEW wait, NEW hold,
           \A q \in P : f[q] \notin wait \cup hold
    PROVE  Account(P, SemInit(n), f, wait, hold, n)
<1>1. Held(P, SemInit(n), f, wait, hold) = {} BY DEF Held
<1>2. Units(P, SemInit(n), {}, n) BY InitEffect, FS_EmptySet DEF Units
<1> QED BY <1>1, <1>2, InitEffect DEF Account

\* One unit, as the count of a mutex: it is free, or has one holder.
LEMMA AccountOne ==
    ASSUME NEW P, NEW s, NEW f, NEW wait, NEW hold, Account(P, s, f, wait, hold, 1)
    PROVE  /\ s.count \in {0, 1}
           /\ s.count = 1 <=> Held(P, s, f, wait, hold) = {}
           /\ \A p, q \in Held(P, s, f, wait, hold) : p = q
<1> DEFINE O == Held(P, s, f, wait, hold)
<1>1. /\ O \subseteq P /\ s.count + Cardinality(O) = 1 /\ IsFiniteSet(P)
      /\ s \in Semaphores(P)
  BY DEF Account, Units
<1> HIDE DEF O
<1>2. IsFiniteSet(O) BY <1>1, FS_Subset
<1>3. Cardinality(O) \in Nat /\ s.count \in Nat
  BY <1>1, <1>2, FS_CardinalityType DEF Semaphores
<1>4. Cardinality(O) = 0 <=> O = {} BY <1>2, FS_EmptySet
<1>5. ASSUME NEW p \in O, NEW q \in O PROVE p = q
  <2>1. Cardinality(O) = 1 BY <1>1, <1>3, <1>4, <1>5
  <2>2. IsFiniteSet(O \ {p}) /\ Cardinality(O \ {p}) = Cardinality(O) - 1
    BY <1>2, FS_RemoveElement
  <2>3. Cardinality(O \ {p}) = 0 BY <2>1, <2>2
  <2>4. O \ {p} = {} BY <2>2, <2>3, FS_EmptySet
  <2> QED BY <1>5, <2>4
<1> QED BY <1>1, <1>3, <1>4, <1>5 DEF O
-----------------------------------------------------------------------------
(* A semaphore used as a wait queue, with a counter nr of who is in it: a    *)
(* process is counted at the places of marked, and at those of asleep until  *)
(* it is woken.  The counter and the ups nobody has consumed yet add up to   *)
(* the processes counted.                                                    *)

InQueue(P, s, f, marked, asleep) ==
    {q \in P : f[q] \in marked \/ (f[q] \in asleep /\ Waiting(s, q))}

QueueAccount(P, s, f, marked, asleep, nr) ==
    /\ s \in Semaphores(P) /\ InOrder(s)
    /\ IsFiniteSet(P) /\ nr \in Int
    /\ \A q \in P : Waiting(s, q) => f[q] \in asleep
    /\ nr + s.count = Cardinality(InQueue(P, s, f, marked, asleep))

\* What a step that takes p from place a to place b may do to the queue.
QueueMoves(s, nr, t, m, p, a, b, marked, asleep) ==
    \/ /\ a \notin marked /\ ~Waiting(s, p)
       /\ b \notin marked \cup asleep
       /\ t = s /\ m = nr
    \/ /\ a \notin marked \cup asleep /\ b \notin marked \cup asleep
       /\ t = Up(s) /\ m = nr - 1
    \/ /\ a \notin marked /\ ~Waiting(s, p)
       /\ b \in marked
       /\ t = s /\ m = nr + 1
    \/ /\ a \in marked /\ b \in marked
       /\ t = s /\ m = nr
    \/ /\ a \in marked /\ b \in asleep
       /\ t = Down(s, p) /\ m = nr
    \/ /\ Waiting(s, p) /\ b \in marked
       /\ t = Cancel(s, p) /\ m = nr
    \/ /\ a \in marked /\ b \notin marked \cup asleep
       /\ t = s /\ m = nr - 1

LEMMA QueueInit ==
    ASSUME NEW P, IsFiniteSet(P), NEW f, NEW marked, NEW asleep,
           \A q \in P : f[q] \notin marked \cup asleep
    PROVE  QueueAccount(P, SemInit(0), f, marked, asleep, 0)
<1>1. InQueue(P, SemInit(0), f, marked, asleep) = {} BY DEF InQueue
<1>2. /\ SemInit(0) \in Semaphores(P) /\ SemInit(0).count = 0
      /\ InOrder(SemInit(0)) /\ \A p : ~Waiting(SemInit(0), p)
  BY InitEffect
<1>3. Cardinality({}) = 0 BY FS_EmptySet
<1> QED BY <1>1, <1>2, <1>3 DEF QueueAccount

\* up() while nobody moves: a process leaves the queue, or the up is kept.
LEMMA QueueUp ==
    ASSUME NEW P, NEW s, NEW nr, NEW f, NEW marked, NEW asleep,
           marked \cap asleep = {}, QueueAccount(P, s, f, marked, asleep, nr)
    PROVE  /\ QueueAccount(P, Up(s), f, marked, asleep, nr - 1)
           /\ \A q \in P : Waiting(Up(s), q) => Waiting(s, q)
<1> DEFINE Q == InQueue(P, s, f, marked, asleep)
           R == InQueue(P, Up(s), f, marked, asleep)
<1>1. /\ s \in Semaphores(P) /\ InOrder(s) /\ s.count \in Nat
      /\ Up(s) \in Semaphores(P) /\ InOrder(Up(s))
      /\ IsFiniteSet(P) /\ nr \in Int /\ nr + s.count = Cardinality(Q)
      /\ \A q \in P : Waiting(s, q) => f[q] \in asleep
  BY UpType, UpEffect DEF QueueAccount, Semaphores
<1>2. \A q : /\ q \in Q <=> q \in P /\ (f[q] \in marked \/ (f[q] \in asleep /\ Waiting(s, q)))
             /\ q \in R <=> q \in P /\ (f[q] \in marked \/ (f[q] \in asleep /\ Waiting(Up(s), q)))
  BY DEF InQueue
<1> HIDE DEF Q, R
<1>3. IsFiniteSet(Q) BY <1>1, <1>2, FS_Subset
<1>4. Cardinality(Q) \in Nat BY <1>3, FS_CardinalityType
<1> SUFFICES /\ \A q \in P : Waiting(Up(s), q) => Waiting(s, q)
             /\ nr - 1 + Up(s).count = Cardinality(R)
  BY <1>1 DEF QueueAccount, R
<1>5. CASE s.waiters = << >>
  <2>1. Up(s).count = s.count + 1 /\ \A q : ~Waiting(s, q) /\ ~Waiting(Up(s), q)
    BY <1>1, <1>5, UpEffect
  <2>2. R = Q BY <1>2, <2>1
  <2> QED BY <1>1, <1>4, <2>1, <2>2
<1>6. CASE s.waiters # << >>
  <2>1. s.count = 0 /\ Up(s).count = 0 BY <1>1, <1>6, UpEffect
  <2>2. PICK h \in P : /\ Waiting(s, h)
                       /\ \A q : Waiting(Up(s), q) <=> (Waiting(s, q) /\ q # h)
    BY <1>1, <1>6, UpEffect
  <2>3. h \in Q /\ R = Q \ {h} BY <1>1, <1>2, <2>2
  <2>4. Cardinality(R) = Cardinality(Q) - 1 BY <1>3, <2>3, FS_RemoveElement
  <2> QED BY <1>1, <1>4, <2>1, <2>2, <2>4
<1> QED BY <1>5, <1>6

LEMMA QueueStep ==
    ASSUME NEW P, NEW s, NEW nr, NEW t, NEW m, NEW f, NEW g, NEW p \in P,
           NEW marked, NEW asleep, marked \cap asleep = {},
           QueueAccount(P, s, f, marked, asleep, nr),
           \A q \in P : q # p => g[q] = f[q],
           QueueMoves(s, nr, t, m, p, f[p], g[p], marked, asleep)
    PROVE  QueueAccount(P, t, g, marked, asleep, m)
<1> DEFINE Q == InQueue(P, s, f, marked, asleep)
           R == InQueue(P, t, g, marked, asleep)
<1>1. /\ s \in Semaphores(P) /\ InOrder(s) /\ s.count \in Nat
      /\ IsFiniteSet(P) /\ nr \in Int /\ nr + s.count = Cardinality(Q)
      /\ \A q \in P : Waiting(s, q) => f[q] \in asleep
  BY DEF QueueAccount, Semaphores
<1>2. \A q : /\ q \in Q <=> q \in P /\ (f[q] \in marked \/ (f[q] \in asleep /\ Waiting(s, q)))
             /\ q \in R <=> q \in P /\ (g[q] \in marked \/ (g[q] \in asleep /\ Waiting(t, q)))
  BY DEF InQueue
<1> HIDE DEF Q, R
<1>3. IsFiniteSet(Q) /\ Cardinality(Q) \in Nat
  BY <1>1, <1>2, FS_Subset, FS_CardinalityType
<1> SUFFICES /\ t \in Semaphores(P) /\ InOrder(t)
             /\ \A q \in P : Waiting(t, q) => g[q] \in asleep
             /\ m \in Int /\ m + t.count = Cardinality(R)
  BY <1>1 DEF QueueAccount, R
<1>4. CASE /\ f[p] \notin marked /\ ~Waiting(s, p)
           /\ g[p] \notin marked \cup asleep
           /\ t = s /\ m = nr
  <2>1. R = Q BY <1>2, <1>4
  <2> QED BY <1>1, <1>4, <2>1
<1>5. CASE /\ f[p] \notin marked \cup asleep /\ g[p] \notin marked \cup asleep
           /\ t = Up(s) /\ m = nr - 1
  <2>1. /\ QueueAccount(P, t, f, marked, asleep, m)
        /\ \A q \in P : Waiting(t, q) => Waiting(s, q)
    BY <1>5, QueueUp
  <2>2. InQueue(P, t, f, marked, asleep) = R BY <1>2, <1>5 DEF InQueue
  <2> QED BY <1>1, <1>5, <2>1, <2>2 DEF QueueAccount
<1>6. CASE /\ f[p] \notin marked /\ ~Waiting(s, p)
           /\ g[p] \in marked
           /\ t = s /\ m = nr + 1
  <2>1. R = Q \cup {p} /\ p \notin Q BY <1>2, <1>6
  <2>2. Cardinality(R) = Cardinality(Q) + 1 BY <1>3, <2>1, FS_AddElement
  <2> QED BY <1>1, <1>3, <1>6, <2>2
<1>7. CASE /\ f[p] \in marked /\ g[p] \in marked
           /\ t = s /\ m = nr
  <2>1. R = Q BY <1>2, <1>7
  <2>2. ~Waiting(s, p) BY <1>1, <1>7
  <2> QED BY <1>1, <1>7, <2>1, <2>2
<1>8. CASE /\ f[p] \in marked /\ g[p] \in asleep
           /\ t = Down(s, p) /\ m = nr
  <2>1. ~Waiting(s, p) /\ p \in Q BY <1>1, <1>2, <1>8
  <2>2. t \in Semaphores(P) /\ InOrder(t) BY <1>1, <1>8, <2>1, DownType, DownInOrder
  <2>3. CASE s.count > 0
    <3>1. t.count = s.count - 1 /\ \A q : Waiting(t, q) <=> Waiting(s, q)
      BY <1>1, <1>8, <2>3, DownEffect
    <3>2. R = Q \ {p} BY <1>2, <1>8, <2>1, <3>1
    <3>3. Cardinality(R) = Cardinality(Q) - 1 BY <1>3, <2>1, <3>2, FS_RemoveElement
    <3> QED BY <1>1, <1>3, <1>8, <2>2, <3>1, <3>3
  <2>4. CASE s.count = 0
    <3>1. t.count = 0 /\ \A q : Waiting(t, q) <=> (Waiting(s, q) \/ q = p)
      BY <1>1, <1>8, <2>4, DownEffect
    <3>2. R = Q BY <1>2, <1>8, <2>1, <3>1
    <3> QED BY <1>1, <1>8, <2>2, <2>4, <3>1, <3>2
  <2> QED BY <1>1, <2>3, <2>4
<1>9. CASE /\ Waiting(s, p) /\ g[p] \in marked
           /\ t = Cancel(s, p) /\ m = nr
  <2>1. /\ t \in Semaphores(P) /\ InOrder(t) /\ s.count = 0 /\ t.count = 0
        /\ \A q : Waiting(t, q) <=> (Waiting(s, q) /\ q # p)
    BY <1>1, <1>9, CancelEffect
  <2>2. R = Q BY <1>1, <1>2, <1>9, <2>1
  <2> QED BY <1>1, <1>9, <2>1, <2>2
<1>10. CASE /\ f[p] \in marked /\ g[p] \notin marked \cup asleep
            /\ t = s /\ m = nr - 1
  <2>1. ~Waiting(s, p) BY <1>1, <1>10
  <2>2. p \in Q /\ R = Q \ {p} BY <1>2, <1>10
  <2>3. Cardinality(R) = Cardinality(Q) - 1 BY <1>3, <2>2, FS_RemoveElement
  <2> QED BY <1>1, <1>3, <1>10, <2>1, <2>3
<1> QED BY <1>4, <1>5, <1>6, <1>7, <1>8, <1>9, <1>10 DEF QueueMoves

\* Whoever is in the list is counted: the counter is no less than its length.
LEMMA QueueBound ==
    ASSUME NEW P, NEW s, NEW nr, NEW f, NEW marked, NEW asleep,
           QueueAccount(P, s, f, marked, asleep, nr), s.waiters # << >>
    PROVE  Len(s.waiters) <= nr
<1> DEFINE Q == InQueue(P, s, f, marked, asleep)
           n == Len(s.waiters)
<1>1. s.waiters \in Seq(P) /\ s.count \in Nat BY DEF QueueAccount, Semaphores
<1>2. IsFiniteSet(Q) BY FS_Subset DEF QueueAccount, InQueue
<1>3. Cardinality(Q) \in Nat BY <1>2, FS_CardinalityType
<1>4. s.count = 0 BY <1>1 DEF QueueAccount, InOrder
<1>5. /\ n \in Nat /\ DOMAIN s.waiters = 1 .. n
      /\ \A i \in 1 .. n : s.waiters[i] \in P
  BY <1>1, LenProperties, ElementOfSeq
<1>6. \A i \in 1 .. n : s.waiters[i] \in Q
  BY <1>5 DEF QueueAccount, InQueue, Waiting
<1> HIDE DEF Q
<1>7. s.waiters \in Injection(1 .. n, Q)
  <2>1. s.waiters \in [1 .. n -> Q] BY <1>1, <1>5, <1>6, LenProperties
  <2>2. \A i, j \in 1 .. n : s.waiters[i] = s.waiters[j] => i = j
    BY <1>5 DEF QueueAccount, InOrder, NoTwice
  <2> QED BY <2>1, <2>2 DEF Injection, IsInjective
<1>8. Cardinality(1 .. n) = n /\ IsFiniteSet(1 .. n) BY <1>5, FS_Interval
<1>9. Cardinality(1 .. n) <= Cardinality(Q)
  BY <1>2, <1>7, FS_Injection
<1>10. nr + s.count = Cardinality(Q) /\ nr \in Int BY DEF QueueAccount, Q
<1> QED BY <1>3, <1>4, <1>5, <1>8, <1>9, <1>10
=============================================================================
