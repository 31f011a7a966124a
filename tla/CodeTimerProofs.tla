-------------------------- MODULE CodeTimerProofs --------------------------
(***************************************************************************)
(* Theorems about CodeTimer, for any number of processes, lists and codes, *)
(* any capacity, lengths, thresholds and number of interrupted waits; and, *)
(* in the last two parts, about CodeTimerEvenOdd, for any number of opens. *)
(* Only the theorems of those parts use EvenOddAssumption.                 *)
(***************************************************************************)
EXTENDS CodeTimerEvenOdd, SemaphoreProofs, NaturalsInduction, WellFoundedInduction

-----------------------------------------------------------------------------
(* Codes in a sequence of characters. *)

\* No NUL at the front, and no two in a row: there is a code before each NUL.
Apart(b) == \A i \in DOMAIN b : b[i] = 0 => i > 1 /\ b[i - 1] # 0

\* What the code relies on in the buffer, and in what is left of n characters
\* that were taken from it.
Whole(b, n) ==
    /\ b \in Seq(Chars) /\ Apart(b)
    /\ Unterminated(b) => n = Capacity

LEMMA NextNumberType ==
    ASSUME NEW k \in Chars PROVE NextNumber(k) \in Chars \ {0}
BY CodeTimerAssumption DEF Chars, NextNumber

LEMMA Piece ==
    ASSUME NEW S, NEW s \in Seq(S), NEW m \in Nat \ {0}, NEW n \in 0 .. Len(s)
    PROVE  /\ SubSeq(s, m, n) \in Seq(S)
           /\ Len(SubSeq(s, m, n)) = IF m <= n THEN n - m + 1 ELSE 0
           /\ DOMAIN SubSeq(s, m, n) = 1 .. Len(SubSeq(s, m, n))
           /\ \A i \in 1 .. n - m + 1 : SubSeq(s, m, n)[i] = s[m + i - 1]
<1>1. Len(s) \in Nat BY LenProperties
<1>2. \A i \in m .. n : s[i] \in S BY <1>1, ElementOfSeq
<1>3. /\ SubSeq(s, m, n) \in Seq(S)
      /\ Len(SubSeq(s, m, n)) = IF m <= n THEN n - m + 1 ELSE 0
      /\ \A i \in 1 .. n - m + 1 : SubSeq(s, m, n)[i] = s[m + i - 1]
  BY <1>1, <1>2, SubSeqProperties
<1> QED BY <1>3, LenProperties

LEMMA Smallest ==
    ASSUME NEW S \in SUBSET Nat, S # {}
    PROVE  \E x \in S : \A y \in S : x <= y
<1>1. PICK x \in S : \A y \in S : <<y, x>> \notin OpToRel(<, Nat)
  BY NatLessThanWellFounded, WFMin
<1>2. \A y \in S : ~(y < x) BY <1>1 DEF OpToRel
<1> QED BY <1>2

\* The end of the first code is its NUL, or the end of the buffer.
LEMMA CodeEndBounds ==
    ASSUME NEW b \in Seq(Chars)
    PROVE  /\ CodeEnd(b) \in 1 .. Len(b) + 1
           /\ CodeEnd(b) <= Len(b) => b[CodeEnd(b)] = 0
           /\ \A i \in 1 .. CodeEnd(b) - 1 : b[i] # 0
<1> DEFINE I == {i \in 1 .. Len(b) : b[i] = 0}
<1>1. SelectInSeq(b, LAMBDA c : c = 0) = IF I # {} THEN Min(I) ELSE 0
  BY DEF SelectInSeq
<1>2. Len(b) \in Nat BY LenProperties
<1>3. CASE I = {} BY <1>1, <1>2, <1>3 DEF CodeEnd
<1>4. CASE I # {}
  <2>1. I \in SUBSET Nat BY <1>2
  <2> HIDE DEF I
  <2>2. \E x \in I : \A y \in I : x <= y BY <1>4, <2>1, Smallest
  <2>3. Min(I) \in I /\ \A y \in I : Min(I) <= y BY <2>2 DEF Min
  <2>4. Min(I) \in 1 .. Len(b) /\ b[Min(I)] = 0 BY <2>3 DEF I
  <2>5. \A i \in 1 .. Min(I) - 1 : i \notin I BY <1>2, <2>3, <2>4
  <2>6. \A i \in 1 .. Min(I) - 1 : b[i] # 0 BY <1>2, <2>4, <2>5 DEF I
  <2>7. CodeEnd(b) = Min(I) BY <1>1, <1>2, <1>4, <2>4 DEF CodeEnd
  <2> QED BY <1>2, <2>4, <2>6, <2>7
<1> QED BY <1>3, <1>4

\* Taking a code off the front leaves a code, and whole codes.
LEMMA FirstAndRest ==
    ASSUME NEW b, NEW n, Whole(b, n), b # << >>
    PROVE  /\ FirstCode(b) \in Seq(Chars \ {0}) /\ FirstCode(b) # << >>
           /\ Whole(RestOf(b), n)
<1> DEFINE e == CodeEnd(b)
<1>1. b \in Seq(Chars) /\ Apart(b) /\ (Last(b) # 0 => n = Capacity)
  BY DEF Whole, Unterminated
<1>2. Len(b) \in Nat \ {0} /\ DOMAIN b = 1 .. Len(b) BY <1>1, EmptySeq, LenProperties
<1>3. /\ e \in 1 .. Len(b) + 1 /\ (e <= Len(b) => b[e] = 0)
      /\ \A i \in 1 .. e - 1 : b[i] # 0
  BY <1>1, CodeEndBounds
<1> HIDE DEF e
<1>4. FirstCode(b) = SubSeq(b, 1, e - 1) /\ RestOf(b) = SubSeq(b, e + 1, Len(b))
  BY DEF FirstCode, RestOf, e
<1>5. FirstCode(b) \in Seq(Chars \ {0}) /\ FirstCode(b) # << >>
  <2>1. e # 1
    <3> SUFFICES ASSUME e = 1 PROVE FALSE OBVIOUS
    <3>1. e \in DOMAIN b /\ b[e] = 0 BY <1>2, <1>3
    <3>2. e > 1 BY <1>1, <3>1 DEF Apart
    <3> QED BY <3>2
  <2>2. \A i \in 1 .. e - 1 : b[i] \in Chars \ {0} BY <1>1, <1>2, <1>3, ElementOfSeq
  <2>3. /\ SubSeq(b, 1, e - 1) \in Seq(Chars \ {0})
        /\ Len(SubSeq(b, 1, e - 1)) = e - 1
    BY <1>2, <1>3, <2>1, <2>2, SubSeqProperties
  <2>4. e - 1 # 0 BY <1>3, <2>1
  <2> QED BY <1>4, <2>3, <2>4, EmptySeq
<1> DEFINE r == SubSeq(b, e + 1, Len(b))
<1>6. e \in Nat \ {0} /\ e + 1 \in Nat \ {0} /\ Len(b) \in 0 .. Len(b) BY <1>2, <1>3
<1>7. /\ r \in Seq(Chars) /\ DOMAIN r = 1 .. Len(r)
      /\ Len(r) = IF e + 1 <= Len(b) THEN Len(b) - (e + 1) + 1 ELSE 0
      /\ \A i \in 1 .. Len(b) - (e + 1) + 1 : r[i] = b[(e + 1) + i - 1]
  BY <1>1, <1>6, Piece
<1> HIDE DEF r
<1>8. ASSUME NEW i \in 1 .. Len(r)
      PROVE  /\ e < Len(b) /\ Len(r) = Len(b) - e /\ r[i] = b[e + i]
             /\ e + i \in DOMAIN b
  <2>1. e + 1 <= Len(b) /\ Len(r) = Len(b) - (e + 1) + 1 BY <1>6, <1>7
  <2>2. i \in Nat /\ i \in 1 .. Len(b) - (e + 1) + 1 BY <2>1
  <2>3. r[i] = b[(e + 1) + i - 1] BY <1>7, <2>2
  <2>4. (e + 1) + i - 1 = e + i BY <1>6, <2>2
  <2> QED BY <1>2, <1>6, <2>1, <2>2, <2>3, <2>4
<1>9. Apart(r)
  <2> SUFFICES ASSUME NEW i \in 1 .. Len(r), r[i] = 0 PROVE i > 1 /\ r[i - 1] # 0
    BY <1>7 DEF Apart
  <2>1. e + i \in DOMAIN b /\ b[e + i] = 0 /\ e < Len(b) BY <1>8
  <2>2. b[(e + i) - 1] # 0 BY <1>1, <2>1 DEF Apart
  <2>3. b[e] = 0 BY <1>3, <1>6, <1>2, <2>1
  <2>4. i # 1
    <3> SUFFICES ASSUME i = 1 PROVE FALSE OBVIOUS
    <3>1. (e + i) - 1 = e BY <1>6
    <3> QED BY <2>2, <2>3, <3>1
  <2>5. i - 1 \in 1 .. Len(r) /\ e + (i - 1) = (e + i) - 1
    <3>1. Len(r) = Len(b) - e BY <1>8
    <3> QED BY <1>6, <2>4, <3>1
  <2>6. r[i - 1] = b[e + (i - 1)] BY <1>8, <2>5
  <2> QED BY <2>2, <2>4, <2>5, <2>6
<1>10. Unterminated(r) => n = Capacity
  <2> SUFFICES ASSUME r # << >>, r[Len(r)] # 0 PROVE Last(b) # 0
    BY <1>1 DEF Unterminated, Last
  <2>1. Len(r) \in Nat \ {0} BY <1>7, EmptySeq
  <2>2. Len(r) \in 1 .. Len(r) BY <2>1
  <2>3. r[Len(r)] = b[e + Len(r)] /\ Len(r) = Len(b) - e BY <1>8, <2>2
  <2>4. e + Len(r) = Len(b) BY <1>2, <1>6, <2>3
  <2> QED BY <2>3, <2>4 DEF Last
<1> QED BY <1>4, <1>5, <1>7, <1>9, <1>10 DEF Whole, r

\* Storing a code keeps the buffer within its capacity and its codes whole.
LEMMA PutWhole ==
    ASSUME cbuffer \in Seq(Chars), Len(cbuffer) <= Capacity,
           Whole(cbuffer, Len(cbuffer)),
           NEW k \in Chars \ {0}, NEW n \in Nat \ {0},
           NEW c, c = cbuffer \o Put(Code(k, n))
    PROVE  /\ Len(c) <= Capacity
           /\ Whole(c, Len(c))
<1> DEFINE code == Code(k, n)
           stored == Put(code)
<1>1. /\ code \in Seq(Chars) /\ Len(code) = n + 1 /\ code[n + 1] = 0
      /\ \A i \in 1 .. n : code[i] # 0
  <2>1. \A i \in 1 .. n + 1 : (IF i <= n THEN k ELSE 0) \in Chars
    BY CodeTimerAssumption DEF Chars
  <2>2. code \in [1 .. n + 1 -> Chars] BY <2>1 DEF Code
  <2>3. code \in Seq(Chars) /\ Len(code) = n + 1 BY <2>2
  <2> QED BY <2>3 DEF Code
<1> HIDE DEF code
<1>2. Len(cbuffer) \in Nat /\ DOMAIN cbuffer = 1 .. Len(cbuffer) BY LenProperties
<1>3. Capacity \in Nat /\ Room \in Nat /\ Room = Capacity - Len(cbuffer)
  BY <1>2, CodeTimerAssumption DEF Room
<1>4. /\ stored \in Seq(Chars)
      /\ Len(stored) = IF n + 1 <= Room THEN n + 1 ELSE Room
      /\ \A i \in 1 .. Len(stored) : stored[i] = code[i]
  <2>1. CASE n + 1 <= Room BY <1>1, <2>1 DEF Put
  <2>2. CASE ~(n + 1 <= Room)
    <3>1. Room \in 0 .. Len(code) /\ stored = SubSeq(code, 1, Room)
      BY <1>1, <1>3, <2>2 DEF Put
    <3>2. /\ SubSeq(code, 1, Room) \in Seq(Chars)
          /\ Len(SubSeq(code, 1, Room)) = IF 1 <= Room THEN Room - 1 + 1 ELSE 0
          /\ \A i \in 1 .. Room - 1 + 1 : SubSeq(code, 1, Room)[i] = code[1 + i - 1]
      BY <1>1, <3>1, Piece
    <3> HIDE DEF stored
    <3> QED BY <1>3, <2>2, <3>1, <3>2
  <2> QED BY <2>1, <2>2
<1> HIDE DEF stored
<1>5. /\ c \in Seq(Chars) /\ Len(c) = Len(cbuffer) + Len(stored)
      /\ \A i \in 1 .. Len(cbuffer) + Len(stored) :
            c[i] = IF i <= Len(cbuffer) THEN cbuffer[i] ELSE stored[i - Len(cbuffer)]
  <2>1. c = cbuffer \o stored BY DEF stored, code
  <2>2. /\ cbuffer \o stored \in Seq(Chars)
        /\ Len(cbuffer \o stored) = Len(cbuffer) + Len(stored)
        /\ \A i \in 1 .. Len(cbuffer) + Len(stored) :
              (cbuffer \o stored)[i] =
                IF i <= Len(cbuffer) THEN cbuffer[i] ELSE stored[i - Len(cbuffer)]
    BY <1>4, ConcatProperties
  <2> QED BY <2>1, <2>2
<1>6. DOMAIN c = 1 .. Len(c) /\ Len(c) \in Nat /\ Len(stored) \in Nat
  BY <1>4, <1>5, LenProperties
<1>7. Len(c) <= Capacity BY <1>1, <1>2, <1>3, <1>4, <1>5
<1>8. /\ Apart(cbuffer)
      /\ cbuffer # << >> /\ cbuffer[Len(cbuffer)] # 0 => Len(cbuffer) = Capacity
  BY DEF Whole, Unterminated, Last
<1>9. Apart(c)
  <2> SUFFICES ASSUME NEW i \in 1 .. Len(c), c[i] = 0 PROVE i > 1 /\ c[i - 1] # 0
    BY <1>6 DEF Apart
  <2>1. CASE i <= Len(cbuffer)
    <3>1. i \in DOMAIN cbuffer /\ cbuffer[i] = 0 BY <1>2, <1>5, <2>1
    <3>2. i > 1 /\ cbuffer[i - 1] # 0 BY <1>8, <3>1 DEF Apart
    <3>3. i - 1 \in 1 .. Len(cbuffer) + Len(stored) /\ i - 1 <= Len(cbuffer)
      BY <1>2, <1>6, <2>1, <3>2
    <3> QED BY <1>5, <3>2, <3>3
  <2>2. CASE i > Len(cbuffer)
    <3> DEFINE j == i - Len(cbuffer)
    <3>1. j \in 1 .. Len(stored) /\ c[i] = stored[j] /\ i = Len(cbuffer) + j
      BY <1>2, <1>5, <1>6, <2>2
    <3> HIDE DEF j
    <3>2. code[j] = 0 /\ j \in 1 .. n + 1 BY <1>1, <1>3, <1>4, <3>1, SMTT(30)
    <3>3. j = n + 1 BY <1>1, <3>2
    <3>4. j - 1 \in 1 .. Len(stored) /\ j - 1 \in 1 .. n BY <1>6, <3>1, <3>3
    <3>5. stored[j - 1] # 0 BY <1>1, <1>4, <3>4
    <3>6. i - 1 \in 1 .. Len(cbuffer) + Len(stored) /\ ~(i - 1 <= Len(cbuffer))
          /\ (i - 1) - Len(cbuffer) = j - 1 /\ i > 1
      BY <1>2, <1>6, <3>1, <3>4
    <3>7. c[i - 1] = stored[(i - 1) - Len(cbuffer)] BY <1>5, <3>6
    <3> QED BY <3>5, <3>6, <3>7
  <2> QED BY <1>2, <2>1, <2>2
<1>10. ASSUME Unterminated(c) PROVE Len(c) = Capacity
  <2>1. c # << >> /\ c[Len(c)] # 0 BY <1>10 DEF Unterminated, Last
  <2>2. CASE n + 1 <= Room
    <3>1. Len(stored) = n + 1 /\ Len(c) - Len(cbuffer) = n + 1 BY <1>2, <1>4, <1>5, <2>2
    <3>2. ~(Len(c) <= Len(cbuffer)) /\ Len(c) \in 1 .. Len(cbuffer) + Len(stored)
      BY <1>2, <1>5, <1>6, <3>1
    <3>3. c[Len(c)] = stored[n + 1] BY <1>5, <3>1, <3>2
    <3> QED BY <1>1, <1>4, <2>1, <3>1, <3>3
  <2>3. CASE ~(n + 1 <= Room) BY <1>2, <1>3, <1>4, <1>5, <2>3
  <2> QED BY <2>2, <2>3
<1> QED BY <1>5, <1>7, <1>9, <1>10 DEF Whole
-----------------------------------------------------------------------------
(* Types, of the variables that both modules have.                         *)

\* A code that is listed.
CodeSet == Seq(Chars \ {0}) \ {<< >>}

WorkItems == [state  : {"idle", "queued", "copy", "append", "wake", "up", "finish"},
              buffer : Seq(Chars), taken : 0 .. Capacity, l : Lists, reg : Int]

\* A work item in order: what is left to copy is whole, and there while it copies.
WorkOK(w) ==
    /\ w \in WorkItems /\ Whole(w.buffer, w.taken)
    /\ w.state \in {"copy", "append"} => w.buffer # << >>

ReadPlaces == {"idle", "test", "count", "presleep", "sleep", "undo", "uncount", "clean",
               "cleaning"}
MeetPlaces == {"premeet", "meeting", "unmeet", "unmeeting"}
Closers    == {"flush", "reset", "drop", "dropping", "wipe", "wiping"}
OpenPlaces == MeetPlaces \cup Closers \cup
              {"claim", "addeven", "loadodd", "addodd", "init", "meet", "join", "joining",
               "answer", "answering"}

ListTypes ==
    /\ mylist \in [Lists -> Seq(CodeSet)] /\ copied \in [Lists -> Nat]
    /\ \A l \in Lists : Len(mylist[l]) <= MaxListed /\ copied[l] <= Len(mylist[l])

WaitTypes ==
    /\ queue \in [Lists -> Semaphores(Procs)] /\ waiting \in [Lists -> Int]
    /\ raced \in BOOLEAN

LockTypes == sem_list \in [Lists -> Semaphores(Procs \cup {Worker})]

ProcTypes ==
    /\ file \in [Procs -> 0 .. NLists] /\ pc \in [Procs -> ReadPlaces \cup OpenPlaces]
    /\ reg \in [Procs -> Int]
    /\ signals \in 0 .. MaxSignals /\ unlocked \in BOOLEAN
    /\ \A p \in Procs : pc[p] # "idle" => file[p] \in Lists

BufferTypes ==
    /\ Whole(cbuffer, Len(cbuffer)) /\ Len(cbuffer) <= Capacity
    /\ made \in Chars
    /\ timer \in {"off", "armed", "test", "queue"}
    /\ threshold \in Thresholds /\ code_length \in Lens

WorkTypes == WorkOK(work) /\ jobFinished \in BOOLEAN

Types == ListTypes /\ WaitTypes /\ LockTypes /\ ProcTypes /\ BufferTypes /\ WorkTypes

LEMMA WholeEmpty == \A n : Whole(<< >>, n)
<1>1. << >> \in Seq(Chars) /\ DOMAIN << >> = {} BY EmptySeq
<1> QED BY <1>1 DEF Whole, Apart, Unterminated

LEMMA NoWorkOK == WorkOK(NoWork)
<1>1. << >> \in Seq(Chars) BY EmptySeq
<1>2. 1 \in Lists /\ 0 \in 0 .. Capacity BY CodeTimerAssumption DEF Lists
<1> QED BY <1>1, <1>2, WholeEmpty DEF WorkOK, WorkItems, NoWork

LEMMA ToWakeOK ==
    ASSUME NEW l PROVE  WorkOK(ToWake(l)) /\ ToWake(l).state \in {"wake", "finish"}
<1>1. /\ NoWork \in WorkItems /\ NoWork.buffer = << >>
  BY NoWorkOK DEF WorkOK, NoWork
<1>2. ToWake(l) \in WorkItems /\ ToWake(l).buffer = << >> /\ ToWake(l).state \in {"wake", "finish"}
  BY <1>1 DEF ToWake, WorkItems
<1> QED BY <1>2, WholeEmpty DEF WorkOK

LEMMA CopyNextOK ==
    ASSUME NEW w \in WorkItems, Whole(w.buffer, w.taken)
    PROVE  WorkOK(CopyNext(w)) /\ CopyNext(w).state \in {"copy", "wake", "finish"}
<1>1. CASE w.buffer = << >> BY <1>1, ToWakeOK DEF CopyNext
<1>2. CASE w.buffer # << >>
  <2>1. CopyNext(w) = [w EXCEPT !.state = "copy"] BY <1>2 DEF CopyNext
  <2>2. /\ CopyNext(w) \in WorkItems /\ CopyNext(w).state = "copy"
        /\ CopyNext(w).buffer = w.buffer /\ CopyNext(w).taken = w.taken
    BY <2>1 DEF WorkItems
  <2> QED BY <1>2, <2>2 DEF WorkOK
<1> QED BY <1>1, <1>2

LEMMA InitTypes == Init => Types
<1> SUFFICES ASSUME Init PROVE Types OBVIOUS
<1>1. << >> \in Seq(CodeSet) /\ Len(<< >>) = 0 BY EmptySeq
<1>2. SemInit(0) \in Semaphores(Procs) /\ SemInit(1) \in Semaphores(Procs \cup {Worker})
  BY InitEffect
<1>3. ListTypes BY <1>1, CodeTimerAssumption DEF Init, ListTypes
<1>4. WaitTypes /\ LockTypes
  <2>1. /\ queue = [l \in Lists |-> SemInit(0)] /\ waiting = [l \in Lists |-> 0]
        /\ sem_list = [l \in Lists |-> SemInit(1)]
    BY DEF Init
  <2>2. raced \in BOOLEAN BY Zenon DEF Init
  <2> QED BY <1>2, <2>1, <2>2 DEF WaitTypes, LockTypes
<1>5. ProcTypes
  <2>1. 0 \in 0 .. NLists /\ 0 \in 0 .. MaxSignals BY CodeTimerAssumption
  <2>2. /\ file = [p \in Procs |-> 0] /\ pc = [p \in Procs |-> "idle"]
        /\ reg = [p \in Procs |-> 0] /\ signals = 0
    BY DEF Init
  <2>3. unlocked \in BOOLEAN BY Zenon DEF Init
  <2> QED BY <2>1, <2>2, <2>3 DEF ProcTypes, ReadPlaces
<1>6. BufferTypes BY <1>1, WholeEmpty, CodeTimerAssumption DEF Init, BufferTypes, Chars
<1>7. WorkTypes BY NoWorkOK DEF Init, WorkTypes
<1> QED BY <1>3, <1>4, <1>5, <1>6, <1>7 DEF Types

\* The timer function and the configuration.
Timer == \/ \E n \in Lens : FirePut(n)
         \/ FireTest \/ FireQueue \/ ConfigThreshold \/ ConfigFormat

LEMMA TimerTypes == Types /\ Timer => Types'
<1> SUFFICES ASSUME Types, Timer PROVE Types' OBVIOUS
<1> USE DEF lists, sleepq, config, procs, clock
<1>1. ASSUME NEW n \in Lens, FirePut(n) PROVE Types'
  <2>1. NextNumber(made) \in Chars \ {0}
    BY NextNumberType DEF Types, BufferTypes
  <2>2. n \in Nat \ {0} BY CodeTimerAssumption
  <2>3. cbuffer' = cbuffer \o Put(Code(NextNumber(made), n)) BY <1>1 DEF FirePut
  <2>4. /\ cbuffer \in Seq(Chars) /\ Len(cbuffer) <= Capacity
        /\ Whole(cbuffer, Len(cbuffer)) /\ made \in Chars
    BY DEF Types, BufferTypes, Whole
  <2>5. Len(cbuffer') <= Capacity /\ Whole(cbuffer', Len(cbuffer'))
    BY <2>1, <2>2, <2>3, <2>4, PutWhole
  <2>6. made' \in Chars BY <1>1, <2>1, <2>4 DEF FirePut
  <2>7. BufferTypes' BY <1>1, <2>5, <2>6 DEF FirePut, Types, BufferTypes
  <2> QED BY <1>1, <2>7
    DEF FirePut, Types, ListTypes, WaitTypes, LockTypes, ProcTypes, WorkTypes
<1>2. CASE FireTest \/ ConfigThreshold \/ ConfigFormat
  <2>1. BufferTypes'
    BY <1>2 DEF FireTest, ConfigThreshold, ConfigFormat, Types, BufferTypes
  <2> QED BY <1>2, <2>1
    DEF FireTest, ConfigThreshold, ConfigFormat, Types, ListTypes, WaitTypes, LockTypes,
        ProcTypes, WorkTypes
<1>3. CASE FireQueue
  <2>1. WorkOK(work) /\ WorkOK([work EXCEPT !.state = "queued"])
    BY DEF Types, WorkTypes, WorkOK, WorkItems
  <2>2. WorkTypes' BY <1>3, <2>1 DEF FireQueue, Types, WorkTypes
  <2> QED BY <1>3, <2>2
    DEF FireQueue, Types, ListTypes, WaitTypes, LockTypes, ProcTypes, BufferTypes
<1> QED BY <1>1, <1>2, <1>3 DEF Timer

\* The work item.
Item == WorkTake \/ (\E l \in Lists : WorkCopy(l)) \/ WorkAppend \/ WorkWake \/ WorkUp \/ WorkDone

\* It appends once it has called down() and is idle once it is done, never before.
LEMMA ItemWork ==
    ASSUME Types, Item
    PROVE  /\ WorkTypes'
           /\ work'.state = "append" => \E l \in Lists : WorkCopy(l)
           /\ work'.state = "idle" => WorkDone
<1>1. WorkOK(work) /\ jobFinished \in BOOLEAN BY DEF Types, WorkTypes
<1>2. work \in WorkItems /\ Whole(work.buffer, work.taken) BY <1>1 DEF WorkOK
<1> USE DEF WorkTypes, clock
<1>3. CASE WorkTake
  <2> DEFINE w == [NoWork EXCEPT !.buffer = cbuffer, !.taken = Len(cbuffer)]
  <2>1. Whole(cbuffer, Len(cbuffer)) /\ Len(cbuffer) <= Capacity /\ cbuffer \in Seq(Chars)
    BY DEF Types, BufferTypes, Whole
  <2>2. Len(cbuffer) \in 0 .. Capacity BY <2>1, LenProperties, CodeTimerAssumption
  <2>3. w \in WorkItems /\ w.buffer = cbuffer /\ w.taken = Len(cbuffer)
    BY NoWorkOK, <2>1, <2>2 DEF WorkOK, WorkItems, NoWork
  <2>4. work' = CopyNext(w) /\ UNCHANGED jobFinished BY <1>3 DEF WorkTake
  <2> HIDE DEF w
  <2> QED BY <1>1, <2>1, <2>3, <2>4, CopyNextOK
<1>4. ASSUME NEW l \in Lists, WorkCopy(l) PROVE WorkTypes' /\ work'.state = "append"
  BY <1>1, <1>4 DEF WorkCopy, WorkOK, WorkItems
<1>5. CASE WorkAppend
  <2> DEFINE w == [work EXCEPT !.buffer = RestOf(@)]
  <2>1. work.buffer # << >> BY <1>1, <1>5 DEF WorkOK, WorkAppend
  <2>2. Whole(RestOf(work.buffer), work.taken) BY <1>2, <2>1, FirstAndRest
  <2>3. w \in WorkItems /\ w.buffer = RestOf(work.buffer) /\ w.taken = work.taken
    BY <1>2, <2>2 DEF WorkItems, Whole
  <2>4. work' = CopyNext(w) /\ UNCHANGED jobFinished BY <1>5 DEF WorkAppend
  <2> HIDE DEF w
  <2> QED BY <1>1, <2>2, <2>3, <2>4, CopyNextOK
<1>6. CASE WorkWake
  <2>1. ASSUME SomeoneWaits(work.l) PROVE WorkOK(work') /\ work'.state = "up"
    <3>1. work.l \in Lists /\ waiting[work.l] \in Int
      BY <1>2 DEF WorkItems, Types, WaitTypes
    <3>2. work' = [work EXCEPT !.state = "up", !.reg = waiting[work.l]]
      BY <1>6, <2>1 DEF WorkWake
    <3> QED BY <1>2, <3>1, <3>2 DEF WorkOK, WorkItems
  <2> QED BY <1>1, <1>6, <2>1, ToWakeOK DEF WorkWake
<1>7. CASE WorkUp BY <1>1, <1>7, ToWakeOK DEF WorkUp
<1>8. CASE WorkDone BY <1>1, <1>8, NoWorkOK DEF WorkDone, NoWork
<1> QED BY <1>3, <1>4, <1>5, <1>6, <1>7, <1>8 DEF Item

LEMMA ItemLists == Types /\ Item => ListTypes'
<1> SUFFICES ASSUME Types, Item PROVE ListTypes' OBVIOUS
<1> USE DEF Types, ListTypes, lists
<1>1. CASE WorkAppend
  <2> DEFINE l == work.l
             s == Append(mylist[l], FirstCode(work.buffer))
             t == SubSeq(s, 1 + Forgotten(s), Len(s))
             c == IF copied[l] = 0 THEN 0 ELSE copied[l] - Forgotten(s)
  <2>1. /\ l \in Lists /\ work.buffer # << >> /\ Whole(work.buffer, work.taken)
        /\ MaxListed \in Nat \ {0}
    BY <1>1, CodeTimerAssumption DEF WorkTypes, WorkOK, WorkItems, WorkAppend
  <2>2. FirstCode(work.buffer) \in CodeSet BY <2>1, FirstAndRest DEF CodeSet
  <2>3. /\ mylist' = [mylist EXCEPT ![l] = t] /\ copied' = [copied EXCEPT ![l] = c]
    BY <1>1, <2>1 DEF WorkAppend, Link
  <2>4. /\ mylist[l] \in Seq(CodeSet) /\ copied[l] \in Nat /\ copied[l] <= Len(mylist[l])
        /\ Len(mylist[l]) <= MaxListed
    BY <2>1
  <2> HIDE DEF l
  <2>5. s \in Seq(CodeSet) /\ Len(s) = Len(mylist[l]) + 1 BY <2>2, <2>4, AppendProperties
  <2> HIDE DEF s
  <2>6. Len(mylist[l]) \in Nat BY <2>4, LenProperties
  <2>7. Forgotten(s) = IF Len(s) > MaxListed THEN 1 ELSE 0 BY DEF Forgotten
  <2>8. 1 + Forgotten(s) \in Nat \ {0} /\ Len(s) \in 0 .. Len(s) BY <2>5, <2>6, <2>7
  <2>9. t \in Seq(CodeSet) /\ Len(t) = IF 1 + Forgotten(s) <= Len(s)
                                       THEN Len(s) - (1 + Forgotten(s)) + 1 ELSE 0
    BY <2>5, <2>8, Piece
  <2> HIDE DEF t
  <2>10. Len(t) <= MaxListed /\ c \in Nat /\ c <= Len(t)
    BY <2>1, <2>4, <2>5, <2>6, <2>7, <2>9
  <2> HIDE DEF c
  <2> QED BY <2>1, <2>3, <2>9, <2>10
<1>2. CASE WorkTake \/ (\E l \in Lists : WorkCopy(l)) \/ WorkWake \/ WorkUp \/ WorkDone
  BY <1>2 DEF WorkTake, WorkCopy, WorkWake, WorkUp, WorkDone
<1> QED BY <1>1, <1>2 DEF Item

LEMMA ItemTypes == Types /\ Item => Types'
<1> SUFFICES ASSUME Types, Item PROVE Types' OBVIOUS
<1>1. WorkTypes' /\ ListTypes' BY ItemWork, ItemLists
<1>2. work.l \in Lists /\ work.reg \in Int BY DEF Types, WorkTypes, WorkOK, WorkItems
<1> USE DEF lists, sleepq, config, procs, clock
<1>3. BufferTypes'
  <2>1. CASE WorkTake
    <3>1. Len(<< >>) = 0 /\ Whole(<< >>, 0) BY EmptySeq, WholeEmpty
    <3> QED BY <2>1, <3>1, CodeTimerAssumption DEF Types, BufferTypes, WorkTake
  <2>2. CASE WorkAppend \/ (\E l \in Lists : WorkCopy(l)) \/ WorkWake \/ WorkUp \/ WorkDone
    BY <2>2 DEF WorkAppend, WorkCopy, WorkWake, WorkUp, WorkDone, Types, BufferTypes
  <2> QED BY <2>1, <2>2 DEF Item
<1>4. ProcTypes'
  BY DEF Item, WorkTake, WorkAppend, WorkCopy, WorkWake, WorkUp, WorkDone, Types, ProcTypes
<1>5. WaitTypes'
  <2>1. CASE WorkUp
    <3>1. Up(queue[work.l]) \in Semaphores(Procs) BY <1>2, UpType DEF Types, WaitTypes
    <3> QED BY <1>2, <2>1, <3>1 DEF WorkUp, StoreWaiting, Types, WaitTypes
  <2>2. CASE WorkTake \/ WorkAppend \/ (\E l \in Lists : WorkCopy(l)) \/ WorkWake \/ WorkDone
    BY <2>2 DEF WorkAppend, WorkCopy, WorkWake, WorkTake, WorkDone, Types, WaitTypes
  <2> QED BY <2>1, <2>2 DEF Item
<1>6. LockTypes'
  <2> USE DEF Types, LockTypes
  <2>1. ASSUME NEW l \in Lists, WorkCopy(l) PROVE LockTypes'
    <3>1. Down(sem_list[l], Worker) \in Semaphores(Procs \cup {Worker}) BY DownType
    <3> QED BY <2>1, <3>1 DEF WorkCopy
  <2>2. CASE WorkAppend
    <3>1. Up(sem_list[work.l]) \in Semaphores(Procs \cup {Worker}) BY <1>2, UpType
    <3> QED BY <2>2, <3>1 DEF WorkAppend
  <2>3. CASE WorkTake \/ WorkWake \/ WorkUp \/ WorkDone
    BY <2>3 DEF WorkTake, WorkWake, WorkUp, WorkDone
  <2> QED BY <2>1, <2>2, <2>3 DEF Item
<1> QED BY <1>1, <1>3, <1>4, <1>5, <1>6 DEF Types

\* The steps of a process that reads.
Reader(p) == CallRead(p) \/ ReadStep(p) \/ Interrupt(p)

LEMMA ReaderLists ==
    ASSUME Types, NEW p \in Procs, Reader(p) PROVE ListTypes'
<1> USE DEF Types, ListTypes, lists
<1>1. CASE Copy(p)
  <2>1. file[p] \in Lists /\ mylist[file[p]] \in Seq(CodeSet)
    BY <1>1 DEF Copy, Granted, ProcTypes
  <2>2. Len(mylist[file[p]]) \in Nat BY <2>1, LenProperties
  <2> QED BY <1>1, <2>1, <2>2 DEF Copy
<1>2. CASE Clean(p)
  <2>1. file[p] \in Lists BY <1>2 DEF Clean, Granted, ProcTypes
  <2>2. << >> \in Seq(CodeSet) /\ Len(<< >>) = 0 BY EmptySeq
  <2> QED BY <1>2, <2>1, <2>2, CodeTimerAssumption DEF Clean, Cleaned
<1>3. CASE Count(p) \/ Counted(p) \/ Sleep(p) \/ WakeUp(p) \/ CleanLock(p) \/ Uncount(p) \/ Uncounted(p)
  BY <1>3 DEF Count, Counted, Sleep, WakeUp, CleanLock, Uncount, Uncounted
<1>4. CASE CallRead(p) \/ Interrupt(p)
  BY <1>4 DEF CallRead, Interrupt, InterruptTest, InterruptSleep, InterruptClean
<1> QED BY <1>1, <1>2, <1>3, <1>4 DEF Reader, ReadStep

LEMMA ReaderProcs ==
    ASSUME Types, NEW p \in Procs, Reader(p)
    PROVE  /\ ProcTypes' /\ UNCHANGED file
           /\ pc[p] \in ReadPlaces /\ pc'[p] \in ReadPlaces /\ file[p] \in Lists
           /\ \A q \in Procs : q # p => pc'[q] = pc[q]
<1> USE DEF Types, ProcTypes, ReadPlaces, Goto, LockList, procs, Granted
<1>1. file[p] \in Lists => waiting[file[p]] \in Int BY DEF WaitTypes
<1>2. CASE CallRead(p) BY <1>2 DEF CallRead, Lists
<1>3. CASE Count(p) BY <1>1, <1>3 DEF Count
<1>4. CASE Counted(p) BY <1>4 DEF Counted
<1>5. CASE Sleep(p) BY <1>5 DEF Sleep
<1>6. CASE WakeUp(p) BY <1>6 DEF WakeUp
<1>7. CASE Copy(p) BY <1>7 DEF Copy
<1>8. CASE CleanLock(p) BY <1>8 DEF CleanLock
<1>9. CASE Clean(p) BY <1>9 DEF Clean
<1>10. CASE Uncount(p) BY <1>1, <1>10 DEF Uncount
<1>11. CASE Uncounted(p) BY <1>11 DEF Uncounted
<1>12. CASE Interrupt(p)
  <2>1. signals' \in 0 .. MaxSignals BY <1>12, CodeTimerAssumption DEF Interrupt
  <2> QED BY <1>12, <2>1 DEF Interrupt, InterruptTest, InterruptSleep, InterruptClean
<1> QED
  BY <1>2, <1>3, <1>4, <1>5, <1>6, <1>7, <1>8, <1>9, <1>10, <1>11, <1>12
  DEF Reader, ReadStep

LEMMA ReaderWaits ==
    ASSUME Types, NEW p \in Procs, Reader(p) PROVE WaitTypes'
<1>1. /\ file[p] \in Lists /\ queue[file[p]] \in Semaphores(Procs)
      /\ reg[p] \in Int /\ reg[p] + 1 \in Int /\ reg[p] + -1 \in Int
  BY ReaderProcs DEF Types, WaitTypes, ProcTypes
<1> USE DEF Types, WaitTypes, sleepq
<1>2. CASE Counted(p) \/ Uncounted(p)
  BY <1>1, <1>2 DEF Counted, Uncounted, StoreWaiting
<1>3. CASE Sleep(p)
  <2>1. Down(queue[file[p]], p) \in Semaphores(Procs) BY <1>1, DownType
  <2> QED BY <1>1, <1>3, <2>1 DEF Sleep
<1>4. CASE InterruptSleep(p) /\ UNCHANGED <<waiting, raced>>
  <2>1. Cancel(queue[file[p]], p) \in Semaphores(Procs)
    BY <1>1, <1>4, CancelType DEF InterruptSleep
  <2> QED BY <1>1, <1>4, <2>1 DEF InterruptSleep
<1>5. CASE CallRead(p) \/ Count(p) \/ WakeUp(p) \/ Copy(p) \/ CleanLock(p) \/ Clean(p) \/ Uncount(p)
  BY <1>5 DEF CallRead, Count, WakeUp, Copy, CleanLock, Clean, Uncount
<1>6. CASE (InterruptTest(p) \/ InterruptClean(p)) /\ UNCHANGED <<waiting, raced>>
  BY <1>6 DEF InterruptTest, InterruptClean
<1> QED BY <1>2, <1>3, <1>4, <1>5, <1>6 DEF Reader, ReadStep, Interrupt

LEMMA ReaderLock ==
    ASSUME Types, NEW p \in Procs, Reader(p) PROVE LockTypes'
<1> DEFINE s == sem_list[file[p]]
           S == Semaphores(Procs \cup {Worker})
<1>1. file[p] \in Lists /\ s \in S /\ p \in Procs \cup {Worker}
  BY ReaderProcs DEF Types, LockTypes
<1>2. /\ Down(s, p) \in S /\ Up(s) \in S
      /\ Waiting(s, p) => Cancel(s, p) \in S
  BY <1>1, DownType, UpType, CancelType
<1> HIDE DEF S
<1>3. sem_list \in [Lists -> S] BY DEF Types, LockTypes, S
<1>4. \/ UNCHANGED sem_list
      \/ LockList(p, pc'[p]) \/ UnlockList(p)
      \/ Waiting(s, p) /\ sem_list' = [sem_list EXCEPT ![file[p]] = Cancel(@, p)]
  <2> USE DEF LockList, Goto, lists
  <2>1. pc \in [Procs -> ReadPlaces \cup OpenPlaces] BY DEF Types, ProcTypes
  <2>2. CASE CallRead(p) \/ WakeUp(p) \/ CleanLock(p)
    BY <2>1, <2>2 DEF CallRead, WakeUp, CleanLock
  <2>3. CASE Counted(p) \/ Copy(p) \/ Clean(p) \/ Uncounted(p)
    BY <2>3 DEF Counted, Copy, Clean, Uncounted
  <2>4. CASE Count(p) \/ Sleep(p) \/ Uncount(p) BY <2>4 DEF Count, Sleep, Uncount
  <2>5. CASE Interrupt(p)
    BY <2>1, <2>5 DEF Interrupt, InterruptTest, InterruptSleep, InterruptClean
  <2> QED BY <2>2, <2>3, <2>4, <2>5 DEF Reader, ReadStep
<1>5. sem_list' \in [Lists -> S] BY <1>1, <1>2, <1>3, <1>4 DEF LockList, UnlockList
<1> QED BY <1>5 DEF LockTypes, S

LEMMA ReaderTypes ==
    ASSUME Types, NEW p \in Procs, Reader(p) PROVE Types'
<1>1. ListTypes' /\ ProcTypes' /\ WaitTypes' /\ LockTypes'
  BY ReaderLists, ReaderProcs, ReaderWaits, ReaderLock
<1>2. UNCHANGED <<cbuffer, config, clock, work>>
  BY DEF Reader, ReadStep, CallRead, Count, Counted, Sleep, WakeUp, Copy, CleanLock, Clean,
         Uncount, Uncounted, Interrupt
<1>3. BufferTypes' BY <1>2 DEF Types, BufferTypes, config, clock
<1>4. WorkTypes' BY <1>2 DEF Types, WorkTypes, clock
<1> QED BY <1>1, <1>3, <1>4 DEF Types
-----------------------------------------------------------------------------
(* The readers of list l that waiting counts, and those on its queue.      *)

Marked == {"presleep", "undo", "uncount", "premeet", "unmeet", "unmeeting"}
Asleep == {"sleep", "meeting"}

\* Where p is for the queue of list l.  A process that opens a file sleeps on the
\* queue of the odd list, whichever list it will read.
SleepAt(l) ==
    [p \in Procs |-> IF pc[p] \in MeetPlaces THEN IF l = Odd THEN pc[p] ELSE "idle"
                     ELSE IF file[p] = l THEN pc[p] ELSE "idle"]

Sleepers(l) == QueueAccount(Procs, queue[l], SleepAt(l), Marked, Asleep, waiting[l])

\* No update of waiting has been lost, and every reader on a queue is counted.
QueueInv == ~raced => \A l \in Lists : Sleepers(l)

QueueMove(l, p) ==
    QueueMoves(queue[l], waiting[l], queue'[l], waiting'[l], p,
               SleepAt(l)[p], SleepAt(l)'[p], Marked, Asleep)

LEMMA InitQueue == Init => QueueInv
<1> SUFFICES ASSUME Init, NEW l \in Lists PROVE Sleepers(l) BY DEF QueueInv
<1>1. queue[l] = SemInit(0) /\ waiting[l] = 0 BY DEF Init
<1>2. \A p \in Procs : SleepAt(l)[p] \notin Marked \cup Asleep
  BY DEF Init, SleepAt, Marked, Asleep, MeetPlaces
<1> QED BY <1>1, <1>2, QueueInit, CodeTimerAssumption DEF Sleepers

\* Steps that leave the queues and the counters alone, and move nobody that is
\* asleep or about to be.
LEMMA SameQueue ==
    ASSUME QueueInv, UNCHANGED sleepq, \A l \in Lists : SleepAt(l)' = SleepAt(l)
    PROVE  QueueInv'
<1> SUFFICES ASSUME ~raced', NEW l \in Lists PROVE Sleepers(l)' BY DEF QueueInv
<1>1. Sleepers(l) BY DEF QueueInv, sleepq
<1>2. queue' = queue /\ waiting' = waiting /\ SleepAt(l)' = SleepAt(l) BY DEF sleepq
<1> QED BY <1>1, <1>2 DEF Sleepers, QueueAccount, InQueue, InOrder, NoTwice, Waiting

LEMMA ItemQueue == Types /\ QueueInv /\ Item => QueueInv'
<1> SUFFICES ASSUME Types, QueueInv, Item PROVE QueueInv' OBVIOUS
<1>1. \A l \in Lists : SleepAt(l)' = SleepAt(l)
  BY DEF Item, WorkTake, WorkAppend, WorkCopy, WorkWake, WorkUp, WorkDone, procs, SleepAt
<1>2. CASE UNCHANGED sleepq BY <1>1, <1>2, SameQueue
<1>3. CASE WorkUp
  <2> SUFFICES ASSUME ~raced', NEW l \in Lists PROVE Sleepers(l)' BY DEF QueueInv
  <2>1. /\ work.l \in Lists /\ waiting \in [Lists -> Int]
        /\ queue \in [Lists -> Semaphores(Procs)]
    BY DEF Types, WorkTypes, WorkOK, WorkItems, WaitTypes
  <2>2. ~raced /\ waiting[work.l] = work.reg BY <1>3 DEF WorkUp, StoreWaiting
  <2>3. waiting' = [waiting EXCEPT ![work.l] = work.reg + -1]
        /\ queue' = [queue EXCEPT ![work.l] = Up(@)]
    BY <1>3 DEF WorkUp, StoreWaiting
  <2>4. Sleepers(l) BY <2>2 DEF QueueInv
  <2>5. Marked \cap Asleep = {} BY DEF Marked, Asleep
  <2>6. CASE l = work.l
    <3>1. queue'[l] = Up(queue[l]) /\ waiting'[l] = waiting[l] - 1
      BY <2>1, <2>2, <2>3, <2>6
    <3>2. QueueAccount(Procs, queue'[l], SleepAt(l), Marked, Asleep, waiting'[l])
      BY <2>4, <2>5, <3>1, QueueUp DEF Sleepers
    <3> QED BY <1>1, <3>2 DEF Sleepers, QueueAccount, InQueue, InOrder, NoTwice, Waiting
  <2>7. CASE l # work.l
    <3>1. queue'[l] = queue[l] /\ waiting'[l] = waiting[l] BY <2>1, <2>3, <2>7
    <3> QED BY <1>1, <2>4, <3>1
      DEF Sleepers, QueueAccount, InQueue, InOrder, NoTwice, Waiting
  <2> QED BY <2>6, <2>7
<1> QED BY <1>2, <1>3
  DEF Item, WorkTake, WorkAppend, WorkCopy, WorkWake, WorkDone

\* A step of one process that moves it as QueueMoves allows.
LEMMA MovedQueue ==
    ASSUME QueueInv, NEW p \in Procs, raced => raced',
           ~raced' => \A l \in Lists :
              /\ QueueMove(l, p)
              /\ \A q \in Procs : q # p => SleepAt(l)'[q] = SleepAt(l)[q]
    PROVE  QueueInv'
<1> SUFFICES ASSUME ~raced', NEW l \in Lists PROVE Sleepers(l)' BY DEF QueueInv
<1>1. Sleepers(l) BY DEF QueueInv
<1>2. Marked \cap Asleep = {} BY DEF Marked, Asleep
<1>3. QueueAccount(Procs, queue'[l], SleepAt(l)', Marked, Asleep, waiting'[l])
  BY <1>1, <1>2, QueueStep DEF Sleepers, QueueMove
<1> QED BY <1>3 DEF Sleepers, QueueAccount, InQueue, InOrder, NoTwice, Waiting

LEMMA ReaderQueue ==
    ASSUME Types, QueueInv, NEW p \in Procs, Reader(p) PROVE QueueInv'
<1>1. /\ UNCHANGED file /\ pc[p] \in ReadPlaces /\ pc'[p] \in ReadPlaces /\ file[p] \in Lists
      /\ \A q \in Procs : q # p => pc'[q] = pc[q]
  BY ReaderProcs
<1>2. ASSUME NEW l \in Lists
      PROVE  /\ \A q \in Procs : q # p => SleepAt(l)'[q] = SleepAt(l)[q]
             /\ SleepAt(l)[p] = IF file[p] = l THEN pc[p] ELSE "idle"
             /\ SleepAt(l)'[p] = IF file[p] = l THEN pc'[p] ELSE "idle"
  BY <1>1 DEF SleepAt, ReadPlaces, MeetPlaces
<1>3. raced => raced'
  BY DEF Reader, ReadStep, CallRead, Count, Counted, Sleep, WakeUp, Copy, CleanLock, Clean,
         Uncount, Uncounted, Interrupt, sleepq, StoreWaiting
<1> SUFFICES ASSUME ~raced', NEW l \in Lists PROVE QueueMove(l, p)
  BY <1>2, <1>3, MovedQueue
<1>4. ~raced /\ Sleepers(l) BY <1>3 DEF QueueInv
<1>5. /\ queue \in [Lists -> Semaphores(Procs)] /\ waiting \in [Lists -> Int]
      /\ pc \in [Procs -> ReadPlaces \cup OpenPlaces]
  BY DEF Types, WaitTypes, ProcTypes
<1>6. CASE file[p] # l
  <2>1. SleepAt(l)[p] = "idle" /\ SleepAt(l)'[p] = "idle" BY <1>2, <1>6
  <2>2. queue'[l] = queue[l] /\ waiting'[l] = waiting[l]
    BY <1>1, <1>5, <1>6
    DEF Reader, ReadStep, CallRead, Count, Counted, Sleep, WakeUp, Copy, CleanLock, Clean,
        Uncount, Uncounted, Interrupt, InterruptTest, InterruptSleep, InterruptClean,
        sleepq, StoreWaiting
  <2>3. "idle" \notin Marked \cup Asleep BY DEF Marked, Asleep
  <2> QED BY <1>4, <2>1, <2>2, <2>3 DEF QueueMove, QueueMoves, Sleepers, QueueAccount
<1>7. CASE file[p] = l
  <2>1. /\ SleepAt(l)[p] = pc[p] /\ SleepAt(l)'[p] = pc'[p]
        /\ Waiting(queue[l], p) => pc[p] \in Asleep
    BY <1>2, <1>4, <1>7 DEF Sleepers, QueueAccount
  <2> SUFFICES QueueMoves(queue[l], waiting[l], queue'[l], waiting'[l], p, pc[p], pc'[p],
                          Marked, Asleep)
    BY <2>1 DEF QueueMove
  <2> USE <1>5, <1>7, <2>1 DEF QueueMoves, Marked, Asleep, Granted, Goto, LockList, sleepq
  <2>2. CASE CallRead(p) BY <2>2 DEF CallRead
  <2>3. CASE Count(p) BY <2>3 DEF Count
  <2>4. CASE Counted(p)
    <3>1. reg[p] = waiting[l] /\ waiting' = [waiting EXCEPT ![l] = reg[p] + 1]
      BY <1>4, <2>4 DEF Counted, StoreWaiting
    <3> QED BY <2>4, <3>1 DEF Counted
  <2>5. CASE Sleep(p) BY <2>5 DEF Sleep
  <2>6. CASE WakeUp(p) BY <2>6 DEF WakeUp
  <2>7. CASE Copy(p) BY <2>7 DEF Copy
  <2>8. CASE CleanLock(p) BY <2>8 DEF CleanLock
  <2>9. CASE Clean(p) BY <2>9 DEF Clean
  <2>10. CASE Uncount(p) BY <2>10 DEF Uncount
  <2>11. CASE Uncounted(p)
    <3>1. reg[p] = waiting[l] /\ waiting' = [waiting EXCEPT ![l] = reg[p] + -1]
      BY <1>4, <2>11 DEF Uncounted, StoreWaiting
    <3> QED BY <2>11, <3>1 DEF Uncounted
  <2>12. CASE Interrupt(p)
    BY <2>12 DEF Interrupt, InterruptTest, InterruptSleep, InterruptClean
  <2> QED
    BY <2>2, <2>3, <2>4, <2>5, <2>6, <2>7, <2>8, <2>9, <2>10, <2>11, <2>12
    DEF Reader, ReadStep
<1> QED BY <1>6, <1>7
-----------------------------------------------------------------------------
(* The mutex of list l, for readers and work item alike.                   *)

Actors   == Procs \cup {Worker}
LockWait == {"test", "undo", "cleaning", "append"}
LockHold == {"count", "uncount"}

LockAt(l) ==
    [a \in Actors |->
        IF a = Worker THEN IF work.state = "append" /\ work.l = l THEN "append" ELSE "idle"
        ELSE IF file[a] = l THEN pc[a] ELSE "idle"]

Locked(l) == Account(Actors, sem_list[l], LockAt(l), LockWait, LockHold, 1)

\* Until a signal breaks it, each mutex has one unit, free or owned.
MutexInv == ~unlocked => \A l \in Lists : Locked(l)

LockMove(l, a) ==
    Moves(sem_list[l], 1, sem_list'[l], 1, a, LockAt(l)[a], LockAt(l)'[a], LockWait, LockHold)

LEMMA InitMutex == Init => MutexInv
<1> SUFFICES ASSUME Init, NEW l \in Lists PROVE Locked(l) BY DEF MutexInv
<1>1. sem_list[l] = SemInit(1) BY DEF Init
<1>2. work.state = "idle" /\ \A p \in Procs : pc[p] = "idle" BY DEF Init, NoWork
<1>3. \A a \in Actors : LockAt(l)[a] \notin LockWait \cup LockHold
  BY <1>2 DEF LockAt, LockWait, LockHold, Actors
<1>4. IsFiniteSet(Actors) BY CodeTimerAssumption, FS_AddElement DEF Actors
<1> QED BY <1>1, <1>3, <1>4, AccountInit DEF Locked

LEMMA SameMutex ==
    ASSUME MutexInv, UNCHANGED sem_list, unlocked => unlocked',
           \A l \in Lists : LockAt(l)' = LockAt(l)
    PROVE  MutexInv'
<1> SUFFICES ASSUME ~unlocked', NEW l \in Lists PROVE Locked(l)' BY DEF MutexInv
<1>1. Locked(l) BY DEF MutexInv
<1>2. sem_list' = sem_list /\ LockAt(l)' = LockAt(l) OBVIOUS
<1> QED BY <1>1, <1>2 DEF Locked, Account, Units, Held, InOrder, NoTwice, Waiting, Actors

LEMMA MovedMutex ==
    ASSUME MutexInv, NEW a \in Actors, unlocked => unlocked',
           ~unlocked' => \A l \in Lists :
              /\ LockMove(l, a)
              /\ \A b \in Actors : b # a => LockAt(l)'[b] = LockAt(l)[b]
    PROVE  MutexInv'
<1> SUFFICES ASSUME ~unlocked', NEW l \in Lists PROVE Locked(l)' BY DEF MutexInv
<1>1. Locked(l) BY DEF MutexInv
<1>2. LockWait \cap LockHold = {} BY DEF LockWait, LockHold
<1>3. Account(Actors, sem_list'[l], LockAt(l)', LockWait, LockHold, 1)
  BY <1>1, <1>2, AccountStep DEF Locked, LockMove
<1> QED BY <1>3 DEF Locked, Account, Units, Held, InOrder, NoTwice, Waiting, Actors

LEMMA ItemMutex == Types /\ MutexInv /\ Item => MutexInv'
<1> SUFFICES ASSUME Types, MutexInv, Item PROVE MutexInv' OBVIOUS
<1>1. UNCHANGED procs
  BY DEF Item, WorkTake, WorkAppend, WorkCopy, WorkWake, WorkUp, WorkDone
<1>2. \A l \in Lists, b \in Actors : b # Worker => LockAt(l)'[b] = LockAt(l)[b]
  BY <1>1 DEF LockAt, Actors, procs
<1>3. unlocked' = unlocked BY <1>1 DEF procs
<1> SUFFICES ASSUME ~unlocked, NEW l \in Lists PROVE LockMove(l, Worker)
  BY <1>2, <1>3, MovedMutex DEF Actors
<1> DEFINE was == IF work.state = "append" /\ work.l = l THEN "append" ELSE "idle"
           is == IF work'.state = "append" /\ work'.l = l THEN "append" ELSE "idle"
<1>4. LockAt(l)[Worker] = was /\ LockAt(l)'[Worker] = is BY DEF LockAt, Actors
<1> SUFFICES Moves(sem_list[l], 1, sem_list'[l], 1, Worker, was, is, LockWait, LockHold)
  BY <1>4 DEF LockMove
<1>5. sem_list \in [Lists -> Semaphores(Procs \cup {Worker})] /\ work \in WorkItems
  BY DEF Types, LockTypes, WorkTypes, WorkOK
<1> USE DEF Moves, LockWait, LockHold
<1>6. ASSUME NEW m \in Lists, WorkCopy(m)
      PROVE  Moves(sem_list[l], 1, sem_list'[l], 1, Worker, was, is, LockWait, LockHold)
  <2>1. work.state = "copy" /\ work'.state = "append" /\ work'.l = m
    BY <1>5, <1>6 DEF WorkCopy, WorkItems
  <2>2. sem_list' = [sem_list EXCEPT ![m] = Down(@, Worker)] BY <1>6 DEF WorkCopy
  <2> QED BY <1>5, <2>1, <2>2
<1>7. CASE work'.state # "append"
  <2>1. CASE WorkAppend
    <3>1. work.state = "append" /\ ~Waiting(sem_list[work.l], Worker)
      BY <2>1 DEF WorkAppend
    <3>2. sem_list' = [sem_list EXCEPT ![work.l] = Up(@)] BY <2>1 DEF WorkAppend
    <3> QED BY <1>5, <1>7, <3>1, <3>2
  <2>2. CASE WorkTake \/ WorkWake \/ WorkUp \/ WorkDone
    <3>1. work.state # "append" /\ UNCHANGED sem_list
      BY <2>2 DEF WorkTake, WorkWake, WorkUp, WorkDone, lists
    <3> QED BY <1>7, <3>1
  <2> QED BY <1>6, <2>1, <2>2 DEF Item
<1> QED BY <1>6, <1>7, ItemWork

LEMMA ReaderMutex ==
    ASSUME Types, MutexInv, NEW p \in Procs, Reader(p) PROVE MutexInv'
<1>1. /\ UNCHANGED file /\ pc[p] \in ReadPlaces /\ pc'[p] \in ReadPlaces /\ file[p] \in Lists
      /\ \A q \in Procs : q # p => pc'[q] = pc[q]
  BY ReaderProcs
<1>2. UNCHANGED work /\ (unlocked => unlocked')
  BY DEF Reader, ReadStep, CallRead, Count, Counted, Sleep, WakeUp, Copy, CleanLock, Clean,
         Uncount, Uncounted, Interrupt, InterruptTest, InterruptSleep, InterruptClean
<1>3. p \in Actors /\ p # Worker BY CodeTimerAssumption DEF Actors
<1>4. ASSUME NEW l \in Lists
      PROVE  /\ \A b \in Actors : b # p => LockAt(l)'[b] = LockAt(l)[b]
             /\ LockAt(l)[p] = IF file[p] = l THEN pc[p] ELSE "idle"
             /\ LockAt(l)'[p] = IF file[p] = l THEN pc'[p] ELSE "idle"
  BY <1>1, <1>2, <1>3 DEF LockAt, Actors
<1> SUFFICES ASSUME ~unlocked', NEW l \in Lists PROVE LockMove(l, p)
  BY <1>2, <1>3, <1>4, MovedMutex
<1>5. Locked(l) BY <1>2 DEF MutexInv
<1>6. /\ sem_list \in [Lists -> Semaphores(Procs \cup {Worker})]
      /\ pc \in [Procs -> ReadPlaces \cup OpenPlaces]
  BY DEF Types, LockTypes, ProcTypes
<1>7. CASE file[p] # l
  <2>1. LockAt(l)[p] = "idle" /\ LockAt(l)'[p] = "idle" BY <1>4, <1>7
  <2>2. sem_list'[l] = sem_list[l]
    BY <1>1, <1>6, <1>7
    DEF Reader, ReadStep, CallRead, Count, Counted, Sleep, WakeUp, Copy, CleanLock, Clean,
        Uncount, Uncounted, Interrupt, InterruptTest, InterruptSleep, InterruptClean,
        lists, LockList, UnlockList
  <2>3. "idle" \notin LockHold \cup LockWait BY DEF LockHold, LockWait
  <2> QED BY <2>1, <2>2, <2>3 DEF LockMove, Moves
<1>8. CASE file[p] = l
  <2>1. LockAt(l)[p] = pc[p] /\ LockAt(l)'[p] = pc'[p] BY <1>4, <1>8
  <2> SUFFICES Moves(sem_list[l], 1, sem_list'[l], 1, p, pc[p], pc'[p], LockWait, LockHold)
    BY <2>1 DEF LockMove
  <2> USE <1>6, <1>8 DEF Moves, LockWait, LockHold, Granted, Goto, LockList, UnlockList, lists
  <2>2. CASE CallRead(p) BY <2>2 DEF CallRead
  <2>3. CASE Count(p) BY <2>3 DEF Count
  <2>4. CASE Counted(p) BY <2>4 DEF Counted
  <2>5. CASE Sleep(p) BY <2>5 DEF Sleep
  <2>6. CASE WakeUp(p) BY <2>6 DEF WakeUp
  <2>7. CASE Copy(p) BY <2>7 DEF Copy
  <2>8. CASE CleanLock(p) BY <2>8 DEF CleanLock
  <2>9. CASE Clean(p) BY <2>9 DEF Clean
  <2>10. CASE Uncount(p) BY <2>10 DEF Uncount
  <2>11. CASE Uncounted(p) BY <2>11 DEF Uncounted
  <2>12. CASE Interrupt(p)
    BY <2>12 DEF Interrupt, InterruptTest, InterruptSleep, InterruptClean
  <2> QED
    BY <2>2, <2>3, <2>4, <2>5, <2>6, <2>7, <2>8, <2>9, <2>10, <2>11, <2>12
    DEF Reader, ReadStep
<1> QED BY <1>7, <1>8
-----------------------------------------------------------------------------
(* CodeTimer: its file, and what its steps keep.                           *)

AllClosed == \A p \in Procs : file[p] = 0
AllOpen   == \A p \in Procs : file[p] = 1

\* The file is open for every process or for none, and only its users are in a call.
FileInv ==
    /\ \A p \in Procs : pc[p] \in ReadPlaces
    /\ AllClosed \/ AllOpen
    /\ jobFinished <=> work.state = "idle"

Inv == Types /\ FileInv /\ QueueInv /\ MutexInv /\ CopiedStayBriefly /\ ClosedIsQuiet

\* open(), the last close, and what they need.
FileStep == Open \/ CloseTimer \/ Close

LEMMA InitInv == Init => Inv
<1> SUFFICES ASSUME Init PROVE Inv OBVIOUS
<1>1. /\ file = [p \in Procs |-> 0] /\ pc = [p \in Procs |-> "idle"]
      /\ copied = [l \in Lists |-> 0] /\ mylist = [l \in Lists |-> << >>]
      /\ timer = "off" /\ work.state = "idle" /\ cbuffer = << >>
  BY DEF Init, NoWork
<1>2. jobFinished BY DEF Init
<1>3. FileInv BY <1>1, <1>2 DEF FileInv, AllClosed, ReadPlaces
<1>4. CopiedStayBriefly BY <1>1 DEF CopiedStayBriefly
<1>5. ClosedIsQuiet BY <1>1, <1>2 DEF ClosedIsQuiet
<1> QED BY <1>3, <1>4, <1>5, InitTypes, InitQueue, InitMutex DEF Inv

LEMMA TimerInv == Inv /\ Timer => Inv'
<1> SUFFICES ASSUME Inv, Timer PROVE Inv' OBVIOUS
<1>1. UNCHANGED <<lists, sleepq, procs>> /\ work' \in {work, [work EXCEPT !.state = "queued"]}
  BY DEF Timer, FirePut, FireTest, FireQueue, ConfigThreshold, ConfigFormat
<1>2. Types' BY TimerTypes DEF Inv
<1>3. FileInv'
  <2>1. \/ UNCHANGED <<jobFinished, work>>
        \/ ~jobFinished' /\ work' = [work EXCEPT !.state = "queued"]
    BY DEF Timer, FirePut, FireTest, FireQueue, ConfigThreshold, ConfigFormat, clock
  <2>2. work \in WorkItems BY DEF Inv, Types, WorkTypes, WorkOK
  <2>3. jobFinished' <=> work'.state = "idle"
    BY <2>1, <2>2 DEF Inv, FileInv, WorkItems
  <2> QED BY <1>1, <2>3 DEF Inv, FileInv, AllClosed, AllOpen, procs
<1>4. QueueInv'
  <2>1. \A l \in Lists : SleepAt(l)' = SleepAt(l) BY <1>1 DEF SleepAt, procs
  <2> QED BY <1>1, <2>1, SameQueue DEF Inv
<1>5. MutexInv'
  <2>1. \/ work' = work
        \/ work.state # "append" /\ work'.state # "append"
    <3>1. work \in WorkItems BY DEF Inv, Types, WorkTypes, WorkOK
    <3>2. CASE FireQueue BY <3>1, <3>2 DEF FireQueue, Inv, FileInv, WorkItems
    <3>3. CASE ~FireQueue
      BY <3>3 DEF Timer, FirePut, FireTest, ConfigThreshold, ConfigFormat
    <3> QED BY <3>2, <3>3
  <2>2. \A l \in Lists : LockAt(l)' = LockAt(l) BY <1>1, <2>1 DEF LockAt, procs
  <2> QED BY <1>1, <2>2, SameMutex DEF Inv, lists, procs
<1>6. CopiedStayBriefly' BY <1>1 DEF Inv, CopiedStayBriefly, lists, procs
<1>7. ClosedIsQuiet'
  <2> SUFFICES ASSUME AllClosed PROVE ClosedIsQuiet'
    BY <1>1 DEF AllClosed, ClosedIsQuiet, procs
  <2>1. timer = "off" BY DEF Inv, ClosedIsQuiet, AllClosed
  <2>2. UNCHANGED <<cbuffer, timer, jobFinished, work>>
    BY <2>1 DEF Timer, FirePut, FireTest, FireQueue, ConfigThreshold, ConfigFormat, clock
  <2> QED BY <1>1, <2>2 DEF Inv, ClosedIsQuiet, AllClosed, lists
<1> QED BY <1>2, <1>3, <1>4, <1>5, <1>6, <1>7 DEF Inv

LEMMA ItemInv == Inv /\ Item => Inv'
<1> SUFFICES ASSUME Inv, Item PROVE Inv' OBVIOUS
<1>1. UNCHANGED procs
  BY DEF Item, WorkTake, WorkAppend, WorkCopy, WorkWake, WorkUp, WorkDone
<1>2. Types' /\ QueueInv' /\ MutexInv' BY ItemTypes, ItemQueue, ItemMutex DEF Inv
<1>3. work.state # "idle"
  BY DEF Item, WorkTake, WorkAppend, WorkCopy, WorkWake, WorkUp, WorkDone
<1>4. FileInv'
  <2>1. CASE WorkDone BY <1>1, <2>1 DEF WorkDone, Inv, FileInv, AllClosed, AllOpen, procs, NoWork
  <2>2. CASE ~WorkDone
    <3>1. work'.state # "idle" BY <2>2, ItemWork DEF Inv
    <3>2. UNCHANGED jobFinished
      BY <2>2 DEF Item, WorkTake, WorkAppend, WorkCopy, WorkWake, WorkUp, clock
    <3> QED BY <1>1, <1>3, <3>1, <3>2 DEF Inv, FileInv, AllClosed, AllOpen, procs
  <2> QED BY <2>1, <2>2
<1>5. CopiedStayBriefly'
  <2>1. \A l \in Lists : copied'[l] > 0 => copied[l] > 0
    <3>1. CASE UNCHANGED copied BY <3>1
    <3>2. CASE WorkAppend
      BY <3>2 DEF WorkAppend, Inv, Types, ListTypes
    <3> QED BY <3>1, <3>2 DEF Item, WorkTake, WorkCopy, WorkWake, WorkUp, WorkDone, lists
  <2> QED BY <1>1, <2>1 DEF Inv, CopiedStayBriefly, procs
<1>6. ~AllClosed' BY <1>1, <1>3 DEF Inv, ClosedIsQuiet, AllClosed, procs
<1>7. ClosedIsQuiet' BY <1>6 DEF ClosedIsQuiet, AllClosed
<1> QED BY <1>2, <1>4, <1>5, <1>7 DEF Inv

LEMMA ReaderInv ==
    ASSUME Inv, NEW p \in Procs, Reader(p) PROVE Inv'
<1>1. /\ UNCHANGED file /\ pc[p] \in ReadPlaces /\ pc'[p] \in ReadPlaces /\ file[p] \in Lists
      /\ \A q \in Procs : q # p => pc'[q] = pc[q]
  BY ReaderProcs DEF Inv
<1>2. UNCHANGED <<clock, work>>
  BY DEF Reader, ReadStep, CallRead, Count, Counted, Sleep, WakeUp, Copy, CleanLock, Clean,
         Uncount, Uncounted, Interrupt
<1>3. Types' /\ QueueInv' /\ MutexInv' BY ReaderTypes, ReaderQueue, ReaderMutex DEF Inv
<1>4. FileInv' BY <1>1, <1>2 DEF Inv, FileInv, AllClosed, AllOpen, clock
<1>5. CopiedStayBriefly'
  <2> SUFFICES ASSUME NEW l \in Lists, copied'[l] > 0
               PROVE  \E q \in Procs : file[q] = l /\ pc'[q] \in {"clean", "cleaning"}
    BY <1>1 DEF CopiedStayBriefly
  <2> USE DEF Granted, Goto, LockList, lists
  <2>1. pc \in [Procs -> ReadPlaces \cup OpenPlaces] /\ copied \in [Lists -> Nat]
    BY DEF Inv, Types, ProcTypes, ListTypes
  <2>2. CASE Copy(p) /\ l = file[p] BY <2>1, <2>2 DEF Copy
  <2>3. CASE Clean(p) /\ l = file[p]
    <3>1. copied'[l] = 0 BY <2>1, <2>3, EmptySeq DEF Clean, Cleaned
    <3> QED BY <3>1
  <2>4. CASE ~((Copy(p) \/ Clean(p)) /\ l = file[p])
    <3>1. copied'[l] = copied[l]
      BY <1>1, <2>1, <2>4
      DEF Reader, ReadStep, CallRead, Count, Counted, Sleep, WakeUp, Copy, CleanLock, Clean,
          Uncount, Uncounted, Interrupt, InterruptTest, InterruptSleep, InterruptClean
    <3>2. PICK q \in Procs : file[q] = l /\ pc[q] \in {"clean", "cleaning"}
      BY <3>1 DEF Inv, CopiedStayBriefly
    <3>3. q = p => pc'[p] \in {"clean", "cleaning"}
      BY <2>1, <2>4, <3>2
      DEF Reader, ReadStep, CallRead, Count, Counted, Sleep, WakeUp, Copy, CleanLock, Clean,
          Uncount, Uncounted, Interrupt, InterruptTest, InterruptSleep, InterruptClean
    <3> QED BY <1>1, <3>2, <3>3
  <2> QED BY <2>2, <2>3, <2>4
<1>6. ~AllClosed' BY <1>1, CodeTimerAssumption DEF AllClosed, Lists
<1>7. ClosedIsQuiet' BY <1>6 DEF ClosedIsQuiet, AllClosed
<1> QED BY <1>3, <1>4, <1>5, <1>7 DEF Inv

LEMMA FileStepInv == Inv /\ FileStep => Inv'
<1> SUFFICES ASSUME Inv, FileStep PROVE Inv' OBVIOUS
<1>1. \A p \in Procs : pc[p] = "idle"
  <2>1. CASE Open
    BY <2>1, CodeTimerAssumption
    DEF Open, Inv, FileInv, Types, ProcTypes, ReadPlaces, Lists
  <2>2. CASE CloseTimer \/ Close BY <2>2 DEF CloseTimer, Close
  <2> QED BY <2>1, <2>2 DEF FileStep
<1>2. /\ UNCHANGED <<sem_list, sleepq, config, pc, reg, signals, unlocked, jobFinished, made, work>>
      /\ timer' \in {"off", "armed"}
  BY DEF FileStep, Open, CloseTimer, Close, procs, clock, lists, Inv
<1>3. Types'
  <2>1. ListTypes'
    <3>1. << >> \in Seq(CodeSet) /\ Len(<< >>) = 0 BY EmptySeq
    <3>2. \/ UNCHANGED <<mylist, copied>>
          \/ mylist' = [l \in Lists |-> << >>] /\ copied' = [l \in Lists |-> 0]
      BY DEF FileStep, Open, CloseTimer, Close, lists
    <3>3. MaxListed \in Nat BY CodeTimerAssumption
    <3>4. CASE UNCHANGED <<mylist, copied>> BY <3>4 DEF Inv, Types, ListTypes
    <3>5. CASE mylist' = [l \in Lists |-> << >>] /\ copied' = [l \in Lists |-> 0]
      <4>1. mylist' \in [Lists -> Seq(CodeSet)] BY <3>1, <3>5
      <4>2. copied' \in [Lists -> Nat] BY <3>5
      <4>3. \A l \in Lists : Len(mylist'[l]) = 0 /\ copied'[l] = 0 BY <3>1, <3>5
      <4> QED BY <3>3, <4>1, <4>2, <4>3 DEF ListTypes
    <3> QED BY <3>2, <3>4, <3>5
  <2>2. WaitTypes' /\ LockTypes' /\ WorkTypes'
    BY <1>2 DEF Inv, Types, WaitTypes, LockTypes, WorkTypes, sleepq
  <2>3. ProcTypes'
    <3>1. 0 \in 0 .. NLists /\ 1 \in 0 .. NLists BY CodeTimerAssumption
    <3>2. file' \in [Procs -> 0 .. NLists]
      BY <3>1 DEF FileStep, Open, CloseTimer, Close, Inv, Types, ProcTypes, procs
    <3> QED BY <1>1, <1>2, <3>2 DEF Inv, Types, ProcTypes
  <2>4. BufferTypes'
    <3>1. Len(<< >>) = 0 /\ Whole(<< >>, 0) BY EmptySeq, WholeEmpty
    <3>2. cbuffer' \in {cbuffer, << >>} BY DEF FileStep, Open, CloseTimer, Close
    <3> QED BY <1>2, <3>1, <3>2, CodeTimerAssumption DEF Inv, Types, BufferTypes, config
  <2> QED BY <2>1, <2>2, <2>3, <2>4 DEF Types
<1>4. FileInv'
  <2>1. AllClosed' \/ AllOpen'
    BY DEF FileStep, Open, CloseTimer, Close, AllClosed, AllOpen, Inv, FileInv, procs
  <2> QED BY <1>1, <1>2, <2>1 DEF FileInv, Inv
<1>5. QueueInv'
  <2>1. \A l \in Lists : SleepAt(l)' = SleepAt(l) BY <1>1, <1>2 DEF SleepAt, MeetPlaces
  <2> QED BY <1>2, <2>1, SameQueue DEF Inv
<1>6. MutexInv'
  <2>1. \A l \in Lists : LockAt(l)' = LockAt(l)
    BY <1>1, <1>2, CodeTimerAssumption DEF LockAt, Actors
  <2> QED BY <1>2, <2>1, SameMutex DEF Inv
<1>7. CopiedStayBriefly'
  <2>1. \A l \in Lists : ~(copied[l] > 0) BY <1>1 DEF Inv, CopiedStayBriefly
  <2>2. \A l \in Lists : copied'[l] = copied[l] \/ copied'[l] = 0
    BY DEF FileStep, Open, CloseTimer, Close, lists
  <2> QED BY <2>1, <2>2 DEF CopiedStayBriefly
<1>8. ClosedIsQuiet'
  <2>1. CASE Open \/ CloseTimer
    <3>1. ~AllClosed'
      BY <2>1, CodeTimerAssumption DEF Open, CloseTimer, AllClosed, procs
    <3> QED BY <3>1 DEF ClosedIsQuiet, AllClosed
  <2>2. CASE Close
    BY <1>2, <2>2 DEF Close, Flushed, ClosedIsQuiet, Inv, FileInv, clock
  <2> QED BY <2>1, <2>2 DEF FileStep
<1> QED BY <1>3, <1>4, <1>5, <1>6, <1>7, <1>8 DEF Inv

LEMMA StutterInv == Inv /\ UNCHANGED vars => Inv'
<1> SUFFICES ASSUME Inv, UNCHANGED vars PROVE Inv' OBVIOUS
<1> USE DEF vars, lists, sleepq, config, procs, clock
<1>1. Types'
  BY DEF Inv, Types, ListTypes, WaitTypes, LockTypes, ProcTypes, BufferTypes, WorkTypes
<1>2. FileInv' BY DEF Inv, FileInv, AllClosed, AllOpen
<1>3. QueueInv'
  <2>1. \A l \in Lists : SleepAt(l)' = SleepAt(l) BY DEF SleepAt
  <2> QED BY <2>1, SameQueue DEF Inv
<1>4. MutexInv'
  <2>1. \A l \in Lists : LockAt(l)' = LockAt(l) BY DEF LockAt
  <2> QED BY <2>1, SameMutex DEF Inv
<1>5. CopiedStayBriefly' /\ ClosedIsQuiet' BY DEF Inv, CopiedStayBriefly, ClosedIsQuiet
<1> QED BY <1>1, <1>2, <1>3, <1>4, <1>5 DEF Inv

LEMMA NextInv == Inv /\ [Next]_vars => Inv'
<1> SUFFICES ASSUME Inv, [Next]_vars PROVE Inv' OBVIOUS
<1>1. CASE UNCHANGED vars BY <1>1, StutterInv
<1>2. CASE Next
  <2>1. code_length \in Lens /\ 1 \in Lists
    BY CodeTimerAssumption DEF Inv, Types, BufferTypes, Lists
  <2>2. Timer \/ Item \/ FileStep \/ \E p \in Procs : Reader(p)
    BY <1>2, <2>1
    DEF Next, Fire, Work, WorkStep, Users, Files, Run, Timer, Item, FileStep, Reader
  <2> QED BY <2>2, TimerInv, ItemInv, FileStepInv, ReaderInv
<1> QED BY <1>1, <1>2

LEMMA Invariance == Spec => []Inv
<1>1. Init => Inv BY InitInv
<1>2. Inv /\ [Next]_vars => Inv' BY NextInv
<1> QED BY <1>1, <1>2, PTL DEF Spec

\* Timer, work item and readers never join two codes, and count every reader that
\* waits, whatever the lengths, the capacity and the thresholds are.
THEOREM AlwaysConsistent == Spec => []Consistent
<1>1. Inv => Consistent
  <2> SUFFICES ASSUME Inv PROVE Consistent OBVIOUS
  <2>1. TypeOK
    <3>1. \A l \in Lists : Codes(mylist[l])
      <4> SUFFICES ASSUME NEW l \in Lists, NEW i \in DOMAIN mylist[l]
                   PROVE  /\ mylist[l][i] # << >>
                          /\ \A j \in DOMAIN mylist[l][i] : mylist[l][i][j] \in Chars \ {0}
        BY DEF Codes
      <4>1. mylist[l][i] \in CodeSet
        BY ElementOfSeq, LenProperties DEF Inv, Types, ListTypes
      <4> QED BY <4>1, ElementOfSeq, LenProperties DEF CodeSet
    <3>2. \A l \in Lists : /\ Len(mylist[l]) <= MaxListed /\ copied[l] \in 0 .. Len(mylist[l])
                           /\ sem_list[l] \in Semaphores(Procs \cup {Worker})
                           /\ queue[l] \in Semaphores(Procs)
      <4> SUFFICES ASSUME NEW l \in Lists
                   PROVE  /\ Len(mylist[l]) <= MaxListed /\ copied[l] \in 0 .. Len(mylist[l])
                          /\ sem_list[l] \in Semaphores(Procs \cup {Worker})
                          /\ queue[l] \in Semaphores(Procs)
        OBVIOUS
      <4>1. /\ mylist[l] \in Seq(CodeSet) /\ copied[l] \in Nat
            /\ Len(mylist[l]) <= MaxListed /\ copied[l] <= Len(mylist[l])
        BY DEF Inv, Types, ListTypes
      <4>2. Len(mylist[l]) \in Nat BY <4>1, LenProperties
      <4>3. copied[l] \in 0 .. Len(mylist[l]) BY <4>1, <4>2
      <4> QED BY <4>1, <4>3 DEF Inv, Types, LockTypes, WaitTypes
    <3>3. /\ waiting \in [Lists -> Int] /\ reg \in [Procs -> Int]
          /\ {jobFinished, raced, unlocked} \subseteq BOOLEAN
          /\ file \in [Procs -> 0 .. NLists] /\ signals \in 0 .. MaxSignals
      BY DEF Inv, Types, WaitTypes, ProcTypes, WorkTypes
    <3>4. pc \in [Procs -> ReadPlaces]
      BY DEF Inv, FileInv, Types, ProcTypes
    <3>5. /\ cbuffer \in Seq(Chars) /\ Len(cbuffer) <= Capacity /\ made \in Chars
          /\ timer \in {"off", "armed", "test", "queue"}
          /\ threshold \in Thresholds /\ code_length \in Lens
      BY DEF Inv, Types, BufferTypes, Whole
    <3>6. work \in WorkItems BY DEF Inv, Types, WorkTypes, WorkOK
    <3> QED BY <3>1, <3>2, <3>3, <3>4, <3>5, <3>6 DEF TypeOK, WorkItems, ReadPlaces
  <2>2. WholeCodes BY DEF Inv, Types, BufferTypes, WorkTypes, WorkOK, Whole, WholeCodes
  <2>3. WaitAccounting
    <3> SUFFICES ASSUME NEW l \in Lists, ~raced
                 PROVE  waiting[l] + queue[l].count = Cardinality(Registered(l))
      BY DEF WaitAccounting
    <3>1. InQueue(Procs, queue[l], SleepAt(l), Marked, Asleep) = Registered(l)
      BY DEF InQueue, SleepAt, Marked, Asleep, MeetPlaces, Registered, Inv, FileInv, ReadPlaces
    <3> QED BY <3>1 DEF Inv, QueueInv, Sleepers, QueueAccount
  <2> QED BY <2>1, <2>2, <2>3 DEF Consistent
<1> QED BY <1>1, Invariance, PTL

\* The critical sections of the readers and of the work item exclude each other
\* until a signal hits the one wait for the mutex whose result is ignored.
THEOREM AlwaysExclusive == Spec => []MutualExclusion
<1>1. Inv => MutualExclusion
  <2> SUFFICES ASSUME Inv, NEW l \in Lists, ~unlocked PROVE ~(Cardinality(Owners(l)) > 1)
    BY DEF MutualExclusion
  <2> DEFINE H == Held(Actors, sem_list[l], LockAt(l), LockWait, LockHold)
  <2>1. Account(Actors, sem_list[l], LockAt(l), LockWait, LockHold, 1)
    BY DEF Inv, MutexInv, Locked
  <2>2. Owners(l) = H
    BY CodeTimerAssumption
    DEF Owners, Held, LockAt, LockWait, LockHold, Actors, Inv, FileInv, ReadPlaces
  <2>3. \A a, b \in H : a = b BY <2>1, AccountOne
  <2> HIDE DEF H
  <2>4. H = {} \/ \E a : H = {a} BY <2>3
  <2>5. Cardinality(H) \in {0, 1} BY <2>4, FS_EmptySet, FS_Singleton
  <2> QED BY <2>2, <2>5
<1> QED BY <1>1, Invariance, PTL

\* Codes copied to a reader stay in the list only until that reader has emptied it.
THEOREM CopiedAreCleaned == Spec => []CopiedStayBriefly
BY Invariance, PTL DEF Inv

\* The last close leaves no timer, no work item and no code behind.
THEOREM CloseLeavesNothing == Spec => []ClosedIsQuiet
BY Invariance, PTL DEF Inv
-----------------------------------------------------------------------------
(* Sequences of characters put one after another, and FlattenSeq.           *)

\* The recursion of FlattenSeq, up to n.
FlatStep(f, ss, i) == IF i = 1 THEN ss[i] ELSE f[i - 1] \o ss[i]
IsFlat(f, ss, n) == f = [i \in 1 .. n |-> FlatStep(f, ss, i)]
LEMMA FlatExists ==
    ASSUME NEW ss, NEW k \in Nat
    PROVE  \E f : IsFlat(f, ss, k)
<1> DEFINE bad == {n \in Nat : ~ \E f : IsFlat(f, ss, n)}
<1>1. SUFFICES ASSUME bad # {} PROVE FALSE OBVIOUS
<1>2. bad \subseteq Nat OBVIOUS
<1>3. \A n \in Nat : n \in bad <=> ~ \E f : IsFlat(f, ss, n) OBVIOUS
<1> HIDE DEF bad
<1>4. PICK n \in bad : \A m \in bad : n <= m BY <1>1, <1>2, Smallest
<1>5. n \in Nat BY <1>2
<1>6. CASE n = 0
  <2> DEFINE f == [i \in 1 .. 0 |-> << >>]
  <2>1. f = [i \in 1 .. 0 |-> FlatStep(f, ss, i)] OBVIOUS
  <2> QED BY <1>3, <1>5, <1>6, <2>1 DEF IsFlat
<1>7. CASE n # 0
  <2>1. n - 1 \in Nat /\ ~(n <= n - 1) BY <1>5, <1>7
  <2>2. PICK f : IsFlat(f, ss, n - 1) BY <1>3, <1>4, <2>1
  <2> DEFINE g == [i \in 1 .. n |-> FlatStep(f, ss, i)]
  <2>3. \A i \in 1 .. n - 1 : f[i] = g[i] BY <1>5, <2>1, <2>2 DEF IsFlat
  <2>4. ASSUME NEW i \in 1 .. n PROVE FlatStep(f, ss, i) = FlatStep(g, ss, i)
    <3>1. i = 1 \/ i - 1 \in 1 .. n - 1 BY <1>5
    <3> HIDE DEF g
    <3> QED BY <2>3, <3>1 DEF FlatStep
  <2>5. g = [i \in 1 .. n |-> FlatStep(g, ss, i)] BY <2>4
  <2> QED BY <1>3, <1>5, <2>5 DEF IsFlat
<1> QED BY <1>6, <1>7

\* Concatenation of characters is associative.
LEMMA Reassociate ==
    \A s, t, u \in Seq(Chars) : (s \o t) \o u = s \o (t \o u)
<1> SUFFICES ASSUME NEW s \in Seq(Chars), NEW t \in Seq(Chars), NEW u \in Seq(Chars)
             PROVE  (s \o t) \o u = s \o (t \o u)
  OBVIOUS
<1> QED BY ConcatAssociative

\* FlattenSeq is what its recursion says.
LEMMA FlatIs ==
    ASSUME NEW S, NEW ss \in Seq(Seq(S)), ss # << >>
    PROVE  \E f : /\ FlattenSeq(ss) = f[Len(ss)]
                  /\ \A i \in 1 .. Len(ss) : f[i] = FlatStep(f, ss, i) /\ f[i] \in Seq(S)
<1> DEFINE n == Len(ss)
           f == CHOOSE f : IsFlat(f, ss, n)
<1>1. n \in Nat \ {0} BY EmptySeq
<1>2. IsFlat(f, ss, n) BY <1>1, FlatExists
<1>3. FlattenSeq(ss) = f[n] BY <1>1 DEF FlattenSeq, IsFlat, FlatStep
<1> HIDE DEF f
<1>4. \A i \in 1 .. n : f[i] = FlatStep(f, ss, i) BY <1>2 DEF IsFlat
<1>5. \A i \in 1 .. n : ss[i] \in Seq(S) BY ElementOfSeq
<1> DEFINE bad == {i \in 1 .. n : f[i] \notin Seq(S)}
<1> HIDE DEF n
<1>6. bad \subseteq Nat /\ \A i : i \in bad <=> i \in 1 .. n /\ f[i] \notin Seq(S)
  BY <1>1
<1> HIDE DEF bad
<1>7. ASSUME bad # {} PROVE FALSE
  <2>1. PICK i \in bad : \A j \in bad : i <= j BY <1>6, <1>7, Smallest
  <2>2. i \in 1 .. n /\ f[i] \notin Seq(S) BY <1>6
  <2>3. i # 1 BY <1>4, <1>5, <2>2 DEF FlatStep
  <2>4. i - 1 \in 1 .. n /\ ~(i <= i - 1) BY <1>1, <2>2, <2>3
  <2>5. f[i - 1] \in Seq(S) BY <1>6, <2>1, <2>4
  <2>6. f[i - 1] \o ss[i] \in Seq(S) BY <1>5, <2>2, <2>5, ConcatProperties
  <2> QED BY <1>4, <2>2, <2>3, <2>6 DEF FlatStep
<1>8. \A i \in 1 .. n : f[i] \in Seq(S) BY <1>6, <1>7
<1> QED BY <1>3, <1>4, <1>8 DEF n

LEMMA FlatType ==
    ASSUME NEW S, NEW ss \in Seq(Seq(S))
    PROVE  FlattenSeq(ss) \in Seq(S)
<1>1. CASE ss = << >>
  <2>1. Len(ss) = 0 BY <1>1, EmptySeq
  <2> QED BY <1>1, <2>1, EmptySeq DEF FlattenSeq
<1>2. CASE ss # << >>
  <2>1. Len(ss) \in 1 .. Len(ss) BY <1>2, EmptySeq
  <2> QED BY <1>2, <2>1, FlatIs
<1> QED BY <1>1, <1>2

\* One more at the end.
LEMMA FlatAppend ==
    ASSUME NEW S, NEW ss \in Seq(Seq(S)), NEW x \in Seq(S)
    PROVE  FlattenSeq(Append(ss, x)) = FlattenSeq(ss) \o x
<1>1. PICK tt : tt = Append(ss, x) OBVIOUS
<1>2. PICK n : n = Len(ss) OBVIOUS
<1>3. /\ n \in Nat /\ tt \in Seq(Seq(S)) /\ tt # << >> /\ Len(tt) = n + 1
      /\ tt[n + 1] = x /\ \A i \in 1 .. n : tt[i] = ss[i]
  <2>1. n \in Nat BY <1>2, LenProperties
  <2>2. /\ tt \in Seq(Seq(S)) /\ tt # << >> /\ Len(tt) = n + 1
        /\ \A i \in 1 .. Len(ss) : tt[i] = ss[i]
        /\ tt[Len(ss) + 1] = x
    BY <1>1, <1>2, AppendProperties
  <2> QED BY <1>2, <2>1, <2>2
<1>4. PICK g : /\ FlattenSeq(tt) = g[n + 1]
               /\ \A i \in 1 .. n + 1 : g[i] = FlatStep(g, tt, i) /\ g[i] \in Seq(S)
  BY <1>3, FlatIs
<1>5. CASE n = 0
  <2>1. g[1] = x
    <3>1. 1 \in 1 .. n + 1 BY <1>5
    <3> QED BY <1>3, <1>4, <1>5, <3>1 DEF FlatStep
  <2>2. ss = << >> BY <1>2, <1>5, EmptySeq
  <2>3. FlattenSeq(ss) = << >> BY <1>2, <1>5, <2>2 DEF FlattenSeq
  <2> QED BY <1>1, <1>4, <1>5, <2>1, <2>3, ConcatEmptySeq
<1>6. CASE n # 0
  <2>1. ss # << >> BY <1>2, <1>6, EmptySeq
  <2>2. PICK f : /\ FlattenSeq(ss) = f[n]
                 /\ \A i \in 1 .. n : f[i] = FlatStep(f, ss, i) /\ f[i] \in Seq(S)
    BY <1>2, <2>1, FlatIs
  <2> DEFINE bad == {i \in 1 .. n : f[i] # g[i]}
  <2>3. bad \subseteq Nat /\ \A i : i \in bad <=> i \in 1 .. n /\ f[i] # g[i] BY <1>3
  <2> HIDE DEF bad
  <2>4. ASSUME bad # {} PROVE FALSE
    <3>1. PICK i \in bad : \A j \in bad : i <= j BY <2>3, <2>4, Smallest
    <3>2. i \in 1 .. n /\ f[i] # g[i] BY <2>3
    <3>3. i \in 1 .. n + 1 /\ tt[i] = ss[i] BY <1>3, <3>2
    <3>4. f[i] = FlatStep(f, ss, i) /\ g[i] = FlatStep(g, tt, i) BY <1>4, <2>2, <3>2, <3>3
    <3>5. i # 1 BY <3>2, <3>3, <3>4 DEF FlatStep
    <3>6. i - 1 \in 1 .. n /\ ~(i <= i - 1) BY <1>3, <3>2, <3>5
    <3>7. f[i - 1] = g[i - 1] BY <2>3, <3>1, <3>6
    <3> QED BY <3>2, <3>3, <3>4, <3>5, <3>7 DEF FlatStep
  <2>5. n \in 1 .. n /\ n + 1 \in 1 .. n + 1 /\ n + 1 # 1 /\ (n + 1) - 1 = n BY <1>3, <1>6
  <2>6. g[n] = f[n] BY <2>3, <2>4, <2>5
  <2>7. g[n + 1] = g[n] \o x BY <1>3, <1>4, <2>5 DEF FlatStep
  <2> QED BY <1>1, <1>4, <2>2, <2>6, <2>7
<1> QED BY <1>5, <1>6

\* The first one apart, of sequences of characters.
LEMMA FlatFirst ==
    ASSUME NEW ss \in Seq(Seq(Chars)), ss # << >>
    PROVE  FlattenSeq(ss) = ss[1] \o FlattenSeq(SubSeq(ss, 2, Len(ss)))
<1>1. PICK tt : tt = SubSeq(ss, 2, Len(ss)) OBVIOUS
<1>2. PICK n : n = Len(ss) OBVIOUS
<1>3. /\ n \in Nat \ {0} /\ tt \in Seq(Seq(Chars)) /\ Len(tt) = n - 1
      /\ \A i \in 1 .. n - 1 : tt[i] = ss[i + 1]
  <2>1. Tail(ss) = tt BY <1>1, TailIsSubSeq
  <2>2. /\ tt \in Seq(Seq(Chars)) /\ Len(tt) = Len(ss) - 1
        /\ \A i \in 1 .. Len(tt) : tt[i] = ss[i + 1]
    BY <2>1, HeadTailProperties
  <2> QED BY <1>2, <2>2, EmptySeq
<1>4. PICK f : /\ FlattenSeq(ss) = f[n]
               /\ \A i \in 1 .. n : f[i] = FlatStep(f, ss, i) /\ f[i] \in Seq(Chars)
  BY <1>2, FlatIs
<1>5. f[1] = ss[1] /\ ss[1] \in Seq(Chars)
  <2>1. 1 \in 1 .. n BY <1>3
  <2> QED BY <1>2, <1>4, <2>1, ElementOfSeq DEF FlatStep
<1>6. CASE n = 1
  <2>1. tt = << >> BY <1>3, <1>6, EmptySeq
  <2>2. FlattenSeq(tt) = << >> BY <1>3, <1>6, <2>1 DEF FlattenSeq
  <2> QED BY <1>1, <1>4, <1>5, <1>6, <2>2, ConcatEmptySeq
<1>7. CASE n # 1
  <2>1. n - 1 \in Nat \ {0} BY <1>3, <1>7
  <2>2. tt # << >> BY <1>3, <2>1, EmptySeq
  <2>3. PICK g : /\ FlattenSeq(tt) = g[n - 1]
                 /\ \A i \in 1 .. n - 1 : g[i] = FlatStep(g, tt, i) /\ g[i] \in Seq(Chars)
    <3>1. Len(tt) = n - 1 /\ tt \in Seq(Seq(Chars)) BY <1>3
    <3>2. \E g : /\ FlattenSeq(tt) = g[Len(tt)]
                /\ \A i \in 1 .. Len(tt) : g[i] = FlatStep(g, tt, i) /\ g[i] \in Seq(Chars)
      BY <2>2, <3>1, FlatIs
    <3> QED BY <3>1, <3>2
  <2> DEFINE bad == {i \in 1 .. n - 1 : f[i + 1] # ss[1] \o g[i]}
  <2>4. bad \subseteq Nat /\ \A i : i \in bad <=> i \in 1 .. n - 1 /\ f[i + 1] # ss[1] \o g[i]
    <3>1. \A i \in 1 .. n - 1 : i \in Nat BY <2>1
    <3> QED BY <3>1
  <2> HIDE DEF bad
  <2>5. ASSUME bad # {} PROVE FALSE
    <3>1. PICK i \in bad : \A j \in bad : i <= j BY <2>4, <2>5, Smallest
    <3>2. i \in 1 .. n - 1 /\ f[i + 1] # ss[1] \o g[i] BY <2>4
    <3>3. i + 1 \in 1 .. n /\ i + 1 # 1 /\ (i + 1) - 1 = i /\ tt[i] = ss[i + 1]
      BY <1>3, <3>2
    <3>4. f[i + 1] = f[i] \o tt[i] BY <1>4, <3>3 DEF FlatStep
    <3>5. g[i] = FlatStep(g, tt, i) BY <2>3, <3>2
    <3>6. i # 1 BY <1>5, <3>2, <3>4, <3>5 DEF FlatStep
    <3>7. i - 1 \in 1 .. n - 1 /\ ~(i <= i - 1) /\ (i - 1) + 1 = i BY <2>1, <3>2, <3>6
    <3>8. f[i] = ss[1] \o g[i - 1] BY <2>4, <3>1, <3>7
    <3>9. g[i] = g[i - 1] \o tt[i] BY <3>5, <3>6 DEF FlatStep
    <3>10. g[i - 1] \in Seq(Chars) /\ tt[i] \in Seq(Chars)
      <4>1. i \in 1 .. Len(tt) BY <1>3, <3>2
      <4> QED BY <1>3, <2>3, <3>7, <4>1, ElementOfSeq
    <3>11. (ss[1] \o g[i - 1]) \o tt[i] = ss[1] \o (g[i - 1] \o tt[i])
      <4>1. ss[1] \in Seq(Chars) BY <1>5
      <4> QED BY <3>10, <4>1, Reassociate, Zenon
    <3> QED BY <3>2, <3>4, <3>8, <3>9, <3>11
  <2>6. n - 1 \in 1 .. n - 1 /\ (n - 1) + 1 = n BY <1>3, <2>1
  <2>7. f[n] = ss[1] \o g[n - 1] BY <2>4, <2>5, <2>6
  <2> QED BY <1>1, <1>4, <2>3, <2>7
<1> QED BY <1>6, <1>7

-----------------------------------------------------------------------------
(* Codes one after another, and what the handlers do to them.               *)

\* Consecutive codes, each with its NUL.
Ordered(s) ==
    /\ s \in Seq(Chars)
    /\ s # << >> => s[1] # 0 /\ s[Len(s)] = 0
    /\ \A i \in 1 .. Len(s) - 1 :
          IF s[i] = 0 THEN s[i + 1] = NextNumber(s[i - 1]) ELSE s[i + 1] \in {0, s[i]}

\* One code of the number k with its NUL.
IsCode(c, k) ==
    /\ c \in Seq(Chars) /\ Len(c) > 1 /\ c[Len(c)] = 0
    /\ \A i \in 1 .. Len(c) - 1 : c[i] = k

\* There is a code before each NUL.
LEMMA OrderedNul ==
    ASSUME NEW s, Ordered(s), NEW i \in 1 .. Len(s), s[i] = 0
    PROVE  i > 1 /\ s[i - 1] \in Chars \ {0}
<1>1. s \in Seq(Chars) /\ Len(s) \in Nat BY LenProperties DEF Ordered
<1>2. s # << >> /\ i # 1
  <2>1. s # << >> BY <1>1, EmptySeq
  <2> QED BY <2>1 DEF Ordered
<1>3. \A j \in 1 .. Len(s) : s[j] \in Chars BY <1>1, ElementOfSeq
<1>4. i - 1 \in 1 .. Len(s) /\ i - 1 \in 1 .. Len(s) - 1 /\ (i - 1) + 1 = i BY <1>1, <1>2
<1>5. ASSUME s[i - 1] = 0 PROVE FALSE
  <2>1. s[i] = NextNumber(s[(i - 1) - 1]) BY <1>4, <1>5 DEF Ordered
  <2>2. i - 1 # 1
    <3>1. s[1] # 0 BY <1>2 DEF Ordered
    <3> QED BY <1>5, <3>1
  <2>3. (i - 1) - 1 \in 1 .. Len(s) BY <1>4, <2>2
  <2>4. NextNumber(s[(i - 1) - 1]) # 0 BY <1>3, <2>3, NextNumberType
  <2> QED BY <2>1, <2>4
<1> QED BY <1>2, <1>3, <1>4, <1>5

\* A further code: the first, or the next number.
LEMMA OrderedPut ==
    ASSUME NEW s, Ordered(s), NEW k \in Chars, s # << >> => s[Len(s) - 1] = k,
           NEW c, IsCode(c, NextNumber(k))
    PROVE  /\ Ordered(s \o c) /\ s \o c # << >>
           /\ (s \o c)[Len(s \o c) - 1] = NextNumber(k)
<1>1. NextNumber(k) \in Chars \ {0} BY NextNumberType
<1>2. PICK h : h = NextNumber(k) OBVIOUS
<1>3. /\ s \in Seq(Chars) /\ c \in Seq(Chars) /\ Len(s) \in Nat /\ Len(c) \in Nat
      /\ Len(c) > 1 /\ c[Len(c)] = 0 /\ \A i \in 1 .. Len(c) - 1 : c[i] = h
  BY <1>2, LenProperties DEF Ordered, IsCode
<1>4. PICK t : t = s \o c OBVIOUS
<1>5. /\ t \in Seq(Chars) /\ Len(t) = Len(s) + Len(c)
      /\ \A i \in 1 .. Len(s) + Len(c) : t[i] = IF i <= Len(s) THEN s[i] ELSE c[i - Len(s)]
  BY <1>3, <1>4, ConcatProperties
<1>6. PICK m \in Nat : m = Len(s) BY <1>3
<1>7. PICK n \in Nat : n = Len(c) /\ n > 1 BY <1>3
<1>8. t # << >> BY <1>3, <1>5, EmptySeq
<1>9. /\ \A i \in 1 .. m : t[i] = s[i]
      /\ \A i \in m + 1 .. m + n - 1 : t[i] = h
      /\ t[m + n] = 0
  <2>1. \A i \in 1 .. m : t[i] = s[i] BY <1>5, <1>6, <1>7
  <2>2. ASSUME NEW i \in m + 1 .. m + n - 1 PROVE t[i] = h
    <3>1. i \in 1 .. m + n /\ ~(i <= m) /\ i - m \in 1 .. n - 1 OBVIOUS
    <3> QED BY <1>3, <1>5, <1>6, <1>7, <3>1
  <2>3. t[m + n] = 0
    <3>1. m + n \in 1 .. m + n /\ ~(m + n <= m) /\ (m + n) - m = n BY <1>7
    <3> QED BY <1>3, <1>5, <1>6, <1>7, <3>1
  <2> QED BY <2>1, <2>2, <2>3
<1>10. t[1] # 0
  <2>1. CASE m = 0
    <3>1. 1 \in m + 1 .. m + n - 1 BY <1>7, <2>1
    <3> QED BY <1>1, <1>2, <1>9, <3>1
  <2>2. CASE m # 0
    <3>1. s # << >> BY <1>3, <1>6, <2>2, EmptySeq
    <3>2. 1 \in 1 .. m BY <2>2
    <3> QED BY <1>9, <3>1, <3>2 DEF Ordered
  <2> QED BY <2>1, <2>2
<1>11. ASSUME NEW i \in 1 .. (m + n) - 1
       PROVE  IF t[i] = 0 THEN t[i + 1] = NextNumber(t[i - 1]) ELSE t[i + 1] \in {0, t[i]}
  <2>1. CASE i < m
    <3>1. i \in 1 .. m /\ i + 1 \in 1 .. m /\ i \in 1 .. m - 1 BY <2>1
    <3>2. IF s[i] = 0 THEN s[i + 1] = NextNumber(s[i - 1]) ELSE s[i + 1] \in {0, s[i]}
      BY <1>6, <3>1 DEF Ordered
    <3>3. CASE s[i] = 0
      <4>1. i \in 1 .. Len(s) BY <1>6, <3>1
      <4>2. i > 1 BY <3>3, <4>1, OrderedNul
      <4>3. i - 1 \in 1 .. m BY <3>1, <4>2
      <4> QED BY <1>9, <3>1, <3>2, <3>3, <4>3
    <3>4. CASE s[i] # 0 BY <1>9, <3>1, <3>2, <3>4
    <3> QED BY <3>3, <3>4
  <2>2. CASE i = m
    <3>1. s # << >>
      <4>1. m # 0 BY <2>2
      <4> QED BY <1>3, <1>6, <4>1, EmptySeq
    <3>2. m \in 1 .. m /\ m + 1 \in m + 1 .. m + n - 1 BY <1>7, <2>2
    <3>3. s[m] = 0 /\ s[m - 1] = k BY <1>6, <3>1 DEF Ordered
    <3>4. m > 1
      <4>1. m \in 1 .. Len(s) BY <1>6, <3>2
      <4> QED BY <3>3, <4>1, OrderedNul
    <3>5. m - 1 \in 1 .. m BY <3>4
    <3>6. t[m] = 0 /\ t[m + 1] = h /\ t[m - 1] = k BY <1>9, <3>2, <3>3, <3>5
    <3> QED BY <1>2, <2>2, <3>6
  <2>3. CASE i > m
    <3>1. i \in m + 1 .. m + n - 1 BY <2>3
    <3>2. i + 1 \in m + 1 .. m + n - 1 \/ i + 1 = m + n BY <3>1
    <3> QED BY <1>1, <1>2, <1>9, <3>1, <3>2
  <2> QED BY <2>1, <2>2, <2>3
<1>12. Ordered(t)
  <2>1. Len(t) = m + n /\ t[Len(t)] = 0 BY <1>5, <1>6, <1>7, <1>9
  <2>2. \A i \in 1 .. Len(t) - 1 :
          IF t[i] = 0 THEN t[i + 1] = NextNumber(t[i - 1]) ELSE t[i + 1] \in {0, t[i]}
    BY <1>11, <2>1
  <2> QED BY <1>5, <1>10, <2>1, <2>2 DEF Ordered
<1>13. t[Len(t) - 1] = h
  <2>1. Len(t) - 1 = m + n - 1 /\ m + n - 1 \in m + 1 .. m + n - 1 BY <1>5, <1>6, <1>7
  <2> QED BY <1>9, <2>1
<1> QED BY <1>2, <1>4, <1>8, <1>12, <1>13

\* Taking codes off the front.
LEMMA OrderedRest ==
    ASSUME NEW a \in Seq(Chars), NEW t \in Seq(Chars), Ordered(a \o t),
           a # << >> => a[Len(a)] = 0
    PROVE  /\ Ordered(t)
           /\ t # << >> => /\ a \o t # << >>
                           /\ t[Len(t) - 1] = (a \o t)[Len(a \o t) - 1]
<1>1. PICK s : s = a \o t OBVIOUS
<1>2. /\ s \in Seq(Chars) /\ Len(s) = Len(a) + Len(t)
      /\ \A i \in 1 .. Len(a) + Len(t) : s[i] = IF i <= Len(a) THEN a[i] ELSE t[i - Len(a)]
  BY <1>1, ConcatProperties
<1>3. PICK m \in Nat : m = Len(a) BY LenProperties
<1>4. PICK n \in Nat : n = Len(t) BY LenProperties
<1>5. ASSUME NEW i \in 1 .. n PROVE t[i] = s[m + i] /\ m + i \in 1 .. Len(s)
  <2>1. m + i \in 1 .. m + n /\ ~(m + i <= m) /\ (m + i) - m = i OBVIOUS
  <2> QED BY <1>2, <1>3, <1>4, <2>1
<1>6. CASE t = << >>
  <2>1. Len(t) = 0 BY <1>6, EmptySeq
  <2> QED BY <1>6, <2>1 DEF Ordered
<1>7. CASE t # << >>
  <2>1. n # 0 BY <1>4, <1>7, EmptySeq
  <2>2. s # << >>
    <3>1. Len(s) # 0 BY <1>2, <1>3, <1>4, <2>1
    <3> QED BY <3>1, EmptySeq
  <2>3. t[1] # 0
    <3>1. 1 \in 1 .. n BY <2>1
    <3>2. t[1] = s[m + 1] /\ m + 1 \in 1 .. Len(s) BY <1>5, <3>1
    <3>3. CASE m = 0
      <4>1. s[1] # 0 BY <1>1, <2>2 DEF Ordered
      <4> QED BY <3>2, <3>3, <4>1
    <3>4. CASE m # 0
      <4>1. a # << >> BY <1>3, <3>4, EmptySeq
      <4>2. m \in 1 .. m + n /\ m <= m BY <3>4
      <4>3. s[m] = 0 BY <1>2, <1>3, <1>4, <4>1, <4>2
      <4>4. m + 1 > 1 BY <3>4
      <4> SUFFICES ASSUME s[m + 1] = 0 PROVE FALSE BY <3>2
      <4>5. s[(m + 1) - 1] # 0 BY <1>1, <3>2, OrderedNul
      <4> QED BY <4>3, <4>5
    <3> QED BY <3>3, <3>4
  <2>4. ASSUME NEW i \in 1 .. n - 1
        PROVE  IF t[i] = 0 THEN t[i + 1] = NextNumber(t[i - 1]) ELSE t[i + 1] \in {0, t[i]}
    <3>1. i \in 1 .. n /\ i + 1 \in 1 .. n OBVIOUS
    <3>2. t[i] = s[m + i] /\ t[i + 1] = s[m + (i + 1)] BY <1>5, <3>1
    <3>3. Len(s) = m + n /\ m + i \in 1 .. (m + n) - 1 /\ (m + i) + 1 = m + (i + 1)
      BY <1>2, <1>3, <1>4
    <3>4. IF s[m + i] = 0 THEN s[m + (i + 1)] = NextNumber(s[(m + i) - 1])
                          ELSE s[m + (i + 1)] \in {0, s[m + i]}
      BY <1>1, <3>3 DEF Ordered
    <3>5. CASE t[i] = 0
      <4>1. i # 1 BY <2>3, <3>5
      <4>2. i - 1 \in 1 .. n /\ m + (i - 1) = (m + i) - 1 BY <3>1, <4>1
      <4>3. t[i - 1] = s[(m + i) - 1] BY <1>5, <4>2
      <4> QED BY <3>2, <3>4, <3>5, <4>3
    <3>6. CASE t[i] # 0 BY <3>2, <3>4, <3>6
    <3> QED BY <3>5, <3>6
  <2>5. t[n] = 0
    <3>1. n \in 1 .. n /\ m + n = Len(s) BY <1>2, <1>3, <1>4, <2>1
    <3>2. s[Len(s)] = 0 BY <1>1, <2>2 DEF Ordered
    <3> QED BY <1>5, <3>1, <3>2, SMTT(30)
  <2>6. Ordered(t) BY <1>4, <2>3, <2>4, <2>5 DEF Ordered
  <2>7. t[n - 1] = s[Len(s) - 1]
    <3>1. n # 1 BY <2>3, <2>5
    <3>2. n - 1 \in 1 .. n /\ m + (n - 1) = Len(s) - 1 BY <1>2, <1>3, <1>4, <2>1, <3>1
    <3> QED BY <1>5, <3>2
  <2> QED BY <1>1, <1>4, <2>2, <2>6, <2>7
<1> QED BY <1>6, <1>7

LEMMA TerminatedIs ==
    ASSUME NEW b \in Seq(Chars)
    PROVE  /\ Terminated(b) \in Seq(Chars)
           /\ b = << >> => Terminated(b) = << >>
           /\ b # << >> => Terminated(b) = IF b[Len(b)] # 0 THEN b \o <<0>> ELSE b
<1>1. 0 \in Chars BY CodeTimerAssumption DEF Chars
<1>2. Append(b, 0) \in Seq(Chars) /\ Append(b, 0) = b \o <<0>>
  BY <1>1, AppendProperties, AppendIsConcat
<1> QED BY <1>2 DEF Terminated, Unterminated, Last

\* The NUL of the last code is that of what follows.
LEMMA TerminatedConcat ==
    ASSUME NEW a \in Seq(Chars), NEW b \in Seq(Chars), b # << >>
    PROVE  Terminated(a \o b) = a \o Terminated(b)
<1>1. PICK s : s = a \o b OBVIOUS
<1>2. /\ s \in Seq(Chars) /\ Len(s) = Len(a) + Len(b)
      /\ \A i \in 1 .. Len(a) + Len(b) : s[i] = IF i <= Len(a) THEN a[i] ELSE b[i - Len(a)]
  BY <1>1, ConcatProperties
<1>3. Len(a) \in Nat /\ Len(b) \in Nat \ {0} BY EmptySeq, LenProperties
<1>4. s # << >> BY <1>2, <1>3, EmptySeq
<1>5. s[Len(s)] = b[Len(b)]
  <2>1. Len(s) \in 1 .. Len(a) + Len(b) /\ ~(Len(s) <= Len(a)) /\ Len(s) - Len(a) = Len(b)
    BY <1>2, <1>3
  <2> QED BY <1>2, <2>1
<1>6. s \o <<0>> = a \o (b \o <<0>>)
  <2>1. <<0>> \in Seq(Chars) BY CodeTimerAssumption DEF Chars
  <2> QED BY <1>1, <2>1, Reassociate, Zenon
<1>7. Terminated(s) = IF s[Len(s)] # 0 THEN s \o <<0>> ELSE s BY <1>2, <1>4, TerminatedIs
<1>8. Terminated(b) = IF b[Len(b)] # 0 THEN b \o <<0>> ELSE b BY TerminatedIs
<1> QED BY <1>1, <1>5, <1>6, <1>7, <1>8

\* What the work item takes off the buffer is the first code.
LEMMA SplitCode ==
    ASSUME NEW b, NEW n, Whole(b, n), b # << >>
    PROVE  Terminated(b) = Append(FirstCode(b), 0) \o Terminated(RestOf(b))
<1>1. PICK e : e = CodeEnd(b) OBVIOUS
<1>2. b \in Seq(Chars) /\ Len(b) \in Nat \ {0} BY EmptySeq DEF Whole
<1>3. /\ e \in 1 .. Len(b) + 1 /\ (e <= Len(b) => b[e] = 0)
      /\ \A i \in 1 .. e - 1 : b[i] # 0
  BY <1>1, <1>2, CodeEndBounds
<1>4. PICK f : f = FirstCode(b) OBVIOUS
<1>5. PICK r : r = RestOf(b) OBVIOUS
<1>6. f = SubSeq(b, 1, e - 1) /\ r = SubSeq(b, e + 1, Len(b))
  BY <1>1, <1>4, <1>5 DEF FirstCode, RestOf
<1>7. f \in Seq(Chars) /\ r \in Seq(Chars)
  <2>1. f \in Seq(Chars \ {0}) /\ Whole(r, n) BY <1>4, <1>5, FirstAndRest
  <2>2. Chars \ {0} \subseteq Chars OBVIOUS
  <2> QED BY <2>1, <2>2, SeqMonotonic DEF Whole
<1>8. 0 \in Chars BY CodeTimerAssumption DEF Chars
<1>9. Append(f, 0) = f \o <<0>> /\ Append(f, 0) \in Seq(Chars) /\ <<0>> \in Seq(Chars)
  <2>1. <<0>> \in Seq(Chars) BY <1>8
  <2> QED BY <1>7, <1>8, <2>1, AppendIsConcat, AppendProperties
<1>10. Terminated(b) = IF b[Len(b)] # 0 THEN b \o <<0>> ELSE b BY <1>2, TerminatedIs
<1>11. CASE e = Len(b) + 1
  <2>1. e - 1 = Len(b) BY <1>2, <1>11
  <2>2. f = b BY <1>2, <1>6, <2>1, SubSeqFull
  <2>3. r = << >>
    <3>1. e + 1 \in Int /\ Len(b) \in Int /\ Len(b) < e + 1 BY <1>2, <1>11
    <3> QED BY <1>6, <3>1, SubSeqEmpty
  <2>4. b[Len(b)] # 0
    <3>1. Len(b) \in 1 .. e - 1 BY <1>2, <2>1
    <3> QED BY <1>3, <3>1
  <2>5. Terminated(r) = << >> BY <1>7, <2>3, TerminatedIs
  <2>6. Append(f, 0) \o << >> = Append(f, 0) BY <1>9, ConcatEmptySeq
  <2> QED BY <1>4, <1>5, <1>9, <1>10, <2>2, <2>4, <2>5, <2>6
<1>12. CASE e # Len(b) + 1
  <2>1. e \in 1 .. Len(b) /\ b[e] = 0 BY <1>2, <1>3, <1>12
  <2>2. SubSeq(b, 1, e) = f \o <<0>>
    <3>1. 1 \in 1 .. Len(b) /\ e \in 1 .. Len(b) BY <1>2, <2>1
    <3>2. SubSeq(b, 1, e) = SubSeq(b, 1, e - 1) \o << b[e] >>
      BY <1>2, <3>1, SubSeqRecursiveSecond
    <3> QED BY <1>6, <2>1, <3>2
  <2>3. SubSeq(b, 1, e) \o r = b
    <3>1. /\ 1 \in 1 .. Len(b) + 1 /\ e \in 1 - 1 .. Len(b) /\ Len(b) \in e .. Len(b)
      BY <1>2, <2>1
    <3>2. SubSeq(b, 1, e) \o SubSeq(b, e + 1, Len(b)) = SubSeq(b, 1, Len(b))
      BY <1>2, <3>1, ConcatAdjacentSubSeq
    <3>3. SubSeq(b, 1, Len(b)) = b BY <1>2, SubSeqFull
    <3> QED BY <1>6, <3>2, <3>3
  <2>4. Append(f, 0) \o r = b BY <1>9, <2>2, <2>3
  <2>5. CASE r = << >>
    <3>1. e = Len(b)
      <4> SUFFICES ASSUME e < Len(b) PROVE FALSE BY <1>2, <2>1
      <4>1. e + 1 \in Nat \ {0} /\ Len(b) \in 0 .. Len(b) BY <1>2, <2>1
      <4>2. Len(r) = IF e + 1 <= Len(b) THEN Len(b) - (e + 1) + 1 ELSE 0
        BY <1>2, <1>6, <4>1, Piece
      <4>3. Len(r) = 0 BY <2>5, EmptySeq
      <4> QED BY <1>2, <2>1, <4>2, <4>3
    <3>2. Terminated(b) = b BY <1>10, <2>1, <3>1
    <3>3. Terminated(r) = r BY <1>7, <2>5, TerminatedIs
    <3> QED BY <1>4, <1>5, <2>4, <3>2, <3>3
  <2>6. CASE r # << >>
    <3>1. Terminated(Append(f, 0) \o r) = Append(f, 0) \o Terminated(r)
      BY <1>7, <1>9, <2>6, TerminatedConcat
    <3> QED BY <1>4, <1>5, <2>4, <3>1
  <2> QED BY <2>5, <2>6
<1> QED BY <1>11, <1>12

\* What is stored of a code is a code, but for its NUL if the buffer is full.
LEMMA PutCode ==
    ASSUME cbuffer \in Seq(Chars), Len(cbuffer) <= Capacity,
           NEW k \in Chars \ {0}, NEW n \in Nat \ {0},
           NEW stored, stored = Put(Code(k, n)), stored # << >>
    PROVE  /\ stored \in Seq(Chars) /\ IsCode(Terminated(stored), k)
           /\ Len(cbuffer) # Capacity
<1>1. PICK code : code = Code(k, n) OBVIOUS
<1>2. /\ code \in Seq(Chars) /\ Len(code) = n + 1 /\ code[n + 1] = 0
      /\ \A i \in 1 .. n : code[i] = k
  <2>1. \A i \in 1 .. n + 1 : (IF i <= n THEN k ELSE 0) \in Chars
    BY CodeTimerAssumption DEF Chars
  <2>2. code \in [1 .. n + 1 -> Chars] BY <1>1, <2>1 DEF Code
  <2>3. code \in Seq(Chars) /\ Len(code) = n + 1 BY <2>2
  <2> QED BY <1>1, <2>3 DEF Code
<1>3. Len(cbuffer) \in Nat BY LenProperties
<1>4. Room \in Nat /\ Room = Capacity - Len(cbuffer)
  BY <1>3, CodeTimerAssumption DEF Room
<1>5. stored = IF n + 1 <= Room THEN code ELSE SubSeq(code, 1, Room) BY <1>1, <1>2 DEF Put
<1>6. CASE n + 1 <= Room
  <2>1. stored = code BY <1>5, <1>6
  <2>2. Terminated(stored) = code
    BY <1>2, <2>1, TerminatedIs
  <2>3. IsCode(code, k)
    <3>1. Len(code) - 1 = n /\ Len(code) > 1 BY <1>2
    <3> QED BY <1>2, <3>1 DEF IsCode
  <2> QED BY <1>2, <1>3, <1>4, <1>6, <2>1, <2>2, <2>3
<1>7. CASE ~(n + 1 <= Room)
  <2>1. stored = SubSeq(code, 1, Room) BY <1>5, <1>7
  <2>2. Room \in 0 .. Len(code) BY <1>2, <1>4, <1>7
  <2>3. /\ stored \in Seq(Chars) /\ Len(stored) = IF 1 <= Room THEN Room - 1 + 1 ELSE 0
        /\ \A i \in 1 .. Room - 1 + 1 : stored[i] = code[1 + i - 1]
    BY <1>2, <2>1, <2>2, Piece
  <2>4. PICK m \in Nat : m = Room BY <1>4
  <2>5. Len(stored) # 0 BY <2>3, EmptySeq
  <2>6. Len(stored) = m /\ m # 0 /\ m <= n BY <1>7, <2>3, <2>4, <2>5
  <2>7. ASSUME NEW i \in 1 .. m PROVE stored[i] = k
    <3>1. i \in 1 .. Room - 1 + 1 /\ 1 + i - 1 = i /\ i \in 1 .. n BY <2>4, <2>6
    <3> QED BY <1>2, <2>3, <3>1
  <2>8. Terminated(stored) = Append(stored, 0)
    <3>1. m \in 1 .. m BY <2>6
    <3>2. stored[Len(stored)] # 0 BY <2>6, <2>7, <3>1
    <3> QED BY <3>2 DEF Terminated, Unterminated, Last
  <2>9. 0 \in Chars BY CodeTimerAssumption DEF Chars
  <2>10. PICK c : c = Append(stored, 0) OBVIOUS
  <2>11. /\ c \in Seq(Chars) /\ Len(c) = m + 1 /\ c[m + 1] = 0
         /\ \A i \in 1 .. m : c[i] = stored[i]
    BY <2>3, <2>6, <2>9, <2>10, AppendProperties
  <2>12. IsCode(c, k)
    <3>1. Len(c) - 1 = m /\ Len(c) > 1 BY <2>6, <2>11
    <3> QED BY <2>7, <2>11, <3>1 DEF IsCode
  <2>13. Len(cbuffer) # Capacity BY <1>3, <1>4, <2>4, <2>6
  <2> QED BY <2>3, <2>8, <2>10, <2>12, <2>13
<1> QED BY <1>6, <1>7

-----------------------------------------------------------------------------
(* The codes of list, work item and buffer.                                 *)

\* The codes of a list, each with its NUL, as they are in Stream.
Texts(m) == [i \in DOMAIN m |-> Append(m[i], 0)]
StreamOf(m, b, c) == FlattenSeq(Texts(m)) \o Terminated(b) \o Terminated(c)

\* Consecutive codes up to number k.
UpTo(s, k) == Ordered(s) /\ (s # << >> => s[Len(s) - 1] = k)

\* The order of the codes, and that nothing is left in the work item when it is done
\* with the list, the one list there is.
OrderInv ==
    /\ UpTo(StreamOf(mylist[1], work.buffer, cbuffer), made)
    /\ work.state \notin {"copy", "append"} => work.buffer = << >>
    /\ work.state = "append" => work.l = 1

LEMMA TextsType ==
    ASSUME NEW m \in Seq(CodeSet)
    PROVE  /\ Texts(m) \in Seq(Seq(Chars)) /\ Len(Texts(m)) = Len(m)
           /\ FlattenSeq(Texts(m)) \in Seq(Chars)
           /\ \A i \in 1 .. Len(m) :
                 /\ Texts(m)[i] = Append(m[i], 0) /\ Texts(m)[i] \in Seq(Chars)
                 /\ Texts(m)[i] # << >> /\ Texts(m)[i][Len(Texts(m)[i])] = 0
<1>1. Len(m) \in Nat /\ DOMAIN m = 1 .. Len(m) BY LenProperties
<1>2. ASSUME NEW i \in 1 .. Len(m)
      PROVE  /\ Append(m[i], 0) \in Seq(Chars) /\ Append(m[i], 0) # << >>
             /\ Append(m[i], 0)[Len(Append(m[i], 0))] = 0
  <2>1. m[i] \in Seq(Chars \ {0}) BY ElementOfSeq DEF CodeSet
  <2>2. Chars \ {0} \subseteq Chars /\ 0 \in Chars BY CodeTimerAssumption DEF Chars
  <2>3. m[i] \in Seq(Chars) BY <2>1, <2>2, SeqMonotonic
  <2> QED BY <2>2, <2>3, AppendProperties
<1>3. Texts(m) \in [1 .. Len(m) -> Seq(Chars)] BY <1>1, <1>2 DEF Texts
<1>4. Texts(m) \in Seq(Seq(Chars)) /\ Len(Texts(m)) = Len(m) BY <1>1, <1>3
<1>5. \A i \in 1 .. Len(m) : Texts(m)[i] = Append(m[i], 0) BY <1>1 DEF Texts
<1>6. FlattenSeq(Texts(m)) \in Seq(Chars) BY <1>4, FlatType
<1> QED BY <1>2, <1>4, <1>5, <1>6

LEMMA TextsAppend ==
    ASSUME NEW m \in Seq(CodeSet), NEW code \in CodeSet
    PROVE  FlattenSeq(Texts(Append(m, code))) = FlattenSeq(Texts(m)) \o Append(code, 0)
<1>1. PICK s : s = Append(m, code) OBVIOUS
<1>2. /\ s \in Seq(CodeSet) /\ Len(s) = Len(m) + 1 /\ s[Len(m) + 1] = code
      /\ \A i \in 1 .. Len(m) : s[i] = m[i]
  BY <1>1, AppendProperties
<1>3. Len(m) \in Nat BY LenProperties
<1>4. /\ Texts(m) \in Seq(Seq(Chars)) /\ Len(Texts(m)) = Len(m)
      /\ \A i \in 1 .. Len(m) : Texts(m)[i] = Append(m[i], 0)
  BY TextsType
<1>5. /\ Texts(s) \in Seq(Seq(Chars)) /\ Len(Texts(s)) = Len(m) + 1
      /\ \A i \in 1 .. Len(m) + 1 : Texts(s)[i] = Append(s[i], 0) /\ Texts(s)[i] \in Seq(Chars)
  BY <1>2, TextsType
<1>6. Append(code, 0) \in Seq(Chars)
  <2>1. Len(m) + 1 \in 1 .. Len(m) + 1 BY <1>3
  <2> QED BY <1>2, <1>5, <2>1
<1>7. PICK t : t = Append(Texts(m), Append(code, 0)) OBVIOUS
<1>8. /\ t \in Seq(Seq(Chars)) /\ Len(t) = Len(m) + 1 /\ t[Len(m) + 1] = Append(code, 0)
      /\ \A i \in 1 .. Len(m) : t[i] = Texts(m)[i]
  BY <1>4, <1>6, <1>7, AppendProperties
<1>9. ASSUME NEW i \in 1 .. Len(m) + 1 PROVE Texts(s)[i] = t[i]
  <2>1. i \in 1 .. Len(m) \/ i = Len(m) + 1 BY <1>3
  <2> QED BY <1>2, <1>4, <1>5, <1>8, <2>1
<1>10. Texts(s) = t BY <1>5, <1>8, <1>9, SeqEqual
<1> QED BY <1>1, <1>4, <1>6, <1>7, <1>10, FlatAppend

LEMMA TextsFirst ==
    ASSUME NEW m \in Seq(CodeSet), m # << >>
    PROVE  FlattenSeq(Texts(m)) = Append(m[1], 0) \o FlattenSeq(Texts(SubSeq(m, 2, Len(m))))
<1>1. Len(m) \in Nat \ {0} BY EmptySeq
<1>2. PICK s : s = SubSeq(m, 2, Len(m)) OBVIOUS
<1>3. /\ s \in Seq(CodeSet) /\ Len(s) = Len(m) - 1
      /\ \A i \in 1 .. Len(m) - 1 : s[i] = m[i + 1]
  <2>1. s = Tail(m) BY <1>2, TailIsSubSeq
  <2> QED BY <2>1, HeadTailProperties
<1>4. /\ Texts(m) \in Seq(Seq(Chars)) /\ Len(Texts(m)) = Len(m)
      /\ \A i \in 1 .. Len(m) : Texts(m)[i] = Append(m[i], 0)
  BY TextsType
<1>5. /\ Texts(s) \in Seq(Seq(Chars)) /\ Len(Texts(s)) = Len(m) - 1
      /\ \A i \in 1 .. Len(m) - 1 : Texts(s)[i] = Append(s[i], 0)
  BY <1>3, TextsType
<1>6. Texts(m) # << >> BY <1>1, <1>4, EmptySeq
<1>7. PICK t : t = SubSeq(Texts(m), 2, Len(m)) OBVIOUS
<1>8. /\ t \in Seq(Seq(Chars)) /\ Len(t) = Len(m) - 1
      /\ \A i \in 1 .. Len(m) - 1 : t[i] = Texts(m)[i + 1]
  <2>1. t = Tail(Texts(m)) BY <1>4, <1>6, <1>7, TailIsSubSeq
  <2> QED BY <1>4, <1>6, <2>1, HeadTailProperties
<1>9. ASSUME NEW i \in 1 .. Len(m) - 1 PROVE Texts(s)[i] = t[i]
  <2>1. i + 1 \in 1 .. Len(m) BY <1>1
  <2> QED BY <1>3, <1>4, <1>5, <1>8, <2>1
<1>10. Texts(s) = t BY <1>5, <1>8, <1>9, SeqEqual
<1>11. Texts(m)[1] = Append(m[1], 0)
  <2>1. 1 \in 1 .. Len(m) BY <1>1
  <2> QED BY <1>4, <2>1
<1>12. FlattenSeq(Texts(m)) = Texts(m)[1] \o FlattenSeq(SubSeq(Texts(m), 2, Len(Texts(m))))
  BY <1>4, <1>6, FlatFirst
<1> QED BY <1>2, <1>4, <1>7, <1>10, <1>11, <1>12

\* Codes in order stay so when some are taken off the front.
LEMMA UpToRest ==
    ASSUME NEW a \in Seq(Chars), NEW t \in Seq(Chars), NEW k, UpTo(a \o t, k),
           a # << >> => a[Len(a)] = 0
    PROVE  UpTo(t, k)
<1>1. Ordered(a \o t) BY DEF UpTo
<1>2. /\ Ordered(t)
      /\ t # << >> => a \o t # << >> /\ t[Len(t) - 1] = (a \o t)[Len(a \o t) - 1]
  BY <1>1, OrderedRest
<1> QED BY <1>2 DEF UpTo

LEMMA StreamIsAll ==
    ASSUME NEW m \in Seq(CodeSet), NEW b \in Seq(Chars), NEW c \in Seq(Chars)
    PROVE  /\ StreamOf(m, b, c) \in Seq(Chars)
           /\ StreamOf(m, b, c) = FlattenSeq(Texts(m)) \o (Terminated(b) \o Terminated(c))
<1>1. FlattenSeq(Texts(m)) \in Seq(Chars) BY TextsType
<1>2. Terminated(b) \in Seq(Chars) /\ Terminated(c) \in Seq(Chars) BY TerminatedIs
<1>3. FlattenSeq(Texts(m)) \o Terminated(b) \in Seq(Chars) BY <1>1, <1>2, ConcatProperties
<1>4. StreamOf(m, b, c) \in Seq(Chars) BY <1>2, <1>3, ConcatProperties DEF StreamOf
<1>5. (FlattenSeq(Texts(m)) \o Terminated(b)) \o Terminated(c)
      = FlattenSeq(Texts(m)) \o (Terminated(b) \o Terminated(c))
  BY <1>1, <1>2, Reassociate, Zenon
<1> QED BY <1>4, <1>5 DEF StreamOf

\* The first code of the list is forgotten.
LEMMA DropFirst ==
    ASSUME NEW m \in Seq(CodeSet), NEW b \in Seq(Chars), NEW c \in Seq(Chars), NEW k,
           UpTo(StreamOf(m, b, c), k), m # << >>
    PROVE  UpTo(StreamOf(SubSeq(m, 2, Len(m)), b, c), k)
<1>1. PICK s : s = SubSeq(m, 2, Len(m)) OBVIOUS
<1>2. s \in Seq(CodeSet)
  <2>1. s = Tail(m) BY <1>1, TailIsSubSeq
  <2> QED BY <2>1, HeadTailProperties
<1>3. PICK a : a = Append(m[1], 0) OBVIOUS
<1>4. a \in Seq(Chars) /\ a # << >> /\ a[Len(a)] = 0
  <2>1. 1 \in 1 .. Len(m) BY EmptySeq
  <2> QED BY <1>3, <2>1, TextsType
<1>5. PICK f : f = FlattenSeq(Texts(s)) OBVIOUS
<1>6. PICK r : r = Terminated(b) \o Terminated(c) OBVIOUS
<1>7. f \in Seq(Chars) /\ r \in Seq(Chars)
  <2>1. Terminated(b) \in Seq(Chars) /\ Terminated(c) \in Seq(Chars) BY TerminatedIs
  <2> QED BY <1>2, <1>5, <1>6, <2>1, TextsType, ConcatProperties
<1>8. StreamOf(m, b, c) = (a \o f) \o r
  BY <1>1, <1>3, <1>5, <1>6, TextsFirst, StreamIsAll
<1>9. (a \o f) \o r = a \o (f \o r) BY <1>4, <1>7, Reassociate, Zenon
<1>10. StreamOf(s, b, c) = f \o r BY <1>2, <1>5, <1>6, StreamIsAll
<1>11. f \o r \in Seq(Chars) BY <1>7, ConcatProperties
<1>12. UpTo(f \o r, k) BY <1>4, <1>8, <1>9, <1>11, UpToRest
<1> QED BY <1>1, <1>10, <1>12

\* The list is emptied.
LEMMA DropAll ==
    ASSUME NEW m \in Seq(CodeSet), NEW b \in Seq(Chars), NEW c \in Seq(Chars), NEW k,
           UpTo(StreamOf(m, b, c), k)
    PROVE  UpTo(StreamOf(<< >>, b, c), k)
<1>1. PICK f : f = FlattenSeq(Texts(m)) OBVIOUS
<1>2. PICK r : r = Terminated(b) \o Terminated(c) OBVIOUS
<1>3. f \in Seq(Chars) /\ r \in Seq(Chars)
  <2>1. Terminated(b) \in Seq(Chars) /\ Terminated(c) \in Seq(Chars) BY TerminatedIs
  <2> QED BY <1>1, <1>2, <2>1, TextsType, ConcatProperties
<1>4. f # << >> => f[Len(f)] = 0
  <2> SUFFICES ASSUME f # << >> PROVE f[Len(f)] = 0 OBVIOUS
  <2>1. PICK tt : tt = Texts(m) OBVIOUS
  <2>2. tt \in Seq(Seq(Chars)) /\ Len(tt) = Len(m) BY <2>1, TextsType
  <2>3. tt # << >>
    <3> SUFFICES ASSUME tt = << >> PROVE FALSE OBVIOUS
    <3>1. Len(tt) = 0 BY EmptySeq
    <3> QED BY <1>1, <2>1, <3>1 DEF FlattenSeq
  <2>4. PICK n : n = Len(tt) /\ n \in Nat \ {0} BY <2>2, <2>3, EmptySeq
  <2>5. PICK g : /\ f = g[n] /\ \A i \in 1 .. n : g[i] = FlatStep(g, tt, i) /\ g[i] \in Seq(Chars)
    BY <1>1, <2>1, <2>2, <2>3, <2>4, FlatIs
  <2>6. n \in 1 .. n BY <2>4
  <2>7. PICK e : e = tt[n] OBVIOUS
  <2>8. e \in Seq(Chars) /\ e # << >> /\ e[Len(e)] = 0
    BY <2>1, <2>2, <2>4, <2>6, <2>7, TextsType
  <2>9. CASE n = 1 BY <2>5, <2>6, <2>7, <2>8, <2>9 DEF FlatStep
  <2>10. CASE n # 1
    <3>1. n - 1 \in 1 .. n BY <2>4, <2>10
    <3>2. f = g[n - 1] \o e BY <2>5, <2>6, <2>7, <2>10 DEF FlatStep
    <3>3. PICK d \in Seq(Chars) : f = d \o e BY <2>5, <3>1, <3>2
    <3>4. /\ Len(f) = Len(d) + Len(e)
          /\ \A i \in 1 .. Len(d) + Len(e) : f[i] = IF i <= Len(d) THEN d[i] ELSE e[i - Len(d)]
      BY <2>8, <3>3, ConcatProperties
    <3>5. Len(d) \in Nat /\ Len(e) \in Nat \ {0} BY <2>8, EmptySeq, LenProperties
    <3>6. Len(f) \in 1 .. Len(d) + Len(e) /\ ~(Len(f) <= Len(d)) /\ Len(f) - Len(d) = Len(e)
      BY <3>4, <3>5
    <3> QED BY <2>8, <3>4, <3>6
  <2> QED BY <2>9, <2>10
<1>5. StreamOf(m, b, c) = f \o r BY <1>1, <1>2, StreamIsAll
<1>6. UpTo(r, k) BY <1>3, <1>4, <1>5, UpToRest
<1>7. StreamOf(<< >>, b, c) = r
  <2>1. << >> \in Seq(CodeSet) BY EmptySeq
  <2>2. Texts(<< >>) = << >> /\ Len(<< >>) = 0
    <3>1. Len(Texts(<< >>)) = 0 /\ Texts(<< >>) \in Seq(Seq(Chars)) BY <2>1, TextsType, EmptySeq
    <3> QED BY <3>1, EmptySeq
  <2>3. FlattenSeq(Texts(<< >>)) = << >> BY <2>2 DEF FlattenSeq
  <2>4. << >> \o r = r BY <1>3, ConcatEmptySeq
  <2> QED BY <1>2, <2>1, <2>3, <2>4, StreamIsAll, ZenonT(60)
<1> QED BY <1>6, <1>7

LEMMA OrderTypes ==
    ASSUME Types
    PROVE  /\ mylist[1] \in Seq(CodeSet) /\ 1 \in Lists
           /\ work \in WorkItems /\ work.buffer \in Seq(Chars) /\ Whole(work.buffer, work.taken)
           /\ cbuffer \in Seq(Chars) /\ Len(cbuffer) <= Capacity /\ made \in Chars
           /\ Whole(cbuffer, Len(cbuffer)) /\ code_length \in Nat \ {0}
<1>1. 1 \in Lists /\ Lens \subseteq Nat \ {0} BY CodeTimerAssumption DEF Lists
<1> QED BY <1>1 DEF Types, ListTypes, BufferTypes, WorkTypes, WorkOK, Whole

\* What the timer stores is the next code of the stream.
LEMMA FireOrder ==
    ASSUME Types, OrderInv, FirePut(code_length)
    PROVE  OrderInv'
<1>1. PICK stored : stored = Put(Code(NextNumber(made), code_length)) OBVIOUS
<1>2. PICK m : m = mylist[1] OBVIOUS
<1>3. PICK b : b = work.buffer OBVIOUS
<1>4. PICK c : c = cbuffer OBVIOUS
<1>5. /\ m \in Seq(CodeSet) /\ b \in Seq(Chars) /\ c \in Seq(Chars) /\ made \in Chars
      /\ Len(c) <= Capacity /\ Whole(c, Len(c)) /\ code_length \in Nat \ {0}
  BY <1>2, <1>3, <1>4, OrderTypes
<1>6. /\ cbuffer' = c \o stored /\ UNCHANGED <<mylist, work>>
      /\ made' = IF stored = << >> THEN made ELSE NextNumber(made)
  BY <1>1, <1>4 DEF FirePut, lists
<1>7. UpTo(StreamOf(m, b, c \o stored), made')
  <2>1. UpTo(StreamOf(m, b, c), made) BY <1>2, <1>3, <1>4 DEF OrderInv
  <2>2. CASE stored = << >>
    <3>1. c \o stored = c BY <1>5, <2>2, ConcatEmptySeq
    <3> QED BY <1>6, <2>1, <2>2, <3>1
  <2>3. CASE stored # << >>
    <3>1. PICK k : k = NextNumber(made) OBVIOUS
    <3>2. k \in Chars \ {0} BY <1>5, <3>1, NextNumberType
    <3>3. stored = Put(Code(k, code_length)) BY <1>1, <3>1
    <3>4. /\ stored \in Seq(Chars) /\ IsCode(Terminated(stored), k)
          /\ Len(cbuffer) # Capacity
      BY <1>4, <1>5, <2>3, <3>2, <3>3, PutCode
    <3>5. Terminated(c) = c BY <1>4, <1>5, <3>4 DEF Terminated, Whole
    <3>6. PICK x : x = Terminated(stored) OBVIOUS
    <3>7. x \in Seq(Chars) BY <3>4, <3>6, TerminatedIs
    <3>8. Terminated(c \o stored) = c \o x BY <1>5, <2>3, <3>4, <3>6, TerminatedConcat
    <3>9. PICK h : h = FlattenSeq(Texts(m)) \o Terminated(b) OBVIOUS
    <3>10. h \in Seq(Chars) BY <1>5, <3>9, TextsType, TerminatedIs, ConcatProperties
    <3>11. StreamOf(m, b, c) = h \o c BY <3>5, <3>9 DEF StreamOf
    <3>12. StreamOf(m, b, c \o stored) = h \o (c \o x) BY <3>8, <3>9 DEF StreamOf
    <3>13. (h \o c) \o x = h \o (c \o x) BY <1>5, <3>7, <3>10, Reassociate, Zenon
    <3>14. PICK s : s = h \o c OBVIOUS
    <3>15. Ordered(s) /\ (s # << >> => s[Len(s) - 1] = made)
      BY <2>1, <3>11, <3>14 DEF UpTo
    <3>16. IsCode(x, NextNumber(made)) BY <3>1, <3>4, <3>6
    <3>17. Ordered(s \o x) /\ (s \o x)[Len(s \o x) - 1] = NextNumber(made)
      BY <1>5, <3>15, <3>16, OrderedPut
    <3> QED BY <1>6, <2>3, <3>12, <3>13, <3>14, <3>17 DEF UpTo
  <2> QED BY <2>2, <2>3
<1> QED BY <1>2, <1>3, <1>6, <1>7 DEF OrderInv

\* The work item takes over the buffer.
LEMMA TakeOrder ==
    ASSUME Types, OrderInv, WorkTake
    PROVE  OrderInv'
<1>1. PICK m : m = mylist[1] OBVIOUS
<1>2. PICK c : c = cbuffer OBVIOUS
<1>3. m \in Seq(CodeSet) /\ c \in Seq(Chars) BY <1>1, <1>2, OrderTypes
<1>4. work.buffer = << >> BY DEF WorkTake, OrderInv
<1>5. UpTo(StreamOf(m, << >>, c), made) BY <1>1, <1>2, <1>4 DEF OrderInv
<1>6. PICK w : w = [NoWork EXCEPT !.buffer = c, !.taken = Len(c)] OBVIOUS
<1>7. UNCHANGED <<mylist, made>> /\ cbuffer' = << >> /\ work' = CopyNext(w)
  BY <1>2, <1>6 DEF WorkTake, lists, clock
<1>8. w.buffer = c BY <1>6 DEF NoWork
<1>9. /\ work'.buffer = c
      /\ work'.state \notin {"copy", "append"} => work'.buffer = << >>
      /\ work'.state # "append"
  <2>1. CASE c # << >>
    <3>1. work' = [w EXCEPT !.state = "copy"] BY <1>7, <1>8, <2>1 DEF CopyNext
    <3>2. work'.state = "copy" /\ work'.buffer = c BY <1>6, <3>1 DEF NoWork
    <3> QED BY <3>2
  <2>2. CASE c = << >>
    <3>1. work' = ToWake(1) BY <1>7, <1>8, <2>2 DEF CopyNext
    <3> QED BY <2>2, <3>1 DEF ToWake, NoWork
  <2> QED BY <2>1, <2>2
<1>10. StreamOf(m, c, << >>) = StreamOf(m, << >>, c)
  <2>1. << >> \in Seq(Chars) BY EmptySeq
  <2>2. PICK t : t = Terminated(c) OBVIOUS
  <2>3. PICK f : f = FlattenSeq(Texts(m)) OBVIOUS
  <2>4. t \in Seq(Chars) /\ f \in Seq(Chars) /\ f \o t \in Seq(Chars)
    BY <1>3, <2>2, <2>3, TerminatedIs, TextsType, ConcatProperties
  <2>5. Terminated(<< >>) = << >> BY <2>1, TerminatedIs
  <2>6. (f \o t) \o << >> = f \o t /\ f \o << >> = f BY <2>4, ConcatEmptySeq
  <2> QED BY <2>2, <2>3, <2>5, <2>6 DEF StreamOf
<1> QED BY <1>1, <1>5, <1>7, <1>9, <1>10 DEF OrderInv

\* The work item moves a code to the end of the list, and the first is forgotten.
LEMMA AppendOrder ==
    ASSUME Types, OrderInv, WorkAppend
    PROVE  OrderInv'
<1>1. work.state = "append" /\ work.l = 1 BY DEF WorkAppend, OrderInv
<1>2. PICK m : m = mylist[1] OBVIOUS
<1>3. PICK b : b = work.buffer OBVIOUS
<1>4. PICK c : c = cbuffer OBVIOUS
<1>5. /\ m \in Seq(CodeSet) /\ b \in Seq(Chars) /\ c \in Seq(Chars)
      /\ Whole(b, work.taken)
  BY <1>2, <1>3, <1>4, OrderTypes
<1>6. b # << >> BY <1>1, <1>3 DEF Types, WorkTypes, WorkOK
<1>7. PICK code : code = FirstCode(b) OBVIOUS
<1>8. PICK r : r = RestOf(b) OBVIOUS
<1>9. code \in CodeSet /\ r \in Seq(Chars)
  BY <1>5, <1>6, <1>7, <1>8, FirstAndRest DEF CodeSet, Whole
<1>10. PICK s : s = Append(m, code) OBVIOUS
<1>11. s \in Seq(CodeSet) /\ s # << >> BY <1>5, <1>9, <1>10, AppendProperties
<1>12. PICK w : w = [work EXCEPT !.buffer = r] OBVIOUS
<1>13. /\ mylist' = [mylist EXCEPT ![1] = SubSeq(s, 1 + Forgotten(s), Len(s))]
       /\ work' = CopyNext(w) /\ UNCHANGED <<cbuffer, made>>
  BY <1>1, <1>2, <1>3, <1>7, <1>8, <1>10, <1>12 DEF WorkAppend, Link, clock
<1>14. /\ work'.buffer = r
       /\ work'.state \notin {"copy", "append"} => work'.buffer = << >>
       /\ work'.state # "append"
  <2>1. w.buffer = r /\ w \in WorkItems
    <3>1. work \in WorkItems BY OrderTypes
    <3> QED BY <1>9, <1>12, <3>1 DEF WorkItems
  <2>2. CASE r # << >>
    <3>1. work' = [w EXCEPT !.state = "copy"] BY <1>13, <2>1, <2>2 DEF CopyNext
    <3>2. work'.state = "copy" /\ work'.buffer = r BY <2>1, <3>1 DEF WorkItems
    <3> QED BY <3>2
  <2>3. CASE r = << >>
    <3>1. work' = ToWake(1) BY <1>13, <2>1, <2>3 DEF CopyNext
    <3> QED BY <2>3, <3>1 DEF ToWake, NoWork
  <2> QED BY <2>2, <2>3
<1>15. StreamOf(s, r, c) = StreamOf(m, b, c)
  <2>1. PICK f : f = FlattenSeq(Texts(m)) OBVIOUS
  <2>2. PICK x : x = Append(code, 0) OBVIOUS
  <2>3. PICK t : t = Terminated(r) OBVIOUS
  <2>4. FlattenSeq(Texts(s)) = f \o x BY <1>5, <1>9, <1>10, <2>1, <2>2, TextsAppend
  <2>5. Terminated(b) = x \o t BY <1>5, <1>6, <1>7, <1>8, <2>2, <2>3, SplitCode
  <2>6. f \in Seq(Chars) /\ t \in Seq(Chars)
    BY <1>5, <1>9, <2>1, <2>3, TextsType, TerminatedIs
  <2>7. x \in Seq(Chars)
    <3>1. code \in Seq(Chars \ {0}) BY <1>9 DEF CodeSet
    <3>2. Chars \ {0} \subseteq Chars /\ 0 \in Chars BY CodeTimerAssumption DEF Chars
    <3>3. code \in Seq(Chars) BY <3>1, <3>2, SeqMonotonic
    <3> QED BY <2>2, <3>2, <3>3, AppendProperties
  <2>8. (f \o x) \o t = f \o (x \o t) BY <2>6, <2>7, Reassociate, Zenon
  <2> QED BY <2>1, <2>3, <2>4, <2>5, <2>8 DEF StreamOf
<1>16. UpTo(StreamOf(s, r, c), made) BY <1>2, <1>3, <1>4, <1>15 DEF OrderInv
<1>17. UpTo(StreamOf(SubSeq(s, 1 + Forgotten(s), Len(s)), r, c), made)
  <2>1. CASE Forgotten(s) = 1
    <3>1. 1 + Forgotten(s) = 2 BY <2>1
    <3> QED BY <1>5, <1>9, <1>11, <1>16, <3>1, DropFirst
  <2>2. CASE Forgotten(s) = 0
    <3>1. 1 + Forgotten(s) = 1 BY <2>2
    <3>2. SubSeq(s, 1, Len(s)) = s BY <1>11, SubSeqFull
    <3> QED BY <1>16, <3>1, <3>2
  <2> QED BY <2>1, <2>2 DEF Forgotten
<1>18. mylist'[1] = SubSeq(s, 1 + Forgotten(s), Len(s))
  <2>1. 1 \in Lists /\ mylist \in [Lists -> Seq(CodeSet)]
    BY OrderTypes DEF Types, ListTypes
  <2> QED BY <1>13, <2>1
<1> QED BY <1>4, <1>13, <1>14, <1>17, <1>18 DEF OrderInv

\* The list is emptied, or what is in it and in the buffers stays.
LEMMA SameOrder ==
    ASSUME Types, OrderInv, UNCHANGED made, mylist'[1] \in {mylist[1], << >>},
           work'.buffer = work.buffer, cbuffer' = cbuffer,
           work'.state \notin {"copy", "append"} => work'.buffer = << >>,
           work'.state = "append" => work'.l = 1
    PROVE  OrderInv'
<1>1. /\ mylist[1] \in Seq(CodeSet) /\ work.buffer \in Seq(Chars) /\ cbuffer \in Seq(Chars)
  BY OrderTypes
<1>2. UpTo(StreamOf(mylist[1], work.buffer, cbuffer), made) BY DEF OrderInv
<1>3. UpTo(StreamOf(<< >>, work.buffer, cbuffer), made) BY <1>1, <1>2, DropAll
<1>4. UpTo(StreamOf(mylist'[1], work'.buffer, cbuffer'), made') BY <1>2, <1>3
<1> QED BY <1>4 DEF OrderInv

\* Nothing anywhere.
LEMMA EmptyOrder == \A k : UpTo(StreamOf(<< >>, << >>, << >>), k)
<1>1. << >> \in Seq(CodeSet) /\ << >> \in Seq(Chars) /\ Len(<< >>) = 0 BY EmptySeq
<1>2. Texts(<< >>) = << >>
  <2>1. Len(Texts(<< >>)) = 0 /\ Texts(<< >>) \in Seq(Seq(Chars)) BY <1>1, TextsType
  <2> QED BY <2>1, EmptySeq
<1>3. FlattenSeq(Texts(<< >>)) = << >> BY <1>1, <1>2 DEF FlattenSeq
<1>4. Terminated(<< >>) = << >> BY <1>1, TerminatedIs
<1>5. << >> \o << >> = << >> BY <1>1, ConcatEmptySeq
<1>6. StreamOf(<< >>, << >>, << >>) = << >> BY <1>3, <1>4, <1>5 DEF StreamOf
<1>7. \A k : UpTo(<< >>, k) BY <1>1 DEF UpTo, Ordered
<1> QED BY <1>6, <1>7

LEMMA NextOrder == Inv /\ OrderInv /\ [Next]_vars => OrderInv'
<1> SUFFICES ASSUME Inv, OrderInv, [Next]_vars PROVE OrderInv' OBVIOUS
<1>1. Types BY DEF Inv
<1>2. work \in WorkItems /\ 1 \in Lists /\ mylist \in [Lists -> Seq(CodeSet)]
  BY <1>1, OrderTypes DEF Types, ListTypes
<1>3. /\ work.state \notin {"copy", "append"} => work.buffer = << >>
      /\ work.state = "append" => work.l = 1
  BY DEF OrderInv
<1>4. CASE UNCHANGED vars
  BY <1>1, <1>3, <1>4, SameOrder DEF vars, lists, clock
<1>5. CASE Fire
  <2>1. CASE FirePut(code_length) BY <1>1, <2>1, FireOrder
  <2>2. CASE FireTest
    BY <1>1, <1>3, <2>2, SameOrder DEF FireTest, lists
  <2>3. CASE FireQueue
    <3>1. UNCHANGED <<mylist, cbuffer, made>> BY <2>3 DEF FireQueue, lists
    <3>2. \/ UNCHANGED work
          \/ work.state = "idle" /\ work' = [work EXCEPT !.state = "queued"]
      BY <2>3 DEF FireQueue, Inv, FileInv
    <3>3. /\ work'.buffer = work.buffer
          /\ work'.state \notin {"copy", "append"} => work'.buffer = << >>
          /\ work'.state = "append" => work'.l = 1
      BY <1>2, <1>3, <3>2 DEF WorkItems
    <3> QED BY <1>1, <3>1, <3>3, SameOrder
  <2> QED BY <1>5, <2>1, <2>2, <2>3 DEF Fire
<1>6. CASE Work
  <2>1. CASE WorkTake BY <1>1, <2>1, TakeOrder
  <2>2. CASE WorkAppend BY <1>1, <2>2, AppendOrder
  <2>3. CASE WorkCopy(1)
    <3>1. UNCHANGED <<mylist, cbuffer, made>> BY <2>3 DEF WorkCopy, clock
    <3>2. work' = [work EXCEPT !.state = "append", !.l = 1] BY <2>3 DEF WorkCopy
    <3>3. work'.buffer = work.buffer /\ work'.state = "append" /\ work'.l = 1
      BY <1>2, <3>2 DEF WorkItems
    <3> QED BY <1>1, <3>1, <3>3, SameOrder
  <2>4. CASE WorkWake \/ WorkUp \/ WorkDone
    <3>1. UNCHANGED <<mylist, cbuffer, made>>
      BY <2>4 DEF WorkWake, WorkUp, WorkDone, lists, clock
    <3>2. work.buffer = << >> BY <1>3, <2>4 DEF WorkWake, WorkUp, WorkDone
    <3>3. work'.buffer = << >> /\ work'.state # "append"
      <4>1. \A l : ToWake(l).buffer = << >> /\ ToWake(l).state # "append"
        BY DEF ToWake, NoWork
      <4>2. CASE WorkWake
        BY <1>2, <3>2, <4>1, <4>2 DEF WorkWake, WorkItems
      <4>3. CASE WorkUp BY <4>1, <4>3 DEF WorkUp
      <4>4. CASE WorkDone BY <4>4 DEF WorkDone, NoWork
      <4> QED BY <2>4, <4>2, <4>3, <4>4
    <3> QED BY <1>1, <3>1, <3>2, <3>3, SameOrder
  <2> QED BY <1>6, <2>1, <2>2, <2>3, <2>4 DEF Work, WorkStep
<1>7. ASSUME NEW p \in Procs, Reader(p) PROVE OrderInv'
  <2>1. UNCHANGED <<cbuffer, clock, work>>
    BY <1>7 DEF Reader, ReadStep, CallRead, Count, Counted, Sleep, WakeUp, Copy, CleanLock, Clean,
         Uncount, Uncounted, Interrupt
  <2>2. mylist'[1] \in {mylist[1], << >>}
    <3>1. CASE Clean(p) BY <1>2, <3>1 DEF Clean, Cleaned
    <3>2. CASE ~Clean(p)
      <4>1. UNCHANGED mylist
        BY <1>7, <3>2 DEF Reader, ReadStep, CallRead, Count, Counted, Sleep, WakeUp, Copy, CleanLock,
            Uncount, Uncounted, Interrupt, InterruptTest, InterruptSleep, InterruptClean, lists
      <4> QED BY <4>1
    <3> QED BY <3>1, <3>2
  <2> QED BY <1>1, <1>3, <2>1, <2>2, SameOrder DEF clock
<1>8. CASE Files
  <2>1. CASE Open \/ CloseTimer \/ ConfigThreshold \/ ConfigFormat
    <3>1. UNCHANGED <<mylist, cbuffer, made, work>>
      BY <2>1 DEF Open, CloseTimer, ConfigThreshold, ConfigFormat, lists, clock
    <3> QED BY <1>1, <1>3, <3>1, SameOrder
  <2>2. CASE Close
    <3>1. /\ mylist' = [l \in Lists |-> << >>] /\ cbuffer' = << >> /\ UNCHANGED <<work, made>>
          /\ work.state = "idle"
      BY <2>2 DEF Close, Flushed, clock
    <3>2. mylist'[1] = << >> /\ work'.buffer = << >> BY <1>2, <1>3, <3>1
    <3> QED BY <1>3, <3>1, <3>2, EmptyOrder DEF OrderInv
  <2> QED BY <1>8, <2>1, <2>2 DEF Files
<1>9. CASE Users \/ \E p \in Procs : Run(p)
  <2>1. \E p \in Procs : Reader(p) BY <1>9 DEF Users, Run, Reader
  <2> QED BY <1>7, <2>1
<1> QED BY <1>4, <1>5, <1>6, <1>8, <1>9 DEF Next

LEMMA InitOrder == Init => OrderInv
<1> SUFFICES ASSUME Init PROVE OrderInv OBVIOUS
<1>1. mylist[1] = << >> /\ work = NoWork /\ cbuffer = << >>
  BY CodeTimerAssumption DEF Init, Lists
<1>2. work.buffer = << >> /\ work.state = "idle" BY <1>1 DEF NoWork
<1> QED BY <1>1, <1>2, EmptyOrder DEF OrderInv

\* Codes reach the list in the order in which the timer made them, none lost, made
\* twice or joined to another on the way through the buffer and the work item.
THEOREM CodesAreInOrder == Spec => []CodesInOrder
<1>1. Inv /\ OrderInv => CodesInOrder
  <2> SUFFICES ASSUME Inv, OrderInv PROVE CodesInOrder OBVIOUS
  <2>1. Stream = StreamOf(mylist[1], work.buffer, cbuffer) BY DEF Stream, StreamOf, Texts
  <2>2. UpTo(Stream, made) BY <2>1 DEF OrderInv
  <2> QED BY <2>2 DEF UpTo, Ordered, CodesInOrder
<1>2. Init => Inv /\ OrderInv BY InitInv, InitOrder
<1>3. Inv /\ OrderInv /\ [Next]_vars => Inv' /\ OrderInv' BY NextInv, NextOrder
<1> QED BY <1>1, <1>2, <1>3, PTL DEF Spec
-----------------------------------------------------------------------------
(* CodeTimerEvenOdd: the two lists and their readers.                      *)

\* The readers of list l that even or odd should count.
Unlisted    == {"claim", "addeven", "loadodd", "addodd", "wipe", "wiping"}
ReadersOf(l) == {p \in Procs : file[p] = l /\ pc[p] \notin Unlisted}

\* even and odd are not what they should be.
Wrong == leaked \/ miscounted

OpenTypes ==
    /\ users \in [Lists -> Int] /\ opens \in Nat
    /\ leaked \in BOOLEAN /\ miscounted \in BOOLEAN /\ overtaken \in BOOLEAN
    /\ sorted \in 0 .. NLists /\ (sorted # 0 => work.state = "copy")

ReadersCounted == ~Wrong => \A l \in Lists : users[l] = Cardinality(ReadersOf(l))

\* A code is on its way to a list only if that has a reader.
CodeHasReader == ~Wrong /\ ~overtaken => \A l \in Lists : Underway(l) => ReadersOf(l) # {}

\* Whether an update of waiting was lost or not, only those asleep wait on a queue, and
\* a queue with units has none.
InLine(s, f) == InOrder(s) /\ \A q \in Procs : Waiting(s, q) => f[q] \in Asleep
LineInv == \A l \in Lists : InLine(queue[l], SleepAt(l))

\* FireQueue finds the work item free when jobFinished says so.
Busy == jobFinished <=> work.state = "idle"

EvenOddInv ==
    /\ Types /\ QueueInv /\ LineInv /\ Busy
    /\ OpenTypes /\ ReadersCounted /\ CodeHasReader /\ ListHasReader

\* A code dropped for want of a reader.
Drop == /\ work.state = "copy"
        /\ work' = CopyNext([work EXCEPT !.buffer = RestOf(@)])
        /\ UNCHANGED <<cbuffer, lists, sleepq, config, procs, clock>>

\* A list is chosen for the code, or the code goes on to it.
Choose(l) == /\ work.state = "copy" /\ sorted' = l /\ HasUsers(l)
             /\ UNCHANGED <<vars, users, opens, history>>

\* The steps of a process that opens or closes its file.
Opener(p) == OpenStep(p) \/ ReleaseStep(p)

\* What the steps of a reader leave alone of the two lists' own variables.
counts == <<users, sorted, opens, crossed, leaked, miscounted, overtaken>>

LEMMA TwoLists ==
    /\ Odd \in Lists /\ 1 \in Lists /\ Lists = {1, Odd} /\ Odd # 1
    /\ 0 \notin Lists /\ Lists \subseteq 0 .. NLists
BY EvenOddAssumption DEF Lists, Odd

LEMMA EvenOddSteps ==
    ASSUME Types, OpenTypes, EvenOddNext
    PROVE  \/ Timer /\ UNCHANGED opening
           \/ Item /\ work'.state # "append" /\ UNCHANGED opening
           \/ Drop /\ sorted = 0 /\ UNCHANGED opening
           \/ \E l \in Lists : Choose(l)
           \/ \E l \in Lists : WorkCopy(l) /\ sorted = l /\ sorted' = 0 /\ UNCHANGED <<users, opens, history>>
           \/ \E p \in Procs : \/ Reader(p) /\ UNCHANGED counts
                               \/ Opener(p)
<1>1. WorkSort => \/ Drop /\ sorted = 0 /\ UNCHANGED opening
                  \/ \E l \in Lists : Choose(l)
  BY TwoLists DEF WorkSort, Drop, Choose, opening, vars
<1>2. WorkList => \E l \in Lists : /\ WorkCopy(l) /\ sorted = l /\ sorted' = 0
                                   /\ UNCHANGED <<users, opens, history>>
  BY DEF WorkList, OpenTypes, Lists
<1>3. ASSUME WorkTake \/ WorkAppend \/ WorkWake \/ WorkUp \/ WorkDone
      PROVE  Item /\ work'.state # "append"
  <2>1. Item BY <1>3 DEF Item
  <2>2. work.state # "copy" BY <1>3 DEF WorkTake, WorkAppend, WorkWake, WorkUp, WorkDone
  <2>3. ~ \E l \in Lists : WorkCopy(l) BY <2>2 DEF WorkCopy
  <2> QED BY <2>1, <2>3, ItemWork
<1>4. ASSUME NEW p \in Procs, ReadOwn(p) \/ SleepOwn(p) PROVE Reader(p) /\ UNCHANGED counts
  BY <1>4 DEF ReadOwn, SleepOwn, Reader, ReadStep, opening, history, counts
<1>5. FireRandom \/ FireTest \/ FireQueue \/ ConfigThreshold => Timer BY DEF FireRandom, Timer
<1> QED BY <1>1, <1>2, <1>3, <1>4, <1>5 DEF EvenOddNext, FireOrWork, Opener

LEMMA DropTypes == Types /\ Drop => Types' /\ work'.state \notin {"append", "idle"}
<1> SUFFICES ASSUME Types, Drop PROVE Types' /\ work'.state \notin {"append", "idle"} OBVIOUS
<1> DEFINE w == [work EXCEPT !.buffer = RestOf(@)]
<1>1. WorkOK(work) /\ work.buffer # << >> /\ work \in WorkItems
  BY DEF Types, WorkTypes, WorkOK, Drop
<1>2. Whole(work.buffer, work.taken) BY <1>1 DEF WorkOK
<1>3. Whole(RestOf(work.buffer), work.taken) BY <1>1, <1>2, FirstAndRest
<1>4. w \in WorkItems /\ w.buffer = RestOf(work.buffer) /\ w.taken = work.taken
  BY <1>1, <1>3 DEF WorkItems, Whole
<1>5. work' = CopyNext(w) BY DEF Drop
<1> HIDE DEF w
<1>6. WorkOK(work') /\ work'.state \notin {"append", "idle"} BY <1>3, <1>4, <1>5, CopyNextOK
<1> QED BY <1>6
  DEF Drop, Types, ListTypes, WaitTypes, LockTypes, ProcTypes, BufferTypes, WorkTypes,
      lists, sleepq, config, procs, clock

LEMMA OpenerProcs ==
    ASSUME Types, OpenTypes, NEW p \in Procs, Opener(p)
    PROVE  /\ ProcTypes'
           /\ \A q \in Procs : q # p => pc'[q] = pc[q] /\ file'[q] = file[q] /\ reg'[q] = reg[q]
<1> USE TwoLists DEF Types, ProcTypes, OpenPlaces, MeetPlaces, Closers, Goto, procs
<1>0. /\ 0 \in 0 .. NLists /\ waiting[Odd] \in Int /\ users[1] \in Int /\ users[Odd] \in Int
      /\ \A l \in Lists : users[l] \in Int
  BY EvenOddAssumption DEF WaitTypes, OpenTypes
<1>1. CASE OpenLook(p) BY <1>0, <1>1 DEF OpenLook
<1>2. CASE OpenTest(p) BY <1>0, <1>2 DEF OpenTest
<1>3. CASE LoadUsers(p) BY <1>0, <1>3 DEF LoadUsers
<1>4. CASE OpenCount(p) BY <1>0, <1>4 DEF OpenCount
<1>5. CASE OpenInit(p) BY <1>5 DEF OpenInit
<1>6. CASE Meet(p) BY <1>0, <1>6 DEF Meet
<1>7. CASE LoadWaiting(p)
  <2>1. pc'[p] \in {"joining", "answering", "unmeeting"} BY <1>7 DEF LoadWaiting
  <2> QED BY <1>0, <1>7, <2>1 DEF LoadWaiting
<1>8. CASE Join(p) BY <1>0, <1>8 DEF Join
<1>9. CASE MeetSleep(p) BY <1>9 DEF MeetSleep
<1>10. CASE Met(p) BY <1>10 DEF Met, Granted, ReadPlaces
<1>11. CASE Answer(p) BY <1>11 DEF Answer, ReadPlaces
<1>12. CASE InterruptMeet(p)
  <2>1. signals' \in 0 .. MaxSignals BY <1>12, CodeTimerAssumption DEF InterruptMeet
  <2> QED BY <1>0, <1>12, <2>1 DEF InterruptMeet
<1>13. CASE Unmeet(p) BY <1>0, <1>13 DEF Unmeet, ReadPlaces
<1>14. CASE ReleaseTimer(p) BY <1>14 DEF ReleaseTimer, Lists
<1>15. CASE ReleaseFlush(p) BY <1>15 DEF ReleaseFlush
<1>16. CASE ReleaseReset(p) BY <1>16 DEF ReleaseReset
<1>17. CASE ReleaseCount(p) BY <1>17 DEF ReleaseCount
<1>18. CASE ReleaseLock(p) BY <1>18 DEF ReleaseLock, LockList
<1>19. CASE Release(p) BY <1>0, <1>19 DEF Release, ReadPlaces
<1>20. CASE InterruptRelease(p)
  <2>1. signals' \in 0 .. MaxSignals BY <1>20, CodeTimerAssumption DEF InterruptRelease
  <2> QED BY <1>20, <2>1 DEF InterruptRelease
<1> QED
  BY <1>1, <1>2, <1>3, <1>4, <1>5, <1>6, <1>7, <1>8, <1>9, <1>10, <1>11, <1>12, <1>13, <1>14,
     <1>15, <1>16, <1>17, <1>18, <1>19, <1>20
  DEF Opener, OpenStep, ReleaseStep

\* The steps of an opener by what they leave alone.
Counting(p)  == OpenLook(p) \/ OpenTest(p) \/ LoadUsers(p) \/ OpenCount(p) \/ OpenInit(p)
Moving(p)    == Meet(p) \/ LoadWaiting(p)
Meeting(p)   == Join(p) \/ MeetSleep(p) \/ Met(p) \/ Answer(p) \/ InterruptMeet(p) \/ Unmeet(p)
Closing(p)   == ReleaseTimer(p) \/ ReleaseFlush(p) \/ ReleaseReset(p) \/ ReleaseCount(p)
Cleaning(p)  == ReleaseLock(p) \/ Release(p) \/ InterruptRelease(p)

LEMMA OpenerFrames ==
    ASSUME NEW p \in Procs
    PROVE  /\ Opener(p) => Counting(p) \/ Moving(p) \/ Meeting(p) \/ Closing(p) \/ Cleaning(p)
           /\ Counting(p) \/ Moving(p) =>
                UNCHANGED <<cbuffer, lists, sleepq, timer, config, jobFinished, made, work>>
           /\ Meeting(p) => UNCHANGED <<cbuffer, lists, config, jobFinished, made, work>>
           /\ Closing(p) => UNCHANGED <<lists, sleepq, config, jobFinished, made, work>>
           /\ Cleaning(p) => UNCHANGED <<cbuffer, sleepq, timer, config, jobFinished, made, work>>
           /\ Opener(p) => /\ timer' \in {timer, "off", "armed"} /\ cbuffer' \in {cbuffer, << >>}
                           /\ UNCHANGED sorted
<1> USE DEF lists, sleepq, clock, opening, history
<1>1. Opener(p) => Counting(p) \/ Moving(p) \/ Meeting(p) \/ Closing(p) \/ Cleaning(p)
  BY DEF Opener, OpenStep, ReleaseStep, Counting, Moving, Meeting, Closing, Cleaning
<1>2. Counting(p) \/ Moving(p) =>
        UNCHANGED <<cbuffer, lists, sleepq, timer, config, jobFinished, made, work, sorted>>
  BY DEF Counting, Moving, OpenLook, OpenTest, LoadUsers, OpenCount, OpenInit, Meet, LoadWaiting
<1>3. Meeting(p) => /\ UNCHANGED <<cbuffer, lists, config, jobFinished, made, work, sorted>>
                    /\ timer' \in {timer, "armed"}
  BY DEF Meeting, Join, MeetSleep, Met, Answer, InterruptMeet, Unmeet
<1>4. Closing(p) => /\ UNCHANGED <<lists, sleepq, config, jobFinished, made, work, sorted>>
                    /\ timer' \in {timer, "off"} /\ cbuffer' \in {cbuffer, << >>}
  BY DEF Closing, ReleaseTimer, ReleaseFlush, ReleaseReset, ReleaseCount
<1>5. Cleaning(p) => UNCHANGED <<cbuffer, sleepq, timer, config, jobFinished, made, work, sorted>>
  BY DEF Cleaning, ReleaseLock, Release, InterruptRelease
<1> QED BY <1>1, <1>2, <1>3, <1>4, <1>5

LEMMA OpenerTypes ==
    ASSUME Types, OpenTypes, NEW p \in Procs, Opener(p) PROVE Types'
<1> USE DEF lists, sleepq, config, procs, clock
<1>1. ProcTypes' BY OpenerProcs
<1>2. /\ UNCHANGED <<config, jobFinished, made, work>>
      /\ timer' \in {timer, "off", "armed"} /\ cbuffer' \in {cbuffer, << >>}
  BY OpenerFrames
<1>3. file[p] \in Lists \/ ~Cleaning(p)
  BY DEF Cleaning, ReleaseLock, Release, InterruptRelease, Granted, Types, ProcTypes
<1>4. ListTypes'
  <2>1. CASE Release(p)
    <3>1. << >> \in Seq(CodeSet) /\ Len(<< >>) = 0 BY EmptySeq
    <3>2. file[p] \in Lists BY <1>3, <2>1 DEF Cleaning
    <3>3. /\ mylist' = [mylist EXCEPT ![file[p]] = << >>]
          /\ copied' = [copied EXCEPT ![file[p]] = 0]
      BY <2>1 DEF Release, Cleaned
    <3>4. MaxListed \in Nat BY CodeTimerAssumption
    <3> QED BY <3>1, <3>2, <3>3, <3>4 DEF Types, ListTypes
  <2>2. CASE ~Release(p)
    <3>1. UNCHANGED <<mylist, copied>>
      BY <2>2, OpenerFrames DEF Cleaning, ReleaseLock, InterruptRelease
    <3> QED BY <3>1 DEF Types, ListTypes
  <2> QED BY <2>1, <2>2
<1>5. LockTypes'
  <2> USE DEF LockTypes, Types
  <2>1. CASE Cleaning(p)
    <3> DEFINE s == sem_list[file[p]]
               S == Semaphores(Procs \cup {Worker})
    <3>1. file[p] \in Lists /\ s \in S /\ p \in Procs \cup {Worker} BY <1>3, <2>1
    <3>2. /\ Down(s, p) \in S /\ Up(s) \in S
          /\ Waiting(s, p) => Cancel(s, p) \in S
      BY <3>1, DownType, UpType, CancelType
    <3> HIDE DEF S
    <3>3. \/ sem_list' = [sem_list EXCEPT ![file[p]] = Down(@, p)]
          \/ sem_list' = [sem_list EXCEPT ![file[p]] = Up(@)]
          \/ Waiting(s, p) /\ sem_list' = [sem_list EXCEPT ![file[p]] = Cancel(@, p)]
      BY <2>1 DEF Cleaning, ReleaseLock, Release, InterruptRelease, LockList, UnlockList
    <3>4. sem_list \in [Lists -> S] BY DEF S
    <3>5. sem_list' \in [Lists -> S] BY <3>1, <3>2, <3>3, <3>4
    <3> QED BY <3>5 DEF S
  <2>2. CASE ~Cleaning(p) BY <2>2, OpenerFrames
  <2> QED BY <2>1, <2>2
<1>6. WaitTypes'
  <2>1. /\ queue \in [Lists -> Semaphores(Procs)] /\ waiting \in [Lists -> Int]
        /\ reg[p] + 1 \in Int /\ reg[p] + -1 \in Int /\ Odd \in Lists /\ raced \in BOOLEAN
    BY TwoLists DEF Types, WaitTypes, ProcTypes
  <2>2. /\ Down(queue[Odd], p) \in Semaphores(Procs) /\ Up(queue[Odd]) \in Semaphores(Procs)
        /\ Waiting(queue[Odd], p) => Cancel(queue[Odd], p) \in Semaphores(Procs)
    BY <2>1, DownType, UpType, CancelType
  <2> USE DEF WaitTypes, StoreWaiting
  <2>3. CASE Join(p) BY <2>1, <2>3 DEF Join
  <2>4. CASE MeetSleep(p) BY <2>1, <2>2, <2>4 DEF MeetSleep
  <2>5. CASE Answer(p) BY <2>1, <2>2, <2>5 DEF Answer
  <2>6. CASE InterruptMeet(p) BY <2>1, <2>2, <2>6 DEF InterruptMeet
  <2>7. CASE Unmeet(p) BY <2>1, <2>7 DEF Unmeet, Withdrawn
  <2>8. CASE Met(p) BY <2>1, <2>8 DEF Met
  <2>9. CASE UNCHANGED sleepq BY <2>1, <2>9
  <2> QED BY <2>3, <2>4, <2>5, <2>6, <2>7, <2>8, <2>9, OpenerFrames DEF Meeting
<1>7. BufferTypes'
  <2>1. Len(<< >>) = 0 /\ Whole(<< >>, 0) BY EmptySeq, WholeEmpty
  <2> QED BY <1>2, <2>1, CodeTimerAssumption DEF Types, BufferTypes
<1>8. WorkTypes' BY <1>2 DEF Types, WorkTypes
<1> QED BY <1>1, <1>4, <1>5, <1>6, <1>7, <1>8 DEF Types

LEMMA OpenerQueue ==
    ASSUME Types, OpenTypes, QueueInv, NEW p \in Procs, Opener(p) PROVE QueueInv'
<1> USE DEF sleepq
<1>1. raced => raced'
  <2>1. CASE UNCHANGED raced BY <2>1
  <2>2. CASE Join(p) \/ Answer(p) \/ Unmeet(p)
    BY <2>2 DEF Join, Answer, Unmeet, StoreWaiting
  <2> QED BY <2>1, <2>2, OpenerFrames DEF Meeting, MeetSleep, Met, InterruptMeet
<1>2. ASSUME NEW l \in Lists, NEW q \in Procs, q # p PROVE SleepAt(l)'[q] = SleepAt(l)[q]
  BY <1>2, OpenerProcs DEF SleepAt
<1> SUFFICES ASSUME ~raced', NEW l \in Lists PROVE QueueMove(l, p)
  BY <1>1, <1>2, MovedQueue
<1>3. ~raced /\ Sleepers(l) BY <1>1 DEF QueueInv
<1> DEFINE was == IF pc[p] \in MeetPlaces THEN IF l = Odd THEN pc[p] ELSE "idle"
                  ELSE IF file[p] = l THEN pc[p] ELSE "idle"
           is == IF pc'[p] \in MeetPlaces THEN IF l = Odd THEN pc'[p] ELSE "idle"
                 ELSE IF file'[p] = l THEN pc'[p] ELSE "idle"
<1>4. /\ SleepAt(l)[p] = was /\ SleepAt(l)'[p] = is
      /\ Waiting(queue[l], p) => was \in Asleep
  BY <1>3 DEF SleepAt, Sleepers, QueueAccount
<1> SUFFICES QueueMoves(queue[l], waiting[l], queue'[l], waiting'[l], p, was, is, Marked, Asleep)
  BY <1>4 DEF QueueMove
<1>5. /\ queue \in [Lists -> Semaphores(Procs)] /\ waiting \in [Lists -> Int]
      /\ pc \in [Procs -> ReadPlaces \cup OpenPlaces] /\ file \in [Procs -> 0 .. NLists]
      /\ Odd \in Lists
  BY TwoLists DEF Types, WaitTypes, ProcTypes
<1> USE <1>4, <1>5 DEF MeetPlaces, QueueMoves, Marked, Asleep, Granted, Goto
<1>6. CASE Counting(p) \/ Closing(p) \/ Cleaning(p)
  <2>1. queue' = queue /\ waiting' = waiting BY <1>6, OpenerFrames
  <2>2. /\ pc[p] \notin MeetPlaces \cup Marked \cup Asleep
        /\ pc'[p] \notin MeetPlaces \cup Marked \cup Asleep
    BY <1>6 DEF Counting, Closing, Cleaning, OpenLook, OpenTest, LoadUsers, OpenCount, OpenInit,
       ReleaseTimer, ReleaseFlush, ReleaseReset, ReleaseCount, ReleaseLock, Release,
       InterruptRelease, LockList
  <2> QED BY <2>1, <2>2
<1>7. CASE Meet(p) BY <1>7 DEF Meet
<1>8. CASE LoadWaiting(p)
  <2>1. \/ pc[p] = "unmeet" /\ pc'[p] = "unmeeting"
        \/ pc[p] \in {"join", "answer"} /\ pc'[p] \in {"joining", "answering"}
    BY <1>8 DEF LoadWaiting
  <2>2. UNCHANGED <<queue, waiting, file>> BY <1>8 DEF LoadWaiting
  <2> QED BY <2>1, <2>2
<1>9. CASE Join(p)
  <2>1. reg[p] = waiting[Odd] /\ waiting' = [waiting EXCEPT ![Odd] = reg[p] + 1]
    BY <1>3, <1>9 DEF Join, StoreWaiting
  <2> QED BY <1>9, <2>1 DEF Join
<1>10. CASE MeetSleep(p) BY <1>10 DEF MeetSleep
<1>11. CASE Met(p) BY <1>11 DEF Met
<1>12. CASE Answer(p)
  <2>1. reg[p] = waiting[Odd] /\ waiting' = [waiting EXCEPT ![Odd] = reg[p] + -1]
    BY <1>3, <1>12 DEF Answer, StoreWaiting
  <2> QED BY <1>12, <2>1 DEF Answer
<1>13. CASE InterruptMeet(p) BY <1>13 DEF InterruptMeet
<1>14. CASE Unmeet(p)
  <2>1. reg[p] = waiting[Odd] /\ waiting' = [waiting EXCEPT ![Odd] = reg[p] + -1]
    BY <1>3, <1>14 DEF Unmeet, StoreWaiting, Withdrawn
  <2> QED BY <1>14, <2>1 DEF Unmeet
<1> QED
  BY <1>6, <1>7, <1>8, <1>9, <1>10, <1>11, <1>12, <1>13, <1>14, OpenerFrames DEF Moving, Meeting

LEMMA LineStep ==
    ASSUME NEW s \in Semaphores(Procs), NEW f, NEW t, NEW g, NEW p \in Procs, InLine(s, f),
           \A q \in Procs : q # p => g[q] = f[q],
           \/ t = s /\ (Waiting(s, p) => g[p] \in Asleep)
           \/ t = Down(s, p) /\ f[p] \notin Asleep /\ g[p] \in Asleep
           \/ t = Up(s) /\ (Waiting(s, p) => g[p] \in Asleep)
           \/ t = Cancel(s, p) /\ Waiting(s, p)
    PROVE  InLine(t, g)
<1>1. InOrder(s) /\ \A q \in Procs : Waiting(s, q) => f[q] \in Asleep BY DEF InLine
<1>2. CASE t = s /\ (Waiting(s, p) => g[p] \in Asleep) BY <1>1, <1>2 DEF InLine
<1>3. CASE t = Down(s, p) /\ f[p] \notin Asleep /\ g[p] \in Asleep
  <2>1. InOrder(t) BY <1>1, <1>3, DownInOrder
  <2>2. s.count \in Nat BY DEF Semaphores
  <2>3. \A q : Waiting(t, q) => Waiting(s, q) \/ q = p BY <1>3, <2>2, DownEffect
  <2> QED BY <1>1, <1>3, <2>1, <2>3 DEF InLine
<1>4. CASE t = Up(s) /\ (Waiting(s, p) => g[p] \in Asleep)
  <2>1. InOrder(t) BY <1>1, <1>4, UpEffect
  <2>2. \A q : Waiting(t, q) => Waiting(s, q) BY <1>1, <1>4, UpEffect
  <2> QED BY <1>1, <1>4, <2>1, <2>2 DEF InLine
<1>5. CASE t = Cancel(s, p) /\ Waiting(s, p)
  <2>1. InOrder(t) /\ \A q : Waiting(t, q) <=> (Waiting(s, q) /\ q # p)
    BY <1>1, <1>5, CancelEffect
  <2> QED BY <1>1, <1>5, <2>1 DEF InLine
<1> QED BY <1>2, <1>3, <1>4, <1>5

LEMMA InitLine == Init => LineInv
<1> SUFFICES ASSUME Init, NEW l \in Lists PROVE InLine(queue[l], SleepAt(l)) BY DEF LineInv
<1>1. queue[l] = SemInit(0) BY DEF Init
<1>2. SemInit(0).waiters = << >> BY DEF SemInit
<1>3. \A q : ~Waiting(queue[l], q) BY <1>1, <1>2 DEF Waiting
<1>4. InOrder(queue[l]) BY <1>1, <1>2 DEF InOrder, NoTwice
<1> QED BY <1>3, <1>4 DEF InLine

LEMMA SameLine ==
    ASSUME LineInv, UNCHANGED <<pc, file, queue>> PROVE LineInv'
BY DEF LineInv, InLine, SleepAt, InOrder, NoTwice, Waiting

LEMMA ItemLine == Types /\ LineInv /\ Item => LineInv'
<1> SUFFICES ASSUME Types, LineInv, Item, NEW l \in Lists PROVE InLine(queue'[l], SleepAt(l)')
  BY DEF LineInv
<1>1. PICK p \in Procs : TRUE BY CodeTimerAssumption
<1>2. UNCHANGED procs BY DEF Item, WorkTake, WorkAppend, WorkCopy, WorkWake, WorkUp, WorkDone
<1>3. SleepAt(l)' = SleepAt(l) BY <1>2 DEF SleepAt, procs
<1>4. queue \in [Lists -> Semaphores(Procs)] BY DEF Types, WaitTypes
<1>5. queue'[l] = queue[l] \/ queue'[l] = Up(queue[l])
  <2>1. CASE WorkUp BY <1>4, <2>1 DEF WorkUp
  <2>2. CASE ~WorkUp BY <2>2 DEF Item, WorkTake, WorkAppend, WorkCopy, WorkWake, WorkDone, sleepq
  <2> QED BY <2>1, <2>2
<1>6. InLine(queue[l], SleepAt(l)) BY DEF LineInv
<1>7. Waiting(queue[l], p) => SleepAt(l)[p] \in Asleep BY <1>6 DEF InLine
<1> HIDE DEF Item
<1> QED BY <1>3, <1>4, <1>5, <1>6, <1>7, LineStep

LEMMA ReaderLine ==
    ASSUME Types, LineInv, NEW p \in Procs, Reader(p) PROVE LineInv'
<1>1. /\ UNCHANGED file /\ pc[p] \in ReadPlaces /\ pc'[p] \in ReadPlaces /\ file[p] \in Lists
      /\ \A q \in Procs : q # p => pc'[q] = pc[q]
  BY ReaderProcs
<1> SUFFICES ASSUME NEW l \in Lists PROVE InLine(queue'[l], SleepAt(l)') BY DEF LineInv
<1>2. /\ \A q \in Procs : q # p => SleepAt(l)'[q] = SleepAt(l)[q]
      /\ SleepAt(l)[p] = IF file[p] = l THEN pc[p] ELSE "idle"
      /\ SleepAt(l)'[p] = IF file[p] = l THEN pc'[p] ELSE "idle"
  BY <1>1 DEF SleepAt, ReadPlaces, MeetPlaces
<1>3. /\ queue \in [Lists -> Semaphores(Procs)] /\ pc \in [Procs -> ReadPlaces \cup OpenPlaces]
  BY DEF Types, WaitTypes, ProcTypes
<1>4. InLine(queue[l], SleepAt(l)) BY DEF LineInv
<1>5. Waiting(queue[l], p) => SleepAt(l)[p] \in Asleep BY <1>4 DEF InLine
<1>6. \/ queue'[l] = queue[l] /\ (Waiting(queue[l], p) => SleepAt(l)'[p] \in Asleep)
      \/ /\ queue'[l] = Down(queue[l], p)
         /\ SleepAt(l)[p] \notin Asleep /\ SleepAt(l)'[p] \in Asleep
      \/ queue'[l] = Cancel(queue[l], p) /\ Waiting(queue[l], p)
  <2> USE <1>1, <1>2, <1>3, <1>5 DEF Asleep, Goto, LockList, Granted, sleepq
  <2>1. CASE Sleep(p) BY <2>1 DEF Sleep
  <2>2. CASE Interrupt(p)
    BY <2>2 DEF Interrupt, InterruptTest, InterruptSleep, InterruptClean
  <2>3. CASE WakeUp(p) BY <2>3 DEF WakeUp
  <2>4. CASE CallRead(p) \/ Count(p) \/ Counted(p) \/ Copy(p) \/ CleanLock(p) \/ Clean(p)
               \/ Uncount(p) \/ Uncounted(p)
    BY <2>4 DEF CallRead, Count, Counted, Copy, CleanLock, Clean, Uncount, Uncounted
  <2> QED BY <2>1, <2>2, <2>3, <2>4 DEF Reader, ReadStep
<1> QED BY <1>2, <1>3, <1>4, <1>6, LineStep

LEMMA OpenerLine ==
    ASSUME Types, OpenTypes, LineInv, NEW p \in Procs, Opener(p) PROVE LineInv'
<1> SUFFICES ASSUME NEW l \in Lists PROVE InLine(queue'[l], SleepAt(l)') BY DEF LineInv
<1>1. /\ queue \in [Lists -> Semaphores(Procs)] /\ pc \in [Procs -> ReadPlaces \cup OpenPlaces]
      /\ file \in [Procs -> 0 .. NLists] /\ Odd \in Lists
  BY TwoLists DEF Types, WaitTypes, ProcTypes
<1>2. \A q \in Procs : q # p => SleepAt(l)'[q] = SleepAt(l)[q] BY OpenerProcs DEF SleepAt
<1>3. InLine(queue[l], SleepAt(l)) BY DEF LineInv
<1> DEFINE was == IF pc[p] \in MeetPlaces THEN IF l = Odd THEN pc[p] ELSE "idle"
                  ELSE IF file[p] = l THEN pc[p] ELSE "idle"
           is == IF pc'[p] \in MeetPlaces THEN IF l = Odd THEN pc'[p] ELSE "idle"
                 ELSE IF file'[p] = l THEN pc'[p] ELSE "idle"
<1>4. /\ SleepAt(l)[p] = was /\ SleepAt(l)'[p] = is
      /\ Waiting(queue[l], p) => was \in Asleep
  BY <1>3 DEF SleepAt, InLine
<1>5. \/ queue'[l] = queue[l] /\ (Waiting(queue[l], p) => is \in Asleep)
      \/ queue'[l] = Down(queue[l], p) /\ was \notin Asleep /\ is \in Asleep
      \/ queue'[l] = Up(queue[l]) /\ (Waiting(queue[l], p) => is \in Asleep)
      \/ queue'[l] = Cancel(queue[l], p) /\ Waiting(queue[l], p)
  <2> USE <1>1, <1>4 DEF Asleep, MeetPlaces, Goto, Granted, sleepq
  <2>1. CASE Counting(p) \/ Closing(p) \/ Cleaning(p)
    <3>1. queue' = queue BY <2>1, OpenerFrames
    <3>2. pc[p] \notin MeetPlaces \cup Asleep
      BY <2>1 DEF Counting, Closing, Cleaning, OpenLook, OpenTest, LoadUsers, OpenCount, OpenInit,
         ReleaseTimer, ReleaseFlush, ReleaseReset, ReleaseCount, ReleaseLock, Release,
         InterruptRelease
    <3> QED BY <3>1, <3>2
  <2>2. CASE Meet(p) \/ LoadWaiting(p) \/ Join(p) \/ Unmeet(p)
    <3>1. queue' = queue BY <2>2 DEF Meet, LoadWaiting, Join, Unmeet
    <3>2. pc[p] \notin Asleep BY <2>2 DEF Meet, LoadWaiting, Join, Unmeet
    <3> QED BY <3>1, <3>2
  <2>3. CASE MeetSleep(p) BY <2>3 DEF MeetSleep
  <2>4. CASE Met(p) BY <2>4 DEF Met
  <2>5. CASE Answer(p) BY <2>5 DEF Answer
  <2>6. CASE InterruptMeet(p) BY <2>6 DEF InterruptMeet
  <2> QED BY <2>1, <2>2, <2>3, <2>4, <2>5, <2>6, OpenerFrames DEF Moving, Meeting
<1>6. \/ queue'[l] = queue[l] /\ (Waiting(queue[l], p) => SleepAt(l)'[p] \in Asleep)
      \/ /\ queue'[l] = Down(queue[l], p)
         /\ SleepAt(l)[p] \notin Asleep /\ SleepAt(l)'[p] \in Asleep
      \/ queue'[l] = Up(queue[l]) /\ (Waiting(queue[l], p) => SleepAt(l)'[p] \in Asleep)
      \/ queue'[l] = Cancel(queue[l], p) /\ Waiting(queue[l], p)
  <2> HIDE DEF was, is
  <2> QED BY <1>4, <1>5
<1> HIDE DEF was, is
<1>7. queue[l] \in Semaphores(Procs) BY <1>1
<1> QED BY <1>2, <1>3, <1>6, <1>7, LineStep

\* Who reads which list, and what even and odd say of it.
LEMMA OpenerReaders ==
    ASSUME Types, OpenTypes, ReadersCounted, CodeHasReader, ListHasReader,
           NEW p \in Procs, Opener(p)
    PROVE  OpenTypes' /\ ReadersCounted' /\ CodeHasReader' /\ ListHasReader'
<1> USE DEF lists, sleepq, config, procs, clock, opening, history
<1>1. /\ users \in [Lists -> Int] /\ file \in [Procs -> 0 .. NLists] /\ reg \in [Procs -> Int]
      /\ pc \in [Procs -> ReadPlaces \cup OpenPlaces]
      /\ leaked \in BOOLEAN /\ miscounted \in BOOLEAN /\ overtaken \in BOOLEAN
      /\ mylist \in [Lists -> Seq(CodeSet)] /\ opens \in Nat
      /\ pc[p] # "idle" => file[p] \in Lists
  BY DEF Types, OpenTypes, ProcTypes, ListTypes
<1>2. /\ \A q \in Procs : q # p => pc'[q] = pc[q] /\ file'[q] = file[q]
      /\ UNCHANGED <<work, sorted>> /\ \A l : Underway(l)' = Underway(l)
  BY OpenerProcs, OpenerFrames DEF Underway
<1>3. \A l : IsFiniteSet(ReadersOf(l))
  BY CodeTimerAssumption, FS_Subset DEF ReadersOf
<1>4. CASE OpenCount(p)
  <2> DEFINE m == IF pc[p] = "addeven" THEN 1 ELSE Odd
  <2>1. /\ m \in Lists /\ users' = [users EXCEPT ![m] = reg[p] + 1] /\ pc'[p] = "init"
        /\ pc[p] \in {"addeven", "addodd"}
        /\ UNCHANGED <<file, mylist, opens, leaked, overtaken>>
    BY <1>1, <1>4, TwoLists DEF OpenCount, StoreUsers, Goto
  <2>2. miscounted' = (miscounted \/ Miscounts(p, m)) BY <1>4, Zenon DEF OpenCount
  <2> HIDE DEF m
  <2>3. ~miscounted' => ~miscounted /\ users[m] = reg[p] /\ file[p] = m
    BY <2>2, Zenon DEF Miscounts
  <2>4. miscounted' \in BOOLEAN BY <2>2, Zenon
  <2>5. OpenTypes' BY <1>1, <1>2, <2>1, <2>4 DEF OpenTypes
  <2>6. \A l : ReadersOf(l)' = IF l = file[p] THEN ReadersOf(l) \cup {p} ELSE ReadersOf(l)
    BY <1>1, <1>2, <2>1 DEF ReadersOf, Unlisted
  <2>7. p \notin ReadersOf(m) BY <2>1 DEF ReadersOf, Unlisted
  <2>8. ReadersCounted'
    <3> SUFFICES ASSUME ~leaked', ~miscounted', NEW l \in Lists
                 PROVE  users'[l] = Cardinality(ReadersOf(l)')
      BY DEF ReadersCounted, Wrong
    <3>1. Cardinality(ReadersOf(m) \cup {p}) = Cardinality(ReadersOf(m)) + 1
      BY <1>3, <2>7, FS_AddElement
    <3>2. users[l] = Cardinality(ReadersOf(l)) BY <2>1, <2>3 DEF ReadersCounted, Wrong
    <3> QED BY <1>1, <2>1, <2>3, <2>6, <3>1, <3>2
  <2>9. CodeHasReader' BY <1>2, <2>1, <2>3, <2>6 DEF CodeHasReader, Wrong
  <2>10. ListHasReader' BY <2>1, <2>3 DEF ListHasReader
  <2> QED BY <2>5, <2>8, <2>9, <2>10
<1>5. CASE ReleaseCount(p)
  <2> DEFINE m == file[p]
  <2>1. /\ m \in Lists /\ users' = [users EXCEPT ![m] = reg[p] + -1] /\ pc'[p] = "wipe"
        /\ pc[p] = "dropping" /\ UNCHANGED <<file, mylist, opens, leaked>>
    BY <1>1, <1>5 DEF ReleaseCount, StoreUsers, Goto
  <2>2. /\ miscounted' = (miscounted \/ Miscounts(p, m))
        /\ overtaken' = (overtaken \/ (reg[p] = 1 /\ Underway(m)))
    BY <1>5, Zenon DEF ReleaseCount
  <2>3. ~miscounted' => ~miscounted /\ users[m] = reg[p] BY <2>2, Zenon DEF Miscounts
  <2>4. ~overtaken' => ~overtaken /\ ~(reg[p] = 1 /\ Underway(m)) BY <2>2, Zenon
  <2>5. miscounted' \in BOOLEAN /\ overtaken' \in BOOLEAN BY <2>2, Zenon
  <2>6. OpenTypes' BY <1>1, <1>2, <2>1, <2>5 DEF OpenTypes
  <2>7. \A l : ReadersOf(l)' = ReadersOf(l) \ {p} /\ (l # m => ReadersOf(l)' = ReadersOf(l))
    BY <1>1, <1>2, <2>1 DEF ReadersOf, Unlisted
  <2>8. p \in ReadersOf(m) BY <2>1 DEF ReadersOf, Unlisted
  <2> HIDE DEF m
  <2>9. ReadersCounted'
    <3> SUFFICES ASSUME ~leaked', ~miscounted', NEW l \in Lists
                 PROVE  users'[l] = Cardinality(ReadersOf(l)')
      BY DEF ReadersCounted, Wrong
    <3>1. Cardinality(ReadersOf(m) \ {p}) = Cardinality(ReadersOf(m)) - 1
      BY <1>3, <2>8, FS_RemoveElement
    <3>2. users[l] = Cardinality(ReadersOf(l)) BY <2>1, <2>3 DEF ReadersCounted, Wrong
    <3> QED BY <1>1, <2>1, <2>3, <2>7, <3>1, <3>2
  <2>10. CodeHasReader'
    <3> SUFFICES ASSUME ~leaked', ~miscounted', ~overtaken', NEW l \in Lists, Underway(l)
                 PROVE  ReadersOf(l)' # {}
      BY <1>2 DEF CodeHasReader, Wrong
    <3>1. CASE l # m
      BY <2>1, <2>3, <2>4, <2>7, <3>1 DEF CodeHasReader, Wrong
    <3>2. CASE l = m
      <4>1. reg[p] # 1 BY <2>4, <3>2
      <4>2. users'[l] # 0 BY <1>1, <2>1, <3>2, <4>1
      <4>3. users'[l] = Cardinality(ReadersOf(l)') BY <2>9 DEF ReadersCounted, Wrong
      <4> QED BY <3>2, <4>2, <4>3, FS_EmptySet
    <3> QED BY <3>1, <3>2
  <2>11. ListHasReader' BY <2>1, <2>3, <2>4 DEF ListHasReader
  <2> QED BY <2>6, <2>9, <2>10, <2>11
<1>6. CASE Unmeet(p)
  <2>1. leaked' /\ leaked' \in BOOLEAN /\ UNCHANGED <<users, opens, miscounted, overtaken>>
    BY <1>6 DEF Unmeet
  <2> QED BY <1>1, <1>2, <2>1
    DEF OpenTypes, ReadersCounted, CodeHasReader, ListHasReader, Wrong
<1>7. CASE Release(p)
  <2> DEFINE m == file[p]
  <2>1. /\ m \in Lists /\ file' = [file EXCEPT ![p] = 0] /\ mylist' = [mylist EXCEPT ![m] = << >>]
        /\ pc[p] = "wiping" /\ pc'[p] = "idle"
        /\ UNCHANGED <<users, opens, leaked, miscounted, overtaken>>
    BY <1>1, <1>7 DEF Release, Granted, Cleaned, Goto
  <2>2. \A l \in Lists : ReadersOf(l)' = ReadersOf(l)
    BY <1>1, <1>2, <2>1, TwoLists DEF ReadersOf, Unlisted
  <2>3. OpenTypes' BY <1>1, <1>2, <2>1 DEF OpenTypes
  <2>4. ReadersCounted' BY <2>1, <2>2 DEF ReadersCounted, Wrong
  <2>5. CodeHasReader' BY <1>2, <2>1, <2>2 DEF CodeHasReader, Wrong
  <2>6. ListHasReader'
    <3> SUFFICES ASSUME NEW l \in Lists, mylist'[l] # << >>, ~(leaked \/ miscounted \/ overtaken)
                 PROVE  \E q \in Procs : file'[q] = l
      BY <2>1 DEF ListHasReader
    <3>1. l # m /\ mylist[l] # << >> BY <1>1, <2>1
    <3> QED BY <1>1, <2>1, <3>1 DEF ListHasReader
  <2> QED BY <2>3, <2>4, <2>5, <2>6
<1>8. CASE OpenLook(p)
  <2>1. /\ file[p] = 0 /\ pc'[p] = "claim"
        /\ opens' = opens + 1 /\ UNCHANGED <<users, mylist, leaked, miscounted, overtaken>>
    BY <1>1, <1>8 DEF OpenLook, Goto
  <2>2. \A l \in Lists : ReadersOf(l)' = ReadersOf(l)
    BY <1>2, <2>1, TwoLists DEF ReadersOf, Unlisted
  <2>3. opens' \in Nat BY <1>1, <2>1
  <2>4. OpenTypes' BY <1>1, <1>2, <2>1, <2>3 DEF OpenTypes
  <2>5. ReadersCounted' BY <2>1, <2>2 DEF ReadersCounted, Wrong
  <2>6. CodeHasReader' BY <1>2, <2>1, <2>2 DEF CodeHasReader, Wrong
  <2>7. ListHasReader' BY <1>2, <2>1, TwoLists DEF ListHasReader
  <2> QED BY <2>4, <2>5, <2>6, <2>7
<1>9. CASE ~(OpenLook(p) \/ OpenCount(p) \/ ReleaseCount(p) \/ Unmeet(p) \/ Release(p))
  <2>1. /\ UNCHANGED <<users, opens, leaked, miscounted, overtaken, file, mylist>>
        /\ pc[p] \in Unlisted <=> pc'[p] \in Unlisted
    <3> USE DEF Unlisted, Goto, Granted, LockList
    <3>1. CASE OpenTest(p) \/ LoadUsers(p) \/ OpenInit(p)
      BY <1>1, <3>1 DEF OpenTest, LoadUsers, OpenInit
    <3>2. CASE Meet(p) \/ Join(p) \/ MeetSleep(p) \/ Met(p) \/ Answer(p) \/ InterruptMeet(p)
      BY <1>1, <3>2 DEF Meet, Join, MeetSleep, Met, Answer, InterruptMeet
    <3>3. CASE LoadWaiting(p)
      <4>1. pc'[p] \in {"joining", "answering", "unmeeting"} BY <1>1, <3>3 DEF LoadWaiting
      <4> QED BY <3>3, <4>1 DEF LoadWaiting
    <3>4. CASE ReleaseTimer(p) \/ ReleaseFlush(p) \/ ReleaseReset(p)
      BY <1>1, <3>4 DEF ReleaseTimer, ReleaseFlush, ReleaseReset
    <3>5. CASE ReleaseLock(p) \/ InterruptRelease(p)
      BY <1>1, <3>5 DEF ReleaseLock, InterruptRelease
    <3> QED BY <1>9, <3>1, <3>2, <3>3, <3>4, <3>5 DEF Opener, OpenStep, ReleaseStep
  <2>2. \A l : ReadersOf(l)' = ReadersOf(l) BY <1>2, <2>1 DEF ReadersOf
  <2> QED BY <1>1, <1>2, <2>1, <2>2
    DEF OpenTypes, ReadersCounted, CodeHasReader, ListHasReader, Wrong
<1> QED BY <1>4, <1>5, <1>6, <1>7, <1>8, <1>9

LEMMA InitEvenOdd == EvenOddInit => EvenOddInv
<1> SUFFICES ASSUME EvenOddInit PROVE EvenOddInv OBVIOUS
<1>1. Types /\ QueueInv /\ LineInv BY InitTypes, InitQueue, InitLine DEF EvenOddInit
<1>2. /\ file = [p \in Procs |-> 0] /\ pc = [p \in Procs |-> "idle"]
      /\ mylist = [l \in Lists |-> << >>] /\ work.state = "idle"
      /\ users = [l \in Lists |-> 0] /\ sorted = 0 /\ opens = 0
  BY DEF EvenOddInit, Init, NoWork
<1>3. OpenTypes
  <2>1. leaked \in BOOLEAN /\ miscounted \in BOOLEAN /\ overtaken \in BOOLEAN
    BY Zenon DEF EvenOddInit
  <2> QED BY <1>2, <2>1, EvenOddAssumption DEF OpenTypes
<1>4. CodeHasReader /\ ListHasReader
  BY <1>2, TwoLists DEF CodeHasReader, ListHasReader, Underway
<1>5. ReadersCounted
  <2>1. \A l \in Lists : ReadersOf(l) = {} BY <1>2, TwoLists DEF ReadersOf
  <2> QED BY <1>2, <2>1, FS_EmptySet DEF ReadersCounted
<1>6. Busy
  <2>1. jobFinished BY DEF EvenOddInit, Init
  <2> QED BY <1>2, <2>1 DEF Busy
<1> QED BY <1>1, <1>3, <1>4, <1>5, <1>6 DEF EvenOddInv

\* A step that leaves the files alone, and sends a code to a list only if it has a reader.
LEMMA SameReaders ==
    ASSUME EvenOddInv, UNCHANGED <<users, leaked, miscounted, overtaken, file>>,
           \A l \in Lists : ReadersOf(l)' = ReadersOf(l),
           \A l \in Lists : Underway(l)' => Underway(l) \/ users[l] # 0,
           \A l \in Lists : mylist'[l] # << >> => mylist[l] # << >> \/ Underway(l)
    PROVE  ReadersCounted' /\ CodeHasReader' /\ ListHasReader'
<1> USE DEF EvenOddInv
<1>1. ReadersCounted' BY DEF ReadersCounted, Wrong
<1>2. CodeHasReader'
  <2> SUFFICES ASSUME ~Wrong, ~overtaken, NEW l \in Lists, Underway(l)' PROVE ReadersOf(l) # {}
    BY DEF CodeHasReader, Wrong
  <2>1. CASE Underway(l) BY <2>1 DEF CodeHasReader
  <2>2. CASE users[l] # 0 BY <2>2, FS_EmptySet DEF ReadersCounted
  <2> QED BY <2>1, <2>2
<1>3. ListHasReader'
  <2> SUFFICES ASSUME NEW l \in Lists, mylist'[l] # << >>, ~Wrong, ~overtaken
               PROVE  \E q \in Procs : file[q] = l
    BY DEF ListHasReader, Wrong
  <2>1. CASE mylist[l] # << >> BY <2>1 DEF ListHasReader, Wrong
  <2>2. CASE Underway(l) BY <2>2 DEF CodeHasReader, ReadersOf
  <2> QED BY <2>1, <2>2
<1> QED BY <1>1, <1>2, <1>3

LEMMA SameFiles == UNCHANGED <<file, pc>> => \A l \in Lists : ReadersOf(l)' = ReadersOf(l)
BY DEF ReadersOf

\* The steps of the work item, with what they do to the code that it handles.
LEMMA ItemReaders ==
    ASSUME EvenOddInv, Item, UNCHANGED <<users, opens, history>>, sorted' \in 0 .. NLists,
           sorted' # 0 => work'.state = "copy",
           \A l \in Lists : Underway(l)' => Underway(l) \/ users[l] # 0
    PROVE  EvenOddInv'
<1>1. Types' /\ QueueInv' /\ LineInv' BY ItemTypes, ItemQueue, ItemLine DEF EvenOddInv
<1>2. UNCHANGED procs
  BY DEF Item, WorkTake, WorkAppend, WorkCopy, WorkWake, WorkUp, WorkDone
<1>3. \A l \in Lists : mylist'[l] = mylist[l] \/ Underway(l)
  <2>1. CASE WorkAppend BY <2>1 DEF WorkAppend, Underway, EvenOddInv, Types, ListTypes
  <2>2. CASE UNCHANGED mylist BY <2>2
  <2> QED BY <2>1, <2>2 DEF Item, WorkTake, WorkCopy, WorkWake, WorkUp, WorkDone, lists
<1>4. OpenTypes' BY DEF EvenOddInv, OpenTypes, history
<1>5. Busy'
  <2>1. work.state # "idle"
    BY DEF Item, WorkTake, WorkAppend, WorkCopy, WorkWake, WorkUp, WorkDone
  <2>2. CASE WorkDone BY <2>2 DEF WorkDone, Busy, NoWork
  <2>3. CASE ~WorkDone
    <3>1. work'.state # "idle" BY <2>3, ItemWork DEF EvenOddInv
    <3>2. UNCHANGED jobFinished
      BY <2>3 DEF Item, WorkTake, WorkAppend, WorkCopy, WorkWake, WorkUp, clock
    <3> QED BY <2>1, <3>1, <3>2 DEF EvenOddInv, Busy
  <2> QED BY <2>2, <2>3
<1>6. ReadersCounted' /\ CodeHasReader' /\ ListHasReader'
  BY <1>2, <1>3, SameReaders, SameFiles DEF procs, history
<1> QED BY <1>1, <1>4, <1>5, <1>6 DEF EvenOddInv

LEMMA NextEvenOdd == EvenOddInv /\ [EvenOddNext]_allvars => EvenOddInv'
<1> SUFFICES ASSUME EvenOddInv, [EvenOddNext]_allvars PROVE EvenOddInv' OBVIOUS
<1>1. ASSUME UNCHANGED <<vars, users, opens, leaked, miscounted, overtaken>>,
             sorted' = sorted \/ \E l \in Lists : sorted' = l /\ HasUsers(l) /\ work.state = "copy"
      PROVE  EvenOddInv'
  <2> USE <1>1 DEF vars, lists, sleepq, config, procs, clock
  <2>1. Types'
    BY DEF EvenOddInv, Types, ListTypes, WaitTypes, LockTypes, ProcTypes, BufferTypes, WorkTypes
  <2>2. QueueInv'
    <3>1. \A l \in Lists : SleepAt(l)' = SleepAt(l) BY DEF SleepAt
    <3> QED BY <3>1, SameQueue DEF EvenOddInv
  <2>3. LineInv' /\ Busy' BY SameLine DEF EvenOddInv, Busy
  <2>4. OpenTypes' BY TwoLists DEF EvenOddInv, OpenTypes
  <2>5. \A l \in Lists : Underway(l)' => Underway(l) \/ users[l] # 0
    BY DEF Underway, HasUsers
  <2> QED BY <2>1, <2>2, <2>3, <2>4, <2>5, SameReaders, SameFiles DEF EvenOddInv
<1>2. ASSUME Timer, UNCHANGED opening PROVE EvenOddInv'
  <2>1. UNCHANGED <<lists, sleepq, procs>>
    BY <1>2 DEF Timer, FirePut, FireTest, FireQueue, ConfigThreshold, ConfigFormat
  <2>2. Types' BY <1>2, TimerTypes DEF EvenOddInv
  <2>3. QueueInv' /\ LineInv'
    <3>1. \A l \in Lists : SleepAt(l)' = SleepAt(l) BY <2>1 DEF SleepAt, procs
    <3> QED BY <2>1, <3>1, SameQueue, SameLine DEF EvenOddInv, procs, sleepq
  <2>4. \/ UNCHANGED <<jobFinished, work>>
        \/ work.state = "idle" /\ work'.state = "queued" /\ ~jobFinished'
    <3>1. work \in WorkItems BY DEF EvenOddInv, Types, WorkTypes, WorkOK
    <3> QED BY <1>2, <3>1
      DEF Timer, FirePut, FireTest, FireQueue, ConfigThreshold, ConfigFormat, WorkItems, clock,
          EvenOddInv, Busy
  <2>5. Busy' BY <2>4 DEF EvenOddInv, Busy
  <2>6. OpenTypes' BY <1>2, <2>4 DEF EvenOddInv, OpenTypes, opening, history
  <2>7. \A l \in Lists : Underway(l)' => Underway(l) BY <1>2, <2>4 DEF Underway, opening
  <2>8. ReadersCounted' /\ CodeHasReader' /\ ListHasReader'
    BY <1>2, <2>1, <2>7, SameReaders, SameFiles DEF opening, history, procs, lists
  <2> QED BY <2>2, <2>3, <2>5, <2>6, <2>8 DEF EvenOddInv
<1>3. ASSUME Item, work'.state # "append", UNCHANGED opening PROVE EvenOddInv'
  <2>1. work.state # "copy" \/ sorted = 0
    <3>1. ASSUME NEW l \in Lists, WorkCopy(l) PROVE FALSE
      BY <1>3, <3>1 DEF WorkCopy, EvenOddInv, Types, WorkTypes, WorkOK, WorkItems
    <3> QED BY <1>3, <3>1 DEF Item, WorkTake, WorkAppend, WorkWake, WorkUp, WorkDone
  <2>2. sorted = 0 BY <2>1 DEF EvenOddInv, OpenTypes
  <2>3. \A l \in Lists : ~Underway(l)' BY <1>3, <2>2, TwoLists DEF Underway, opening
  <2>4. sorted' = 0 /\ 0 \in 0 .. NLists BY <1>3, <2>2, EvenOddAssumption DEF opening
  <2> QED BY <1>3, <2>3, <2>4, ItemReaders DEF opening
<1>4. ASSUME NEW l \in Lists, WorkCopy(l), sorted = l, sorted' = 0, UNCHANGED <<users, opens, history>>
      PROVE  EvenOddInv'
  <2>1. Item BY <1>4 DEF Item
  <2>2. work'.state = "append" /\ work'.l = l
    BY <1>4 DEF WorkCopy, EvenOddInv, Types, WorkTypes, WorkOK, WorkItems
  <2>3. \A k \in Lists : Underway(k)' => Underway(k) BY <1>4, <2>2, TwoLists DEF Underway
  <2>4. 0 \in 0 .. NLists BY EvenOddAssumption
  <2> QED BY <1>4, <2>1, <2>3, <2>4, ItemReaders
<1>5. ASSUME Drop, sorted = 0, UNCHANGED opening PROVE EvenOddInv'
  <2>1. Types' /\ work'.state \notin {"append", "idle"} BY <1>5, DropTypes DEF EvenOddInv
  <2>2. UNCHANGED <<lists, sleepq, procs, jobFinished>> BY <1>5 DEF Drop, clock
  <2>3. QueueInv' /\ LineInv'
    <3>1. \A l \in Lists : SleepAt(l)' = SleepAt(l) BY <2>2 DEF SleepAt, procs
    <3> QED BY <2>2, <3>1, SameQueue, SameLine DEF EvenOddInv, procs, sleepq
  <2>4. Busy' BY <1>5, <2>1, <2>2 DEF EvenOddInv, Busy, Drop
  <2>5. OpenTypes' BY <1>5 DEF EvenOddInv, OpenTypes, opening, history
  <2>6. \A l \in Lists : ~Underway(l)' BY <1>5, <2>1, TwoLists DEF Underway, opening
  <2>7. ReadersCounted' /\ CodeHasReader' /\ ListHasReader'
    BY <1>5, <2>2, <2>6, SameReaders, SameFiles DEF opening, history, procs, lists
  <2> QED BY <2>1, <2>3, <2>4, <2>5, <2>7 DEF EvenOddInv
<1>6. ASSUME NEW p \in Procs, Reader(p), UNCHANGED counts PROVE EvenOddInv'
  <2>1. Types' /\ QueueInv' /\ LineInv'
    BY <1>6, ReaderTypes, ReaderQueue, ReaderLine DEF EvenOddInv
  <2>2. /\ UNCHANGED file /\ pc[p] \in ReadPlaces /\ pc'[p] \in ReadPlaces
        /\ \A q \in Procs : q # p => pc'[q] = pc[q]
    BY <1>6, ReaderProcs DEF EvenOddInv
  <2>3. \A l \in Lists : ReadersOf(l)' = ReadersOf(l)
    BY <2>2 DEF ReadersOf, ReadPlaces, Unlisted
  <2>4. UNCHANGED <<work, clock>> /\ \A l \in Lists : mylist'[l] # << >> => mylist[l] # << >>
    BY <1>6 DEF Reader, ReadStep, CallRead, Count, Counted, Sleep, WakeUp, Copy, CleanLock, Clean,
         Uncount, Uncounted, Interrupt, InterruptTest, InterruptSleep, InterruptClean, lists,
         Cleaned, EvenOddInv, Types, ListTypes
  <2>5. Busy' /\ OpenTypes' BY <1>6, <2>4 DEF EvenOddInv, Busy, OpenTypes, counts, clock
  <2>6. \A l \in Lists : Underway(l)' => Underway(l) BY <1>6, <2>4 DEF Underway, counts
  <2>7. ReadersCounted' /\ CodeHasReader' /\ ListHasReader'
    BY <1>6, <2>2, <2>3, <2>4, <2>6, SameReaders DEF counts
  <2> QED BY <2>1, <2>5, <2>7 DEF EvenOddInv
<1>7. ASSUME NEW p \in Procs, Opener(p) PROVE EvenOddInv'
  <2>1. Busy' BY <1>7, OpenerFrames DEF EvenOddInv, Busy
  <2> QED BY <1>7, <2>1, OpenerTypes, OpenerQueue, OpenerLine, OpenerReaders DEF EvenOddInv
<1>8. CASE UNCHANGED allvars BY <1>1, <1>8 DEF allvars, opening, history
<1>9. ASSUME NEW l \in Lists, Choose(l) PROVE EvenOddInv'
  BY <1>1, <1>9 DEF Choose, history
<1>10. CASE EvenOddNext
  <2> HIDE DEF EvenOddInv
  <2>1. Types /\ OpenTypes BY DEF EvenOddInv
  <2> QED BY <1>2, <1>3, <1>4, <1>5, <1>6, <1>7, <1>9, <1>10, <2>1, EvenOddSteps
<1> QED BY <1>8, <1>10

LEMMA EvenOddInvariance == EvenOddSpec => []EvenOddInv
BY InitEvenOdd, NextEvenOdd, PTL DEF EvenOddSpec

\* waiting_odd answers for the readers of the odd list and for the openers that
\* wait for the other file, as long as no update of it is lost.
THEOREM OddWaitIsAccounted == EvenOddSpec => []OddWaitAccounting
<1>1. EvenOddInv => OddWaitAccounting
  <2> SUFFICES ASSUME EvenOddInv, ~raced
               PROVE  waiting[Odd] + queue[Odd].count
                        = Cardinality(Registered(Odd)) + Cardinality(Openers)
    BY DEF OddWaitAccounting
  <2>1. QueueAccount(Procs, queue[Odd], SleepAt(Odd), Marked, Asleep, waiting[Odd])
    BY TwoLists DEF EvenOddInv, QueueInv, Sleepers
  <2>2. InQueue(Procs, queue[Odd], SleepAt(Odd), Marked, Asleep) = Registered(Odd) \cup Openers
    BY DEF InQueue, SleepAt, Marked, Asleep, MeetPlaces, Registered, Openers
  <2>3. Registered(Odd) \cap Openers = {} BY DEF Registered, Openers
  <2>4. IsFiniteSet(Registered(Odd)) /\ IsFiniteSet(Openers)
    BY CodeTimerAssumption, FS_Subset DEF Registered, Openers
  <2>5. Cardinality(Registered(Odd) \cup Openers)
          = Cardinality(Registered(Odd)) + Cardinality(Openers)
    <3>1. /\ Cardinality(Registered(Odd)) \in Nat /\ Cardinality(Openers) \in Nat
          /\ Cardinality(Registered(Odd) \cap Openers) = 0
      BY <2>3, <2>4, FS_CardinalityType, FS_EmptySet
    <3>2. Cardinality(Registered(Odd) \cup Openers)
            = Cardinality(Registered(Odd)) + Cardinality(Openers)
                - Cardinality(Registered(Odd) \cap Openers)
      BY <2>4, FS_Union
    <3> QED BY <3>1, <3>2
  <2> QED BY <2>1, <2>2, <2>5 DEF QueueAccount
<1> QED BY <1>1, EvenOddInvariance, PTL

\* A list has codes only while a file that reads it is open, unless an open() has failed
\* after it was counted, even or odd no longer counts the readers, or the last reader
\* left while a code was on its way.
THEOREM ListsHaveReaders == EvenOddSpec => []ListHasReader
BY EvenOddInvariance, PTL DEF EvenOddInv
-----------------------------------------------------------------------------
(* The first meeting of the openers in CodeTimerEvenOdd. *)

\* The processes that open or have a file.
Active == {p \in Procs : file[p] # 0}

\* No file was closed, and nothing of what FirstMeeting excludes has happened.
Fresh == /\ opens = Cardinality(Active) /\ (\A p \in Procs : pc[p] \notin Closers)
         /\ ~stolen /\ ~crossed /\ signals = 0

\* The openers on the way into the queue or in it, and those that have found nobody
\* and are not counted yet.
Joined == {p \in Procs : pc[p] \in {"premeet", "meeting"}}
Passed == {p \in Procs : pc[p] \in {"join", "joining"}}
Answering == {"answer", "answering"}
Arriving == {"claim", "addeven", "loadodd", "addodd", "init", "meet", "join", "joining",
             "premeet", "meeting"} \cup Answering

\* A unit has been raised, and an opener has it or will find it.
Served == \/ \E p \in Procs : pc[p] = "meeting" /\ ~Waiting(queue[Odd], p)
          \/ queue[Odd].count > 0 /\ \E p \in Procs : pc[p] = "premeet"

\* No opener has come through, at most one waits or is about to, and waiting_odd says so.
Unserved ==
    /\ ~raced
    /\ \A p \in Procs : file[p] # 0 => pc[p] \in Arriving
    /\ \A p \in Procs : pc[p] = "meeting" => Waiting(queue[Odd], p)
    /\ queue[Odd].count = 0
    /\ \A p, q \in Joined \cup Passed : p = q
    /\ \A p \in Procs : pc[p] = "joining" => reg[p] = 0
    /\ (\E p \in Procs : pc[p] \in Answering) => Joined # {}

\* Each of them counts once in opens; release() takes no count away.
ActiveInv == opens \in Nat /\ opens >= Cardinality(Active)

\* As long as the meeting is the first and the timer is off, either somebody was answered
\* and has a unit or will find it, or nobody has answered and at most one waits.
MeetInv ==
    /\ ActiveInv
    /\ Fresh /\ timer = "off" => work.state = "idle" /\ (Served \/ Unserved)

\* The steps of EvenOddNext, by who takes them.
Kernel == ((FireOrWork \/ ConfigThreshold) /\ UNCHANGED opening) \/ WorkSort \/ WorkList

LEMMA KernelProcs ==
    ASSUME Kernel
    PROVE  UNCHANGED <<procs, opens, stolen, crossed>> /\ (timer # "off" => timer' # "off")
BY DEF Kernel, FireOrWork, FireRandom, FirePut, FireTest, FireQueue, WorkTake, WorkAppend, WorkWake,
       WorkUp, WorkDone, WorkSort, WorkList, WorkCopy, ConfigThreshold, clock, opening, history

\* Before the timer runs the kernel does nothing.
LEMMA KernelQuiet ==
    ASSUME Kernel, timer = "off", work.state = "idle"
    PROVE  UNCHANGED <<sleepq, work>>
BY DEF Kernel, FireOrWork, FireRandom, FirePut, FireTest, FireQueue, WorkTake, WorkAppend, WorkWake,
       WorkUp, WorkDone, WorkSort, WorkList, WorkCopy, ConfigThreshold

LEMMA KernelMeetInv ==
    ASSUME MeetInv, Kernel PROVE MeetInv'
<1>1. UNCHANGED <<procs, opens, stolen, crossed>> /\ (timer # "off" => timer' # "off")
  BY KernelProcs
<1>2. ActiveInv' BY <1>1 DEF MeetInv, ActiveInv, Active, procs
<1>3. ASSUME Fresh', timer' = "off" PROVE work'.state = "idle" /\ (Served' \/ Unserved')
  <2>1. timer = "off" BY <1>1, <1>3
  <2>2. Fresh BY <1>1, <1>3 DEF Fresh, Active, procs
  <2>3. work.state = "idle" /\ (Served \/ Unserved) BY <2>1, <2>2 DEF MeetInv
  <2>4. UNCHANGED <<sleepq, work>> BY <2>1, <2>3, KernelQuiet
  <2> QED BY <1>1, <2>3, <2>4 DEF Served, Unserved, Joined, Passed, procs, sleepq
<1> QED BY <1>2, <1>3 DEF MeetInv

\* What a reader does not touch.
LEMMA ReaderMeets ==
    ASSUME Types, NEW p \in Procs, ReadOwn(p) \/ SleepOwn(p)
    PROVE  /\ UNCHANGED <<timer, work, opens, crossed>> /\ Reader(p)
           /\ ~stolen' => ~stolen /\ ~(Sleep(p) /\ Steals(p))
           /\ \/ UNCHANGED <<signals, queue>>
              \/ signals' = signals + 1
              \/ Sleep(p) /\ UNCHANGED signals
<1>1. Reader(p) BY DEF ReadOwn, SleepOwn, Reader, ReadStep
<1>2. UNCHANGED <<timer, work, opens, crossed>>
  BY DEF ReadOwn, SleepOwn, CallRead, Count, Counted, Sleep, WakeUp, Copy, CleanLock, Clean,
         Uncount, Uncounted, Interrupt, clock, opening, history
<1>3. \/ UNCHANGED <<signals, queue>> \/ signals' = signals + 1
      \/ Sleep(p) /\ UNCHANGED signals
  BY DEF ReadOwn, SleepOwn, CallRead, Count, Counted, Sleep, WakeUp, Copy, CleanLock, Clean,
         Uncount, Uncounted, Interrupt, sleepq
<1>4. ~stolen' => ~stolen /\ ~(Sleep(p) /\ Steals(p))
  <2>1. CASE SleepOwn(p)
    <3>1. Sleep(p) /\ stolen' = (stolen \/ Steals(p)) BY <2>1 DEF SleepOwn
    <3> QED BY <3>1, Zenon
  <2>2. CASE ReadOwn(p)
    <3>1. ~Sleep(p)
      BY <2>2 DEF ReadOwn, CallRead, Count, Counted, Sleep, WakeUp, Copy, CleanLock, Clean,
         Uncount, Uncounted, Interrupt, InterruptTest, InterruptSleep, InterruptClean,
         Granted, Goto, LockList, Types, ProcTypes
    <3>2. stolen' = stolen BY <2>2 DEF ReadOwn, opening, history
    <3> QED BY <3>1, <3>2
  <2> QED BY <2>1, <2>2
<1> QED BY <1>1, <1>2, <1>3, <1>4

LEMMA ReaderMeetInv ==
    ASSUME EvenOddInv, MeetInv, NEW p \in Procs, ReadOwn(p) \/ SleepOwn(p)
    PROVE  MeetInv'
<1>1. Types BY DEF EvenOddInv
<1>2. /\ UNCHANGED <<timer, work, opens, crossed>> /\ Reader(p)
      /\ ~stolen' => ~stolen /\ ~(Sleep(p) /\ Steals(p))
      /\ \/ UNCHANGED <<signals, queue>>
         \/ signals' = signals + 1
         \/ Sleep(p) /\ UNCHANGED signals
  BY <1>1, ReaderMeets
<1>3. /\ UNCHANGED file /\ pc[p] \in ReadPlaces /\ pc'[p] \in ReadPlaces /\ file[p] \in Lists
      /\ \A q \in Procs : q # p => pc'[q] = pc[q]
  BY <1>1, <1>2, ReaderProcs
<1>4. Active' = Active /\ ActiveInv'
  <2>1. Active' = Active BY <1>3 DEF Active
  <2> QED BY <1>2, <2>1 DEF MeetInv, ActiveInv
<1>5. ASSUME Fresh', timer' = "off" PROVE work'.state = "idle" /\ (Served' \/ Unserved')
  <2>1. signals' = signals /\ signals = 0 /\ (UNCHANGED queue \/ Sleep(p))
    <3>1. signals \in Nat /\ signals' = 0 BY <1>1, <1>5, CodeTimerAssumption DEF Types, ProcTypes, Fresh
    <3>2. signals' # signals + 1 BY <3>1
    <3> QED BY <1>2, <3>1, <3>2
  <2>2. Fresh
    <3>1. \A q \in Procs : pc[q] \notin Closers BY <1>3, <1>5 DEF Fresh, ReadPlaces, Closers
    <3> QED BY <1>2, <1>4, <1>5, <2>1, <3>1 DEF Fresh
  <2>3. work.state = "idle" /\ (Served \/ Unserved) BY <1>2, <1>5, <2>2 DEF MeetInv
  <2>4. ~Unserved BY <1>3, TwoLists DEF Unserved, ReadPlaces, Arriving, Answering
  <2>5. Odd \in Lists /\ queue[Odd] \in Semaphores(Procs) BY <1>1, TwoLists DEF Types, WaitTypes
  <2>6. ~(Sleep(p) /\ Steals(p)) BY <1>2, <1>5 DEF Fresh
  <2>7. CASE Sleep(p) /\ file[p] = Odd
    <3>1. queue'[Odd] = Down(queue[Odd], p)
      BY <1>1, <2>5, <2>7 DEF Sleep, Types, WaitTypes
    <3>2. ~(queue[Odd].count > 0 /\ \E q \in Procs : pc[q] = "premeet")
      BY <2>6, <2>7 DEF Steals
    <3>3. PICK q \in Procs : pc[q] = "meeting" /\ ~Waiting(queue[Odd], q)
      BY <2>3, <2>4, <3>2 DEF Served
    <3>4. q # p /\ pc'[q] = "meeting" BY <1>3, <3>3 DEF ReadPlaces
    <3>5. queue[Odd].count \in Nat BY <2>5 DEF Semaphores
    <3>6. ~Waiting(queue'[Odd], q) BY <2>5, <3>1, <3>3, <3>4, <3>5, DownEffect
    <3> QED BY <1>2, <2>3, <3>4, <3>6 DEF Served
  <2>8. CASE ~(Sleep(p) /\ file[p] = Odd)
    <3>1. queue'[Odd] = queue[Odd]
      BY <1>1, <2>1, <2>5, <2>8 DEF Sleep, Types, WaitTypes
    <3>2. \A q \in Procs : pc[q] \in {"meeting", "premeet"} => pc'[q] = pc[q]
      BY <1>3 DEF ReadPlaces
    <3> QED BY <1>2, <2>3, <2>4, <3>1, <3>2 DEF Served
  <2> QED BY <2>7, <2>8
<1> QED BY <1>4, <1>5 DEF MeetInv

\* The steps of an opener that has a file and neither fails nor closes it.
Advances(p) == \/ OpenTest(p) \/ LoadUsers(p) \/ OpenCount(p) \/ OpenInit(p) \/ Moving(p)
               \/ Join(p) \/ MeetSleep(p) \/ Met(p) \/ Answer(p)

LEMMA OpenerActive ==
    ASSUME EvenOddInv, MeetInv, NEW p \in Procs, Opener(p)
    PROVE  /\ ActiveInv'
           /\ Fresh' => Fresh /\ (OpenLook(p) \/ Advances(p))
<1>1. Types /\ OpenTypes BY DEF EvenOddInv
<1>2. /\ pc \in [Procs -> ReadPlaces \cup OpenPlaces] /\ file \in [Procs -> 0 .. NLists]
      /\ signals \in Nat /\ 0 \notin Lists
      /\ pc[p] # "idle" => file[p] \in Lists
  BY <1>1, TwoLists, CodeTimerAssumption DEF Types, ProcTypes
<1>3. \A q \in Procs : q # p => pc'[q] = pc[q] /\ file'[q] = file[q]
  BY <1>1, OpenerProcs
<1>4. IsFiniteSet(Active) /\ Cardinality(Active) \in Nat
  <2>1. IsFiniteSet(Procs) BY CodeTimerAssumption
  <2>2. IsFiniteSet(Active) BY <2>1, FS_Subset DEF Active
  <2> QED BY <2>2, FS_CardinalityType
<1>5. ActiveInv BY DEF MeetInv
<1> USE DEF Goto, procs, opening, history
<1>6. CASE OpenLook(p)
  <2>1. /\ pc[p] = "idle" /\ p \notin Active /\ opens' = opens + 1 /\ file'[p] # 0
        /\ UNCHANGED <<signals, stolen, crossed>>
    BY <1>2, <1>6, TwoLists DEF OpenLook, Active, Lists
  <2>2. Active' = Active \cup {p} BY <1>3, <2>1 DEF Active
  <2>3. Cardinality(Active') = Cardinality(Active) + 1 BY <1>4, <2>1, <2>2, FS_AddElement
  <2>4. ActiveInv' /\ (opens' = Cardinality(Active') => opens = Cardinality(Active))
    <3> HIDE DEF Active
    <3> DEFINE n == Cardinality(Active)
               m == Cardinality(Active')
    <3>1. m = n + 1 /\ n \in Nat /\ opens \in Nat /\ opens >= n BY <1>4, <1>5, <2>3 DEF ActiveInv
    <3> HIDE DEF n, m
    <3>2. opens' \in Nat /\ opens' >= m /\ (opens' = m => opens = n) BY <2>1, <3>1
    <3> QED BY <3>2 DEF n, m, ActiveInv
  <2>5. ASSUME Fresh' PROVE Fresh
    <3>1. opens' = Cardinality(Active') /\ ~stolen' /\ ~crossed' /\ signals' = 0
      BY <2>5, Zenon DEF Fresh
    <3>2. ~stolen /\ ~crossed /\ signals = 0 BY <2>1, <3>1, Zenon
    <3>3. \A q \in Procs : pc[q] \notin Closers BY <1>3, <2>1, <2>5 DEF Fresh, Closers
    <3> QED BY <2>4, <3>1, <3>2, <3>3, Zenon DEF Fresh
  <2> QED BY <1>6, <2>4, <2>5
<1>7. CASE Advances(p)
  <2>1. UNCHANGED <<opens, signals, stolen, file>> /\ (~crossed' => ~crossed)
    <3>1. CASE Meet(p)
      <4>1. crossed' = (crossed \/ Crosses(p)) BY <3>1, Zenon DEF Meet
      <4>2. ~crossed' => ~crossed BY <4>1, Zenon
      <4> QED BY <3>1, <4>2 DEF Meet
    <3>2. CASE ~Meet(p)
      BY <1>7, <3>2 DEF Advances, Moving, OpenTest, LoadUsers, OpenCount, OpenInit, LoadWaiting,
                        Join, MeetSleep, Met, Answer
    <3> QED BY <3>1, <3>2
  <2>2. Active' = Active BY <2>1 DEF Active
  <2>3. ActiveInv' BY <1>5, <2>1, <2>2 DEF ActiveInv
  <2>4. pc[p] \in Closers => pc'[p] \in Closers
    <3>1. pc[p] \in Closers => LoadUsers(p)
      BY <1>7 DEF Advances, Moving, OpenTest, OpenCount, OpenInit, Meet, LoadWaiting,
                  Join, MeetSleep, Met, Answer, Granted, Closers
    <3>2. LoadUsers(p) /\ pc[p] \in Closers => pc'[p] = "dropping"
      BY <1>2 DEF LoadUsers, Closers
    <3> QED BY <3>1, <3>2 DEF Closers
  <2>5. ASSUME Fresh' PROVE Fresh
    <3>1. opens' = Cardinality(Active') /\ ~stolen' /\ ~crossed' /\ signals' = 0
      BY <2>5, Zenon DEF Fresh
    <3>2. ~stolen /\ ~crossed /\ signals = 0 BY <2>1, <3>1, Zenon
    <3>3. \A q \in Procs : pc[q] \notin Closers BY <1>3, <2>4, <2>5 DEF Fresh
    <3>4. opens = Cardinality(Active) BY <2>1, <2>2, <3>1, Zenon
    <3> QED BY <3>2, <3>3, <3>4, Zenon DEF Fresh
  <2> QED BY <1>7, <2>3, <2>5
<1>8. CASE InterruptMeet(p) \/ InterruptRelease(p)
  <2>1. UNCHANGED <<opens, file>> /\ signals' = signals + 1
    BY <1>8 DEF InterruptMeet, InterruptRelease
  <2>2. Active' = Active BY <2>1 DEF Active
  <2>3. ActiveInv' BY <1>5, <2>1, <2>2 DEF ActiveInv
  <2>4. signals' # 0 BY <1>2, <2>1
  <2> QED BY <2>3, <2>4 DEF Fresh
<1>9. CASE Unmeet(p) \/ Release(p)
  <2>1. UNCHANGED opens /\ file'[p] = 0 /\ pc[p] \in {"unmeeting", "wiping"}
    BY <1>2, <1>9 DEF Unmeet, Release, Granted
  <2>2. p \in Active BY <1>2, <2>1 DEF Active
  <2>3. Active' = Active \ {p} BY <1>3, <2>1 DEF Active
  <2>4. Cardinality(Active') = Cardinality(Active) - 1 BY <1>4, <2>2, <2>3, FS_RemoveElement
  <2>5. ActiveInv' /\ opens' # Cardinality(Active')
    <3> HIDE DEF Active
    <3> DEFINE n == Cardinality(Active)
               m == Cardinality(Active')
    <3>1. m = n - 1 /\ n \in Nat /\ opens \in Nat /\ opens >= n BY <1>4, <1>5, <2>4 DEF ActiveInv
    <3> HIDE DEF n, m
    <3>2. opens' \in Nat /\ opens' >= m /\ opens' # m BY <2>1, <3>1
    <3> QED BY <3>2 DEF n, m, ActiveInv
  <2> QED BY <2>5 DEF Fresh
<1>10. CASE Closing(p) \/ ReleaseLock(p)
  <2>1. UNCHANGED <<opens, file>> /\ pc'[p] \in Closers
    BY <1>2, <1>10 DEF Closing, ReleaseTimer, ReleaseFlush, ReleaseReset, ReleaseCount, ReleaseLock,
                       LockList, Closers
  <2>2. Active' = Active BY <2>1 DEF Active
  <2>3. ActiveInv' BY <1>5, <2>1, <2>2 DEF ActiveInv
  <2> QED BY <2>1, <2>3 DEF Fresh
<1> QED BY <1>6, <1>7, <1>8, <1>9, <1>10, OpenerFrames DEF Advances, Counting, Meeting, Cleaning

\* While nobody is served, waiting_odd counts who waits or is about to.
LEMMA UnservedCount ==
    ASSUME Types, QueueInv, Unserved
    PROVE  waiting[Odd] = Cardinality(Joined) /\ IsFiniteSet(Joined)
<1>1. /\ Odd \in Lists /\ waiting \in [Lists -> Int]
      /\ \A p \in Procs : pc[p] # "idle" => file[p] # 0
  BY TwoLists DEF Types, WaitTypes, ProcTypes
<1>2. waiting[Odd] + queue[Odd].count
        = Cardinality(InQueue(Procs, queue[Odd], SleepAt(Odd), Marked, Asleep))
  BY <1>1 DEF QueueInv, Sleepers, QueueAccount, Unserved
<1>3. \A q \in Procs : pc[q] \in Arriving \/ pc[q] = "idle" BY <1>1 DEF Unserved
<1>4. \A q \in Procs : file[q] = Odd => pc[q] \in Arriving BY DEF Unserved, Odd
<1>5. InQueue(Procs, queue[Odd], SleepAt(Odd), Marked, Asleep) = Joined
  BY <1>3, <1>4
  DEF InQueue, SleepAt, Joined, Marked, Asleep, MeetPlaces, Unserved, Arriving, Answering
<1>6. IsFiniteSet(Joined)
  <2>1. IsFiniteSet(Procs) BY CodeTimerAssumption
  <2> QED BY <2>1, FS_Subset DEF Joined
<1> QED BY <1>1, <1>2, <1>5, <1>6 DEF Unserved

\* A unit that was raised for an opener stays until it is used.
LEMMA ServedStays ==
    ASSUME EvenOddInv, NEW p \in Procs, OpenLook(p) \/ Advances(p), timer' = "off", Served
    PROVE  Served'
<1>1. Types /\ OpenTypes /\ LineInv BY DEF EvenOddInv
<1>2. /\ Odd \in Lists /\ queue \in [Lists -> Semaphores(Procs)]
      /\ pc \in [Procs -> ReadPlaces \cup OpenPlaces]
  BY <1>1, TwoLists DEF Types, WaitTypes, ProcTypes
<1>3. queue[Odd] \in Semaphores(Procs) /\ queue[Odd].count \in Nat BY <1>2 DEF Semaphores
<1>4. InLine(queue[Odd], SleepAt(Odd)) BY <1>1, <1>2 DEF LineInv
<1>5. Opener(p)
  BY DEF Opener, OpenStep, ReleaseStep, Advances, Moving
<1>6. \A q \in Procs : q # p => pc'[q] = pc[q] BY <1>1, <1>5, OpenerProcs
<1> USE DEF Goto
<1>7. CASE MeetSleep(p)
  <2>1. pc[p] = "premeet" /\ pc'[p] = "meeting" /\ queue'[Odd] = Down(queue[Odd], p)
    BY <1>2, <1>7 DEF MeetSleep
  <2>2. ~Waiting(queue[Odd], p)
    BY <1>4, <2>1 DEF InLine, SleepAt, Asleep, MeetPlaces
  <2>3. CASE queue[Odd].count > 0
    <3>1. ~Waiting(queue'[Odd], p) BY <1>3, <2>1, <2>2, <2>3, DownEffect
    <3> QED BY <2>1, <3>1 DEF Served
  <2>4. CASE queue[Odd].count = 0
    <3>1. \A q : Waiting(queue'[Odd], q) <=> Waiting(queue[Odd], q) \/ q = p
      BY <1>3, <2>1, <2>4, DownEffect
    <3>2. PICK q \in Procs : pc[q] = "meeting" /\ ~Waiting(queue[Odd], q)
      BY <1>3, <2>4 DEF Served
    <3>3. q # p BY <2>1, <3>2
    <3> QED BY <1>6, <3>1, <3>2, <3>3 DEF Served
  <2> QED BY <1>3, <2>3, <2>4
<1>8. CASE Answer(p)
  <2>1. pc[p] = "answering" /\ queue'[Odd] = Up(queue[Odd]) BY <1>2, <1>8 DEF Answer
  <2>2. \A q : ~Waiting(queue[Odd], q) => ~Waiting(queue'[Odd], q)
    BY <1>3, <1>4, <2>1, UpEffect DEF InLine
  <2>3. queue[Odd].count > 0 => queue'[Odd].count > 0
    BY <1>3, <1>4, <2>1, UpEffect DEF InLine, InOrder
  <2> QED BY <1>6, <2>1, <2>2, <2>3 DEF Served
<1>9. CASE Met(p) BY <1>9 DEF Met
<1>10. CASE OpenLook(p) \/ OpenTest(p) \/ LoadUsers(p) \/ OpenCount(p) \/ OpenInit(p) \/ Moving(p)
            \/ Join(p)
  <2>1. queue' = queue /\ pc[p] \notin {"premeet", "meeting"}
    BY <1>10 DEF OpenLook, OpenTest, LoadUsers, OpenCount, OpenInit, Moving, Meet, LoadWaiting, Join,
                 sleepq
  <2> QED BY <1>6, <2>1 DEF Served
<1> QED BY <1>7, <1>8, <1>9, <1>10 DEF Advances

\* As long as nobody is served, the first opener waits and the next one answers it.
LEMMA UnservedStep ==
    ASSUME EvenOddInv, NEW p \in Procs, OpenLook(p) \/ Advances(p), Fresh', timer' = "off", Unserved
    PROVE  Served' \/ Unserved'
<1>1. Types /\ OpenTypes /\ LineInv /\ QueueInv BY DEF EvenOddInv
<1>2. /\ Odd \in Lists /\ queue \in [Lists -> Semaphores(Procs)] /\ waiting \in [Lists -> Int]
      /\ pc \in [Procs -> ReadPlaces \cup OpenPlaces] /\ reg \in [Procs -> Int]
      /\ file \in [Procs -> 0 .. NLists] /\ 0 \notin Lists
      /\ pc[p] # "idle" => file[p] \in Lists
  BY <1>1, TwoLists DEF Types, WaitTypes, ProcTypes
<1>3. queue[Odd] \in Semaphores(Procs) /\ queue[Odd].count \in Nat BY <1>2 DEF Semaphores
<1>4. InLine(queue[Odd], SleepAt(Odd)) BY <1>1, <1>2 DEF LineInv
<1>5. Opener(p) BY DEF Opener, OpenStep, ReleaseStep, Advances, Moving
<1>6. \A q \in Procs : q # p => pc'[q] = pc[q] /\ file'[q] = file[q] /\ reg'[q] = reg[q]
  BY <1>1, <1>5, OpenerProcs
<1>7. waiting[Odd] = Cardinality(Joined) /\ IsFiniteSet(Joined) BY <1>1, UnservedCount
<1>8. (waiting[Odd] <= 0 <=> Joined = {}) /\ (Joined = {} => waiting[Odd] = 0)
  <2>1. PICK n : n = Cardinality(Joined) OBVIOUS
  <2>2. n \in Nat /\ (n = 0 <=> Joined = {}) BY <1>7, <2>1, FS_CardinalityType, FS_EmptySet
  <2> QED BY <1>7, <2>1, <2>2
<1>9. pc[p] \in Closers => FALSE BY <1>2 DEF Unserved, Arriving, Answering, Closers
<1> USE DEF Goto, procs
<1>10. CASE OpenLook(p) \/ OpenTest(p) \/ LoadUsers(p) \/ OpenCount(p) \/ OpenInit(p)
  <2> DEFINE Early == {"claim", "addeven", "loadodd", "addodd", "init", "meet"}
  <2>1. UNCHANGED <<queue, raced>>
    BY <1>10 DEF OpenLook, OpenTest, LoadUsers, OpenCount, OpenInit, sleepq
  <2>2. pc[p] \in Early \cup {"idle"} /\ pc'[p] \in Early
    BY <1>2, <1>9, <1>10 DEF OpenLook, OpenTest, LoadUsers, OpenCount, OpenInit, Closers
  <2>3. Joined' = Joined /\ Passed' = Passed BY <1>6, <2>2 DEF Joined, Passed
  <2>4. Unserved' BY <1>6, <2>1, <2>2, <2>3 DEF Unserved, Arriving, Answering
  <2> QED BY <2>4
<1>11. CASE Meet(p)
  <2>1. /\ UNCHANGED <<queue, raced, file>> /\ pc[p] = "meet" /\ ~crossed'
        /\ crossed' = (crossed \/ Crosses(p))
    BY <1>11, Zenon DEF Meet, sleepq, Fresh
  <2>2. CASE SomeoneMeets
    <3>1. pc'[p] = "answer" BY <1>2, <1>11, <2>2 DEF Meet
    <3>2. Joined' = Joined /\ Passed' = Passed BY <1>6, <2>1, <3>1 DEF Joined, Passed
    <3>3. Joined # {} BY <1>2, <1>8, <2>2 DEF SomeoneMeets
    <3> QED BY <1>6, <2>1, <3>1, <3>2, <3>3 DEF Unserved, Arriving, Answering
  <2>3. CASE ~SomeoneMeets
    <3>1. pc'[p] = "join" BY <1>2, <1>11, <2>3 DEF Meet
    <3>2. Joined = {} BY <1>2, <1>8, <2>3 DEF SomeoneMeets
    <3>3. ~Crosses(p) BY <2>1, Zenon
    <3>4. \A q \in Procs : q # p => pc[q] \notin {"join", "joining"} BY <2>3, <3>3 DEF Crosses
    <3>5. Joined' = {} /\ Passed' = {p} BY <1>6, <3>1, <3>2, <3>4 DEF Joined, Passed
    <3>6. \A q \in Procs : pc'[q] \notin Answering
      BY <1>6, <3>1, <3>2 DEF Unserved, Answering
    <3>7. \A q \in Procs : pc'[q] \notin {"meeting", "joining"} BY <1>6, <3>1, <3>4, <3>5 DEF Joined
    <3> QED BY <1>6, <2>1, <3>1, <3>5, <3>6, <3>7 DEF Unserved, Arriving
  <2> QED BY <2>2, <2>3
<1>12. CASE LoadWaiting(p)
  <2>1. UNCHANGED <<queue, raced, file>> /\ reg'[p] = waiting[Odd] BY <1>2, <1>12 DEF LoadWaiting, sleepq
  <2>2. \/ pc[p] = "join" /\ pc'[p] = "joining"
        \/ pc[p] = "answer" /\ pc'[p] = "answering"
    BY <1>2, <1>12 DEF LoadWaiting, Unserved, Arriving, Answering
  <2>3. Joined' = Joined /\ Passed' = Passed BY <1>6, <2>2 DEF Joined, Passed
  <2>4. pc'[p] = "joining" => reg'[p] = 0
    <3>1. pc[p] = "join" => Joined = {} BY DEF Unserved, Joined, Passed
    <3> QED BY <1>8, <2>1, <2>2, <3>1
  <2> QED BY <1>6, <2>1, <2>2, <2>3, <2>4 DEF Unserved, Arriving, Answering
<1>13. CASE Join(p)
  <2>1. UNCHANGED <<queue, file>> /\ pc[p] = "joining" /\ pc'[p] = "premeet" BY <1>2, <1>13 DEF Join
  <2>2. Joined = {} /\ Passed = {p} BY <2>1 DEF Unserved, Joined, Passed
  <2>3. ~raced'
    <3>1. reg[p] = 0 /\ waiting[Odd] = 0 /\ ~raced BY <1>8, <2>1, <2>2 DEF Unserved
    <3>2. raced' = (raced \/ waiting[Odd] # reg[p]) BY <1>13 DEF Join, StoreWaiting
    <3> QED BY <3>1, <3>2, Zenon
  <2>4. Joined' = {p} /\ Passed' = {} BY <1>6, <2>1, <2>2 DEF Joined, Passed
  <2>5. \A q \in Procs : pc'[q] # "meeting" /\ pc'[q] # "joining"
    BY <1>6, <2>1, <2>2 DEF Joined, Passed
  <2> QED BY <1>6, <2>1, <2>3, <2>4, <2>5 DEF Unserved, Arriving
<1>14. CASE MeetSleep(p)
  <2>1. pc[p] = "premeet" /\ pc'[p] = "meeting" /\ UNCHANGED <<file, raced>>
        /\ queue'[Odd] = Down(queue[Odd], p)
    BY <1>2, <1>14 DEF MeetSleep
  <2>2. /\ queue'[Odd].count = 0
        /\ \A q : Waiting(queue'[Odd], q) <=> Waiting(queue[Odd], q) \/ q = p
    BY <1>3, <2>1, DownEffect DEF Unserved
  <2>3. Joined' = Joined /\ Passed' = Passed BY <1>6, <2>1 DEF Joined, Passed
  <2> QED BY <1>6, <2>1, <2>2, <2>3 DEF Unserved, Arriving, Answering
<1>15. CASE Answer(p)
  <2>1. pc[p] = "answering" /\ queue'[Odd] = Up(queue[Odd]) BY <1>2, <1>15 DEF Answer
  <2>2. PICK x \in Procs : pc[x] \in {"premeet", "meeting"}
    BY <2>1 DEF Unserved, Joined, Answering
  <2>3. InOrder(queue[Odd]) /\ \A q \in Procs : Waiting(queue[Odd], q) => SleepAt(Odd)[q] \in Asleep
    BY <1>4 DEF InLine
  <2>4. CASE queue[Odd].waiters = << >>
    <3>1. /\ queue'[Odd].count = queue[Odd].count + 1
          /\ \A q : ~Waiting(queue[Odd], q) /\ ~Waiting(queue'[Odd], q)
      BY <1>3, <2>1, <2>3, <2>4, UpEffect
    <3>2. queue'[Odd].count > 0 BY <1>3, <3>1
    <3> QED BY <1>6, <2>1, <2>2, <3>1, <3>2 DEF Served
  <2>5. CASE queue[Odd].waiters # << >>
    <3>1. PICK h \in Procs :
            /\ Waiting(queue[Odd], h)
            /\ \A q : Waiting(queue'[Odd], q) <=> Waiting(queue[Odd], q) /\ q # h
      BY <1>3, <2>1, <2>3, <2>5, UpEffect
    <3>2. SleepAt(Odd)[h] \in Asleep BY <2>3, <3>1
    <3>3. pc[h] = "meeting"
      BY <1>2, <3>2 DEF SleepAt, Asleep, MeetPlaces, Unserved, Odd, Arriving, Answering
    <3>4. h # p BY <2>1, <3>3
    <3> QED BY <1>6, <3>1, <3>3, <3>4 DEF Served
  <2> QED BY <2>4, <2>5
<1>16. CASE Met(p) BY <1>16 DEF Met
<1> QED BY <1>10, <1>11, <1>12, <1>13, <1>14, <1>15, <1>16 DEF Advances, Moving

LEMMA OpenerMeetInv ==
    ASSUME EvenOddInv, MeetInv, NEW p \in Procs, Opener(p)
    PROVE  MeetInv'
<1>1. SUFFICES ASSUME Fresh', timer' = "off" PROVE work'.state = "idle" /\ (Served' \/ Unserved')
  BY OpenerActive DEF MeetInv
<1>2. Fresh /\ (OpenLook(p) \/ Advances(p)) BY <1>1, OpenerActive
<1>3. UNCHANGED <<timer, work>>
  BY <1>1, <1>2
  DEF Advances, Moving, OpenLook, OpenTest, LoadUsers, OpenCount, OpenInit, Meet, LoadWaiting, Join,
      MeetSleep, Met, Answer, clock
<1>4. work.state = "idle" /\ (Served \/ Unserved) BY <1>1, <1>2, <1>3 DEF MeetInv
<1> QED BY <1>1, <1>2, <1>3, <1>4, ServedStays, UnservedStep

LEMMA NextMeetInv == EvenOddInv /\ MeetInv /\ [EvenOddNext]_allvars => MeetInv'
<1> SUFFICES ASSUME EvenOddInv, MeetInv, [EvenOddNext]_allvars PROVE MeetInv' OBVIOUS
<1>1. CASE UNCHANGED allvars
  BY <1>1 DEF allvars, opening, history, vars, lists, sleepq, config, procs, clock, MeetInv, ActiveInv,
      Active, Fresh, Served, Unserved, Joined, Passed
<1>2. CASE EvenOddNext
  <2>1. Kernel \/ \E p \in Procs : ReadOwn(p) \/ SleepOwn(p) \/ Opener(p)
    BY <1>2 DEF EvenOddNext, Kernel, Opener
  <2> QED BY <2>1, KernelMeetInv, ReaderMeetInv, OpenerMeetInv
<1> QED BY <1>1, <1>2

LEMMA InitMeetInv == EvenOddInit => MeetInv
<1> SUFFICES ASSUME EvenOddInit PROVE MeetInv OBVIOUS
<1>1. /\ file = [p \in Procs |-> 0] /\ pc = [p \in Procs |-> "idle"] /\ opens = 0 /\ raced = FALSE
      /\ work.state = "idle" /\ queue = [l \in Lists |-> SemInit(0)]
  BY DEF EvenOddInit, Init, NoWork
<1>2. Active = {} /\ Joined = {} /\ Passed = {} BY <1>1 DEF Active, Joined, Passed
<1>3. ActiveInv BY <1>1, <1>2, FS_EmptySet DEF ActiveInv
<1>4. queue[Odd].count = 0 BY <1>1, TwoLists DEF SemInit
<1>5. Unserved BY <1>1, <1>2, <1>4 DEF Unserved, Answering
<1> QED BY <1>1, <1>3, <1>5 DEF MeetInv

\* Once every process has opened its file, none of them closed since, and nobody is
\* on the way through open(), the timer runs: of two or more openers the last ones do
\* not all wait for each other, unless two of them found nobody waiting before either
\* had counted itself, a reader has taken the unit of one, or a wait was interrupted.
THEOREM TimerIsStarted ==
    ASSUME \E p, q \in Procs : p # q
    PROVE  EvenOddSpec => []TimerRuns
<1>1. MeetInv => TimerRuns
  <2> SUFFICES ASSUME MeetInv, FirstMeeting, \A p \in Procs : Settled(p), timer = "off" PROVE FALSE
    BY DEF TimerRuns
  <2>1. Active = Procs BY DEF Active, Settled
  <2>2. Fresh BY <2>1 DEF Fresh, FirstMeeting, Settled, OnTheWay, Closers
  <2>3. ~Served BY DEF Served, Settled, OnTheWay
  <2>4. Unserved BY <2>2, <2>3 DEF MeetInv
  <2>5. Joined = Procs BY <2>4 DEF Unserved, Settled, Joined, OnTheWay, Arriving, Answering
  <2> QED BY <2>4, <2>5 DEF Unserved
<1> QED BY <1>1, InitEvenOdd, NextEvenOdd, InitMeetInv, NextMeetInv, PTL DEF EvenOddSpec
=============================================================================
