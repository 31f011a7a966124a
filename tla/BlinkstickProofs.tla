-------------------------- MODULE BlinkstickProofs --------------------------
(***************************************************************************)
(* Theorems about BlinkDrv and BlinkUser.  The driver: for any processes,  *)
(* any number of sticks one after the other, and any LEDs, a structure has *)
(* the references it should have and is used only while it is live, and a  *)
(* write() sets its LEDs in order.  The games: for a stick of any length,  *)
(* any die, and any place to stop the light that is far enough from the    *)
(* end.                                                                    *)
(***************************************************************************)
EXTENDS BlinkDrv, BlinkUser, FiniteSetTheorems, WellFoundedInduction, TLAPS

USE BlinkAssumption

-----------------------------------------------------------------------------
(* Types, except for the bound on kref, which the account gives. *)

Devs == [state : {"unused", "live", "freed"}, kref : Int, interface : BOOLEAN]
Hubs == {"idle", "register", "bound", "deregister", "queued", "detach", "put"}
PCs  == {"closed", "found", "get", "open", "send"}
Writes == [colors : [Leds -> Colors], i : 0 .. NR_LEDS]

Types ==
    /\ dev \in [Sticks -> Devs]
    /\ intfdata \subseteq Sticks /\ plugged \subseteq Sticks
    /\ minor \in Sticks \cup {None} /\ stick \in Sticks \cup {None}
    /\ hub \in Hubs
    /\ leds \in [Sticks -> [Leds -> Colors]]
    /\ pc \in [Procs -> PCs] /\ file \in [Procs -> Sticks \cup {None}]
    /\ write \in [Procs -> Writes]
    /\ before \in [Procs -> [Leds -> Colors]] /\ alone \in [Procs -> BOOLEAN]
    /\ misuse \in BOOLEAN

\* What leads to a structure: the minor number while the stick is bound, an
\* open() while it holds the table of minor numbers, and a file.
Leads ==
    /\ hub # "idle" => stick \in Sticks
    /\ minor # None => minor = stick /\ hub \in {"bound", "deregister", "queued"}
    /\ \A p \in Opening : file[p] \in Sticks /\ file[p] = minor
    /\ \A p \in Procs : pc[p] \in {"open", "send"} => file[p] \in Sticks /\ file[p] <= stick
    /\ \A d \in Sticks : d > stick => dev[d] = NoDev

Refs ==
    /\ \A d \in Sticks : dev[d].kref = Cardinality(Files(d)) + Connection(d)
    /\ \A d \in Sticks : dev[d].state = "live" <=> dev[d].kref > 0

IInv == Types /\ Leads /\ Refs /\ ~misuse
-----------------------------------------------------------------------------
\* A set of numbers up to n that is not empty has a largest element.
LEMMA Largest ==
    ASSUME NEW n \in Nat, NEW S \in SUBSET (1 .. n), S # {}
    PROVE  \E k \in S : \A m \in S : m <= k
<1> DEFINE T == {n - k : k \in S}
<1>1. T \subseteq Nat
  <2> SUFFICES ASSUME NEW k \in S PROVE n - k \in Nat OBVIOUS
  <2> QED BY k \in 1 .. n
<1>2. T # {} OBVIOUS
<1>3. PICK x \in T : \A y \in T : ~(<<y, x>> \in OpToRel(<, Nat))
  BY <1>1, <1>2, NatLessThanWellFounded, WFMin, Zenon
<1>4. PICK k \in S : x = n - k OBVIOUS
<1>5. \A y \in T : y \in Nat /\ x \in Nat /\ ~(y < x) BY <1>1, <1>3, Zenon DEF OpToRel
<1>6. SUFFICES ASSUME NEW m \in S PROVE m <= k BY <1>4
<1>7. n - m \in T /\ m \in Nat /\ k \in Nat OBVIOUS
<1>8. ~(n - m < n - k) BY <1>4, <1>5, <1>7
<1> QED BY <1>7, <1>8

LEMMA ColorsType ==
    ASSUME NEW c \in Commands
    PROVE  LedsColor(c) \in [Leds -> Colors]
<1> SUFFICES ASSUME NEW i \in Leds PROVE LedsColor(c)[i] \in Colors
  BY DEF LedsColor
<1> DEFINE named == {k \in DOMAIN c : c[k][1] = i}
           last == CHOOSE k \in named : \A m \in named : m <= k
<1>1. c \in Seq(Leds \X Colors) BY DEF Leds
<1>2. Len(c) \in Nat /\ DOMAIN c = 1 .. Len(c) BY <1>1
<1>3. LedsColor(c)[i] = IF named = {} THEN Off ELSE c[last][2] BY DEF LedsColor
<1>4. CASE named = {} BY <1>3, <1>4
<1>5. CASE named # {}
  <2>1. named \in SUBSET (1 .. Len(c)) BY <1>2
  <2>2. \E k \in named : \A m \in named : m <= k BY <1>2, <1>5, <2>1, Largest
  <2>3. last \in named BY <2>2
  <2>4. c[last] \in Leds \X Colors BY <1>1, <1>2, <2>3
  <2> QED BY <1>3, <1>5, <2>4
<1> QED BY <1>4, <1>5
-----------------------------------------------------------------------------
LEMMA InitTypes == Init => Types
<1>1. Dark \in [Leds -> Colors] BY DEF Dark
<1>2. NoDev \in Devs BY DEF NoDev, Devs
<1>3. NoWrite \in Writes BY <1>1 DEF NoWrite, Writes
<1> SUFFICES ASSUME Init PROVE Types OBVIOUS
<1>4. dev \in [Sticks -> Devs] BY <1>2 DEF Init
<1>5. leds \in [Sticks -> [Leds -> Colors]] /\ before \in [Procs -> [Leds -> Colors]]
  BY <1>1 DEF Init
<1>6. write \in [Procs -> Writes] BY <1>3 DEF Init
<1>7. /\ intfdata \subseteq Sticks /\ plugged \subseteq Sticks
      /\ minor \in Sticks \cup {None} /\ stick \in Sticks \cup {None} /\ hub \in Hubs
      /\ alone \in [Procs -> BOOLEAN] /\ misuse \in BOOLEAN
  BY DEF Init, Hubs
<1>8. pc \in [Procs -> PCs] /\ file \in [Procs -> Sticks \cup {None}] BY DEF Init, PCs
<1> QED BY <1>4, <1>5, <1>6, <1>7, <1>8 DEF Types

LEMMA PutType ==
    ASSUME Types, NEW d \in Sticks, Put(d)
    PROVE  dev' \in [Sticks -> Devs] /\ misuse' \in BOOLEAN
<1>1. misuse' \in BOOLEAN BY DEF Put, Touch, Types
<1>2. CASE LastRef(d)
  <2>1. Freed \in Devs BY DEF Freed, Devs
  <2> QED BY <1>1, <1>2, <2>1 DEF Put, Types
<1>3. CASE ~LastRef(d)
  <2>1. dev' = [dev EXCEPT ![d].kref = dev[d].kref - 1] BY <1>3 DEF Put
  <2>2. dev \in [Sticks -> Devs] /\ dev[d] \in Devs BY DEF Types
  <2>3. dev[d].kref - 1 \in Int BY <2>2 DEF Devs
  <2>4. dev' \in [Sticks -> Devs] BY <2>1, <2>2, <2>3 DEF Devs
  <2> QED BY <1>1, <2>4
<1> QED BY <1>2, <1>3

LEMMA NextTypes == Types /\ Leads /\ [Next]_vars => Types'
<1> SUFFICES ASSUME Types, Leads, [Next]_vars PROVE Types' OBVIOUS
<1> USE DEF Types, usb, calls, Goto, Hubs, PCs, Then
<1>1. CASE UNCHANGED vars BY <1>1 DEF vars
<1>2. CASE Probe
  <2>1. stick + 1 \in Sticks BY <1>2 DEF Probe, Sticks, None
  <2> QED BY <1>2, <2>1 DEF Probe, Devs
<1>3. CASE Unplug
  <2>1. Dark \in [Leds -> Colors] BY DEF Dark
  <2> QED BY <1>3, <2>1 DEF Unplug
<1>4. CASE Disconnect BY <1>4 DEF Disconnect
<1>5. CASE Core
  <2>1. CASE Register BY <2>1 DEF Register
  <2>2. CASE RegisterFails BY <2>2, PutType DEF RegisterFails, Leads
  <2>3. CASE Queue BY <2>3 DEF Queue
  <2>4. CASE Deregister BY <2>4 DEF Deregister
  <2>5. CASE Detach BY <2>5 DEF Detach, Devs, Touch, Leads
  <2>6. CASE DisconnectPut BY <2>6, PutType DEF DisconnectPut, Leads
  <2> QED BY <1>5, <2>1, <2>2, <2>3, <2>4, <2>5, <2>6 DEF Core
<1>6. ASSUME NEW p \in Procs, Call(p) PROVE Types'
  <2>1. CASE CallOpen(p) BY <2>1 DEF CallOpen
  <2>2. CASE CallWrite(p)
    <3>1. PICK c \in Commands : write' = [write EXCEPT ![p] = [colors |-> LedsColor(c), i |-> 0]]
      BY <2>2 DEF CallWrite
    <3>2. write' \in [Procs -> Writes] BY <3>1, ColorsType DEF Writes
    <3>3. leds[file[p]] \in [Leds -> Colors] BY <2>2 DEF CallWrite, Leads
    <3>4. before' \in [Procs -> [Leds -> Colors]] BY <2>2, <3>3 DEF CallWrite
    <3>5. alone' \in [Procs -> BOOLEAN] BY <2>2, Zenon DEF CallWrite
    <3> QED BY <2>2, <3>2, <3>4, <3>5 DEF CallWrite
  <2>3. CASE Release(p) BY <2>3, PutType DEF Release, Leads
  <2> QED BY <1>6, <2>1, <2>2, <2>3 DEF Call
<1>7. ASSUME NEW p \in Procs, Run(p) PROVE Types'
  <2>1. CASE OpenData(p) BY <2>1 DEF OpenData
  <2>2. CASE OpenGet(p) BY <2>2 DEF OpenGet, Counted, Devs, Touch, Leads, Opening
  <2>3. CASE Send(p)
    <3>1. write[p] \in Writes /\ write[p].i \in Leds /\ write[p].i + 1 \in 0 .. NR_LEDS
      BY <2>3 DEF Send, Sent, Writes, Leds
    <3>2. write' \in [Procs -> Writes] BY <2>3, <3>1 DEF Send, Writes
    <3>3. leds' \in [Sticks -> [Leds -> Colors]] BY <2>3, <3>1 DEF Send, Led, Writes
    <3> QED BY <2>3, <3>2, <3>3 DEF Send, Touch
  <2>4. Return(p) => /\ pc' \in [Procs -> PCs] /\ write' \in [Procs -> Writes]
                     /\ before' \in [Procs -> [Leds -> Colors]] /\ alone' \in [Procs -> BOOLEAN]
    BY DEF Return, Writes, NoWrite, Dark
  <2>5. CASE SendFails(p) BY <2>4, <2>5 DEF SendFails, Touch
  <2>6. CASE WriteEnd(p) BY <2>4, <2>6 DEF WriteEnd
  <2> QED BY <1>7, <2>1, <2>2, <2>3, <2>5, <2>6 DEF Run
<1> QED BY <1>1, <1>2, <1>3, <1>4, <1>5, <1>6, <1>7 DEF Next
-----------------------------------------------------------------------------
(* References. *)

LEMMA NextLeads == Types /\ Leads /\ [Next]_vars => Leads'
<1> SUFFICES ASSUME Types, Leads, [Next]_vars PROVE Leads' OBVIOUS
<1> USE DEF Types, Leads, Opening, usb, calls, Goto, Hubs, PCs, Then, None, Sticks
<1>1. CASE UNCHANGED vars BY <1>1 DEF vars
<1>2. CASE Probe
  <2>1. minor = None /\ Opening = {} BY <1>2 DEF Probe
  <2>2. \A d \in Sticks : d > stick' => dev'[d] = dev[d] /\ d > stick BY <1>2 DEF Probe
  <2> QED BY <1>2, <2>1, <2>2 DEF Probe
<1>3. CASE Unplug BY <1>3 DEF Unplug
<1>4. CASE Disconnect BY <1>4 DEF Disconnect
<1>5. \A d \in Sticks : Put(stick) /\ d > stick => dev'[d] = dev[d] BY DEF Put
<1>6. CASE Core
  <2>1. CASE Register BY <2>1 DEF Register
  <2>2. CASE RegisterFails BY <1>5, <2>2 DEF RegisterFails
  <2>3. CASE Queue BY <2>3 DEF Queue
  <2>4. CASE Deregister BY <2>4 DEF Deregister
  <2>5. CASE Detach BY <2>5 DEF Detach
  <2>6. CASE DisconnectPut BY <1>5, <2>6 DEF DisconnectPut
  <2> QED BY <1>6, <2>1, <2>2, <2>3, <2>4, <2>5, <2>6 DEF Core
<1>7. ASSUME NEW p \in Procs, Call(p) PROVE Leads'
  <2>1. CASE CallOpen(p) BY <2>1 DEF CallOpen
  <2>2. CASE CallWrite(p) BY <2>2 DEF CallWrite
  <2>3. CASE Release(p)
    <3>1. file[p] \in Sticks /\ file[p] <= stick BY <2>3 DEF Release
    <3>2. \A d \in Sticks : d > stick => dev'[d] = dev[d] BY <2>3, <3>1 DEF Release, Put
    <3> QED BY <2>3, <3>2 DEF Release
  <2> QED BY <1>7, <2>1, <2>2, <2>3 DEF Call
<1>8. ASSUME NEW p \in Procs, Run(p) PROVE Leads'
  <2>1. CASE OpenData(p) BY <2>1 DEF OpenData
  <2>2. CASE OpenGet(p)
    <3>1. file[p] \in Sticks /\ file[p] = stick BY <2>2 DEF OpenGet
    <3>2. \A d \in Sticks : d > stick => dev'[d] = dev[d] BY <2>2, <3>1 DEF OpenGet, Counted
    <3> QED BY <2>2, <3>1, <3>2 DEF OpenGet
  <2>3. CASE Send(p) BY <2>3 DEF Send
  <2>4. CASE SendFails(p) BY <2>4 DEF SendFails, Return
  <2>5. CASE WriteEnd(p) BY <2>5 DEF WriteEnd, Return
  <2> QED BY <1>8, <2>1, <2>2, <2>3, <2>4, <2>5 DEF Run
<1> QED BY <1>1, <1>2, <1>3, <1>4, <1>6, <1>7, <1>8 DEF Next

LEMMA FilesFinite ==
    ASSUME NEW d
    PROVE  IsFiniteSet(Files(d)) /\ Cardinality(Files(d)) \in Nat
<1>1. Files(d) \subseteq Procs BY DEF Files
<1> QED BY <1>1, FS_Subset, FS_CardinalityType

\* A file is counted once: opening one adds a reference.
LEMMA OneMore ==
    ASSUME NEW A, NEW p, IsFiniteSet(A), p \notin A
    PROVE  Cardinality(A \cup {p}) = Cardinality(A) + 1
BY FS_AddElement

LEMMA OneLess ==
    ASSUME NEW A, NEW p, IsFiniteSet(A), p \in A
    PROVE  Cardinality(A \ {p}) = Cardinality(A) - 1
BY FS_RemoveElement

\* A step that leaves the counts, the files and the connection alone keeps the
\* account.
LEMMA SameRefs ==
    ASSUME Refs,
           \A d \in Sticks : /\ dev'[d].kref = dev[d].kref /\ dev'[d].state = dev[d].state
                             /\ Files(d)' = Files(d) /\ Connection(d)' = Connection(d)
    PROVE  Refs'
BY DEF Refs

\* What kref_put() does to the account.
LEMMA PutRefs ==
    ASSUME Types, Refs, NEW d \in Sticks, Put(d), dev[d].kref > 0,
           Cardinality(Files(d)') + Connection(d)' = Cardinality(Files(d)) + Connection(d) - 1,
           \A e \in Sticks \ {d} : Files(e)' = Files(e) /\ Connection(e)' = Connection(e)
    PROVE  Refs' /\ misuse' = misuse
<1>1. dev[d].state = "live" /\ dev[d].kref \in Int BY DEF Refs, Types, Devs
<1>2. \A e \in Sticks \ {d} : dev'[e] = dev[e] BY DEF Put, Types
<1>3. /\ dev'[d].kref = dev[d].kref - 1
      /\ dev'[d].state = "live" <=> dev[d].kref - 1 > 0
  <2>1. CASE LastRef(d) BY <1>1, <2>1 DEF Put, Types, LastRef, Freed
  <2>2. CASE ~LastRef(d) BY <1>1, <2>2 DEF Put, Types, LastRef, Devs
  <2> QED BY <2>1, <2>2
<1>4. misuse' = misuse BY <1>1 DEF Put, Touch, Types
<1>5. dev'[d].kref = Cardinality(Files(d)') + Connection(d)'
  <2>1. dev[d].kref = Cardinality(Files(d)) + Connection(d) BY DEF Refs
  <2>2. Cardinality(Files(d)) \in Nat /\ Connection(d) \in Nat BY FilesFinite DEF Connection
  <2> QED BY <1>1, <1>3, <2>1, <2>2
<1>6. \A e \in Sticks \ {d} : /\ dev'[e].kref = Cardinality(Files(e)') + Connection(e)'
                              /\ dev'[e].state = "live" <=> dev'[e].kref > 0
  BY <1>2 DEF Refs
<1> QED BY <1>3, <1>4, <1>5, <1>6 DEF Refs

LEMMA NextRefs == Types /\ Leads /\ Refs /\ ~misuse /\ [Next]_vars => Refs' /\ ~misuse'
<1> SUFFICES ASSUME Types, Leads, Refs, ~misuse, [Next]_vars PROVE Refs' /\ ~misuse' OBVIOUS
<1> USE DEF usb, calls, Goto
<1>1. ASSUME UNCHANGED <<dev, pc, file, stick>>, (hub = "idle") <=> (hub' = "idle")
      PROVE  Refs'
  BY <1>1, SameRefs DEF Files, Connection
<1>2. CASE UNCHANGED vars BY <1>1, <1>2 DEF vars
<1>3. \A d \in Sticks : dev[d].kref \in Int /\ Cardinality(Files(d)) \in Nat
  BY FilesFinite DEF Types, Devs
<1>4. CASE Probe
  <2>1. PICK d \in Sticks : d = stick + 1 BY <1>4 DEF Probe, Types, Sticks, None
  <2>2. stick' = d /\ d # stick /\ hub = "idle" /\ hub' = "register"
    BY <1>4, <2>1 DEF Probe, Types, Sticks, None
  <2>3. \A e \in Sticks : Files(e)' = Files(e) BY <1>4 DEF Probe, Files
  <2>4. Files(d) = {} BY <2>1 DEF Leads, Types, Files, Sticks, None
  <2>5. Cardinality(Files(d)') = 0 BY <2>3, <2>4, FS_EmptySet
  <2>6. dev'[d].kref = 1 /\ dev'[d].state = "live" BY <1>4, <2>1 DEF Probe, Types
  <2>7. Connection(d)' = 1 BY <2>2 DEF Connection
  <2>8. dev'[d].kref = Cardinality(Files(d)') + Connection(d)' /\ dev'[d].kref > 0
    BY <2>5, <2>6, <2>7
  <2>9. ASSUME NEW e \in Sticks, e # d
        PROVE  dev'[e] = dev[e] /\ Connection(e)' = Connection(e)
    BY <1>4, <2>1, <2>2, <2>9 DEF Probe, Types, Connection
  <2>10. Refs' BY <2>3, <2>6, <2>8, <2>9 DEF Refs
  <2> QED BY <1>4, <2>10 DEF Probe
<1>5. CASE Unplug BY <1>1, <1>5 DEF Unplug
<1>6. CASE Disconnect BY <1>1, <1>6 DEF Disconnect, Then
<1>7. ASSUME hub # "idle", hub' = "idle", Put(stick), UNCHANGED <<pc, file, stick>>
      PROVE  Refs' /\ ~misuse'
  <2>1. PICK d \in Sticks : d = stick BY <1>7 DEF Leads
  <2>2. \A e \in Sticks : Files(e)' = Files(e) BY <1>7 DEF Files
  <2>3. Connection(d) = 1 /\ Connection(d)' = 0 BY <1>7, <2>1 DEF Connection
  <2>4. \A e \in Sticks \ {d} : Connection(e)' = Connection(e) BY <1>7, <2>1 DEF Connection
  <2>5. dev[d].kref > 0 BY <1>3, <2>3 DEF Refs
  <2>6. Cardinality(Files(d)') + Connection(d)' = Cardinality(Files(d)) + Connection(d) - 1
    BY <1>3, <2>2, <2>3
  <2> QED BY <1>7, <2>1, <2>2, <2>4, <2>5, <2>6, PutRefs
<1>8. CASE Core
  <2>1. CASE Register BY <1>1, <2>1 DEF Register
  <2>2. CASE RegisterFails BY <1>7, <2>2 DEF RegisterFails
  <2>3. CASE Queue BY <1>1, <2>3 DEF Queue
  <2>4. CASE Deregister BY <1>1, <2>4 DEF Deregister, Then
  <2>5. CASE Detach
    <3>1. stick \in Sticks /\ Connection(stick) = 1 BY <2>5 DEF Detach, Leads, Connection
    <3>2. dev[stick].kref = Cardinality(Files(stick)) + 1 BY <3>1 DEF Refs
    <3>3. dev[stick].state = "live" BY <1>3, <3>1, <3>2 DEF Refs
    <3>4. ~misuse' BY <2>5, <3>3 DEF Detach, Touch
    <3>5. \A d \in Sticks : dev'[d].kref = dev[d].kref /\ dev'[d].state = dev[d].state
      BY <2>5 DEF Detach, Types, Devs
    <3>6. \A d \in Sticks : Files(d)' = Files(d) /\ Connection(d)' = Connection(d)
      BY <2>5 DEF Detach, Then, Files, Connection
    <3> QED BY <3>4, <3>5, <3>6, SameRefs
  <2>6. CASE DisconnectPut BY <1>7, <2>6 DEF DisconnectPut, Then
  <2> QED BY <1>8, <2>1, <2>2, <2>3, <2>4, <2>5, <2>6 DEF Core
<1>9. ASSUME NEW p \in Procs, UNCHANGED <<dev, stick, hub, misuse>>,
             \A q \in Procs : (pc[q] \in {"open", "send"}) <=> (pc'[q] \in {"open", "send"}),
             \A q \in Procs : pc[q] \in {"open", "send"} => file'[q] = file[q]
      PROVE  Refs' /\ ~misuse'
  <2>1. \A d \in Sticks : Files(d)' = Files(d) BY <1>9 DEF Files
  <2>2. \A d \in Sticks : Connection(d)' = Connection(d) BY <1>9 DEF Connection
  <2> QED BY <1>9, <2>1, <2>2, SameRefs
<1>10. ASSUME NEW p \in Procs, Call(p) PROVE Refs' /\ ~misuse'
  <2>1. CASE CallOpen(p) BY <1>9, <2>1 DEF CallOpen, Types, PCs
  <2>2. CASE CallWrite(p) BY <1>9, <2>2 DEF CallWrite, Types, PCs
  <2>3. CASE Release(p)
    <3>0. PICK d \in Sticks : d = file[p] BY <2>3 DEF Release, Leads
    <3>1. Put(d) /\ p \in Files(d) BY <2>3, <3>0 DEF Release, Files
    <3>2. Files(d)' = Files(d) \ {p} BY <2>3, <3>0, <3>1 DEF Release, Files, Types
    <3>3. \A e \in Sticks \ {d} : Files(e)' = Files(e) BY <2>3, <3>0, <3>1 DEF Release, Files, Types, None, Sticks
    <3>4. \A e \in Sticks : Connection(e)' = Connection(e) BY <2>3 DEF Release, Connection
    <3>5. Cardinality(Files(d)') = Cardinality(Files(d)) - 1 BY <3>1, <3>2, FilesFinite, OneLess
    <3>6. Connection(d) \in Nat BY DEF Connection
    <3>7. Cardinality(Files(d)) > 0
      <4>1. Files(d) # {} BY <3>1
      <4> QED BY <1>3, <3>1, <4>1, FilesFinite, FS_EmptySet
    <3>8. dev[d].kref > 0 BY <1>3, <3>1, <3>6, <3>7 DEF Refs
    <3>9. Cardinality(Files(d)') + Connection(d)' = Cardinality(Files(d)) + Connection(d) - 1
      BY <1>3, <3>1, <3>4, <3>5, <3>6
    <3> QED BY <3>1, <3>3, <3>4, <3>8, <3>9, PutRefs
  <2> QED BY <1>10, <2>1, <2>2, <2>3 DEF Call
<1>11. ASSUME NEW p \in Procs, Run(p) PROVE Refs' /\ ~misuse'
  <2>1. CASE OpenData(p) BY <1>9, <2>1 DEF OpenData, Types, PCs
  <2>2. CASE OpenGet(p)
    <3>0. PICK d \in Sticks : d = file[p] BY <2>2 DEF OpenGet, Leads, Opening
    <3>1. d = stick /\ hub # "idle" BY <2>2, <3>0 DEF OpenGet, Leads, Opening, None, Sticks
    <3>2. p \notin Files(d) BY <2>2, <3>0 DEF OpenGet, Files
    <3>3. Files(d)' = Files(d) \cup {p} BY <2>2, <3>0, <3>1 DEF OpenGet, Files, Types
    <3>4. \A e \in Sticks \ {d} : Files(e)' = Files(e) BY <2>2, <3>0, <3>1 DEF OpenGet, Files, Types
    <3>5. \A e \in Sticks : Connection(e)' = Connection(e) BY <2>2 DEF OpenGet, Connection
    <3>6. Cardinality(Files(d)') = Cardinality(Files(d)) + 1 BY <3>2, <3>3, FilesFinite, OneMore
    <3>7. Connection(d) = 1 BY <3>1 DEF Connection
    <3>8. dev[d].kref = Cardinality(Files(d)) + 1 BY <3>1, <3>7 DEF Refs
    <3>9. dev[d].kref > 0 /\ dev[d].state = "live" BY <1>3, <3>1, <3>8 DEF Refs
    <3>10. dev'[d].kref = dev[d].kref + 1 /\ dev'[d].state = "live"
      BY <2>2, <3>0, <3>1, <3>9 DEF OpenGet, Counted, Types, Devs
    <3>11. \A e \in Sticks \ {d} : dev'[e] = dev[e] BY <2>2, <3>0 DEF OpenGet, Counted, Types
    <3>12. dev'[d].kref = Cardinality(Files(d)') + Connection(d)' /\ dev'[d].kref > 0
      BY <1>3, <3>1, <3>5, <3>6, <3>7, <3>8, <3>10
    <3>13. \A e \in Sticks \ {d} : /\ dev'[e].kref = Cardinality(Files(e)') + Connection(e)'
                                   /\ dev'[e].state = "live" <=> dev'[e].kref > 0
      BY <3>4, <3>5, <3>11 DEF Refs
    <3>14. Refs' BY <3>10, <3>12, <3>13 DEF Refs
    <3>15. ~misuse' BY <2>2, <3>0, <3>9 DEF OpenGet, Touch
    <3> QED BY <3>14, <3>15
  <2>3. ASSUME pc[p] = "send" PROVE dev[file[p]].state = "live"
    <3> DEFINE d == file[p]
    <3>1. d \in Sticks /\ p \in Files(d) BY <2>3 DEF Leads, Files
    <3>2. Cardinality(Files(d)) > 0
      <4>1. Files(d) # {} BY <3>1
      <4> QED BY <1>3, <3>1, <4>1, FilesFinite, FS_EmptySet
    <3>3. Connection(d) \in Nat BY DEF Connection
    <3> QED BY <1>3, <3>1, <3>2, <3>3 DEF Refs
  <2>4. CASE Send(p)
    <3>1. ~misuse' BY <2>3, <2>4 DEF Send, Touch
    <3>2. Refs' BY <1>1, <2>4 DEF Send
    <3> QED BY <3>1, <3>2
  <2>5. Return(p) /\ pc[p] = "send" /\ UNCHANGED <<dev, file, stick, hub>> => Refs'
    <3> SUFFICES ASSUME Return(p), pc[p] = "send", UNCHANGED <<dev, file, stick, hub>> PROVE Refs'
      OBVIOUS
    <3>1. \A d \in Sticks : Files(d)' = Files(d) BY DEF Return, Files, Types
    <3>2. \A d \in Sticks : Connection(d)' = Connection(d) BY DEF Connection
    <3> QED BY <3>1, <3>2, SameRefs
  <2>6. CASE SendFails(p)
    <3>1. ~misuse' BY <2>3, <2>6 DEF SendFails, Touch
    <3>2. Refs' BY <2>5, <2>6 DEF SendFails
    <3> QED BY <3>1, <3>2
  <2>7. CASE WriteEnd(p) BY <2>5, <2>7 DEF WriteEnd
  <2> QED BY <1>11, <2>1, <2>2, <2>4, <2>6, <2>7 DEF Run
<1> QED BY <1>2, <1>4, <1>5, <1>6, <1>8, <1>10, <1>11 DEF Next

LEMMA InitIInv == Init => IInv
<1> SUFFICES ASSUME Init PROVE IInv OBVIOUS
<1>1. Types BY InitTypes
<1>2. Leads BY DEF Init, Leads, Opening, None
<1>3. \A d \in Sticks : Files(d) = {} /\ Connection(d) = 0 BY DEF Init, Files, Connection
<1>4. \A d \in Sticks : dev[d].kref = 0 /\ dev[d].state = "unused" BY DEF Init, NoDev
<1>5. Cardinality({}) = 0 BY FS_EmptySet
<1>6. \A d \in Sticks : /\ dev[d].kref = Cardinality(Files(d)) + Connection(d)
                        /\ dev[d].state = "live" <=> dev[d].kref > 0
  <2> SUFFICES ASSUME NEW d \in Sticks
               PROVE  /\ dev[d].kref = Cardinality(Files(d)) + Connection(d)
                      /\ dev[d].state = "live" <=> dev[d].kref > 0
    OBVIOUS
  <2>1. Cardinality(Files(d)) = 0 /\ Connection(d) = 0 BY <1>3, <1>5
  <2> QED BY <1>4, <2>1
<1>7. Refs BY <1>6 DEF Refs
<1>8. ~misuse BY DEF Init
<1> QED BY <1>1, <1>2, <1>7, <1>8 DEF IInv

LEMMA NextIInv == IInv /\ [Next]_vars => IInv'
BY NextTypes, NextLeads, NextRefs DEF IInv
-----------------------------------------------------------------------------
\* The references of a structure are its files and its connection, it is freed
\* with the last of them, and the minor number leads to a live one: for any
\* processes, and however opening, closing and disconnecting overlap.
THEOREM ReferencesAreAccounted == Spec => []RefsAccounted
<1>1. IInv => RefsAccounted
  <2> SUFFICES ASSUME IInv PROVE RefsAccounted OBVIOUS
  <2>1. ASSUME minor # None PROVE dev[minor].state = "live"
    <3>1. minor \in Sticks /\ Connection(minor) = 1
      BY <2>1 DEF IInv, Types, Leads, Connection
    <3>2. dev[minor].kref = Cardinality(Files(minor)) + 1 BY <3>1 DEF IInv, Refs
    <3> QED BY <3>1, <3>2, FilesFinite DEF IInv, Refs
  <2> QED BY <2>1 DEF IInv, Refs, RefsAccounted
<1> QED BY <1>1, InitIInv, NextIInv, PTL DEF Spec

\* No step of the driver uses a structure that has been freed.
THEOREM NothingFreedIsUsed == Spec => []NoUseAfterFree
<1>1. IInv => NoUseAfterFree BY DEF IInv, NoUseAfterFree
<1> QED BY <1>1, InitIInv, NextIInv, PTL DEF Spec

\* Every variable keeps its type, and a structure has at most a reference for
\* each process and one for the connection.
THEOREM TypeCorrect == Spec => []TypeOK
<1>1. IInv => TypeOK
  <2> SUFFICES ASSUME IInv PROVE TypeOK OBVIOUS
  <2>1. ASSUME NEW d \in Sticks PROVE dev[d].kref \in 0 .. Cardinality(Procs) + 1
    <3>1. Files(d) \subseteq Procs BY DEF Files
    <3>2. Cardinality(Files(d)) <= Cardinality(Procs) /\ Cardinality(Procs) \in Nat
      BY <3>1, FS_Subset, FS_CardinalityType
    <3>3. Connection(d) \in {0, 1} BY DEF Connection
    <3>4. dev[d].kref = Cardinality(Files(d)) + Connection(d) BY DEF IInv, Refs
    <3> QED BY <3>2, <3>3, <3>4, FilesFinite
  <2>2. dev \in [Sticks -> [state : {"unused", "live", "freed"}, kref : 0 .. Cardinality(Procs) + 1,
                            interface : BOOLEAN]]
    BY <2>1 DEF IInv, Types, Devs
  <2>3. \A p \in Procs : write[p].colors \in [Leds -> Colors] /\ write[p].i \in 0 .. NR_LEDS
    BY DEF IInv, Types, Writes
  <2> QED BY <2>2, <2>3 DEF IInv, Types, Hubs, PCs, TypeOK
<1> QED BY <1>1, InitIInv, NextIInv, PTL DEF Spec
-----------------------------------------------------------------------------
(* What a write() has done so far. *)

\* The LEDs that p's write() would have left by now, had it been alone.
Written(p) == [i \in Leds |-> IF i < write[p].i THEN write[p].colors[i] ELSE before[p][i]]

Writing(p) == pc[p] = "send" /\ alone[p]

\* Who is marked as alone is: a second write() to its stick takes the mark.
AloneInv ==
    \A p, q \in Procs :
        Writing(p) /\ pc[q] = "send" /\ q # p => file[q] # file[p]

PrefixInv == \A p \in Procs : Writing(p) /\ file[p] \in plugged => leds[file[p]] = Written(p)

LEMMA InitWrites == Init => AloneInv /\ PrefixInv
BY DEF Init, AloneInv, PrefixInv, Writing

\* A step that leaves the calls alone and darkens or adds at most a stick
\* nobody relies on.
LEMMA CoreWrites ==
    ASSUME Types, AloneInv, PrefixInv, UNCHANGED calls,
           \A p \in Procs : pc[p] = "send" /\ file[p] \in plugged'
                => file[p] \in plugged /\ leds'[file[p]] = leds[file[p]]
    PROVE  AloneInv' /\ PrefixInv'
<1>1. \A p \in Procs : (Writing(p))' = Writing(p) /\ (Written(p))' = Written(p)
  BY DEF calls, Writing, Written
<1> QED BY <1>1 DEF AloneInv, PrefixInv, calls, Writing

\* A step of p that is not a message: it is not writing, or no longer.
LEMMA NotWriting ==
    ASSUME Types, AloneInv, PrefixInv, NEW p \in Procs, pc'[p] # "send",
           \A q \in Procs : q # p => /\ pc'[q] = pc[q] /\ file'[q] = file[q] /\ write'[q] = write[q]
                                     /\ before'[q] = before[q] /\ alone'[q] = alone[q],
           UNCHANGED <<leds, plugged>>
    PROVE  AloneInv' /\ PrefixInv'
<1>1. ~(Writing(p))' BY DEF Writing
<1>2. \A q \in Procs : q # p => (Writing(q))' = Writing(q) /\ (Written(q))' = Written(q)
  BY DEF Writing, Written
<1>3. AloneInv' BY <1>1, <1>2 DEF AloneInv
<1>4. PrefixInv' BY <1>1, <1>2 DEF PrefixInv
<1> QED BY <1>3, <1>4

LEMMA WriteBegins ==
    ASSUME Types, Leads, AloneInv, PrefixInv, NEW p \in Procs, CallWrite(p)
    PROVE  AloneInv' /\ PrefixInv'
<1>1. PICK c \in Commands : write' = [write EXCEPT ![p] = [colors |-> LedsColor(c), i |-> 0]]
  BY DEF CallWrite
<1>2. /\ pc[p] = "open" /\ pc' = [pc EXCEPT ![p] = "send"]
      /\ before' = [before EXCEPT ![p] = leds[file[p]]]
      /\ alone' = [q \in Procs |-> IF q = p THEN Writers(file[p]) = {}
                                   ELSE IF q \in Writers(file[p]) THEN FALSE ELSE alone[q]]
      /\ UNCHANGED <<plugged, leds, file>>
  BY DEF CallWrite, Goto, usb
<1>3. /\ pc'[p] = "send" /\ (alone'[p] <=> Writers(file[p]) = {})
      /\ \A q \in Procs : q # p =>
            /\ pc'[q] = pc[q] /\ write'[q] = write[q] /\ before'[q] = before[q]
            /\ alone'[q] <=> alone[q] /\ q \notin Writers(file[p])
  BY <1>1, <1>2 DEF Types
<1>4. \A q \in Procs : q \in Writers(file[p]) <=> pc[q] = "send" /\ file[q] = file[p]
  BY DEF Writers
<1>5. AloneInv'
  <2> SUFFICES ASSUME NEW q \in Procs, NEW r \in Procs, (Writing(q))', pc'[r] = "send", r # q
               PROVE  file'[r] # file'[q]
    BY DEF AloneInv
  <2>1. CASE q = p BY <1>2, <1>3, <1>4, <2>1 DEF Writing
  <2>2. CASE q # p /\ r = p BY <1>2, <1>3, <1>4, <2>2 DEF Writing
  <2>3. CASE q # p /\ r # p BY <1>2, <1>3, <2>3 DEF Writing, AloneInv
  <2> QED BY <2>1, <2>2, <2>3
<1>6. PrefixInv'
  <2> SUFFICES ASSUME NEW q \in Procs, (Writing(q))', file'[q] \in plugged'
               PROVE  leds'[file'[q]] = (Written(q))'
    BY DEF PrefixInv
  <2>1. CASE q = p
    <3>1. write'[p].i = 0 /\ before'[p] = leds[file[p]] BY <1>1, <1>2 DEF Types
    <3>2. file[p] \in Sticks BY <1>2 DEF Leads
    <3>3. leds[file[p]] \in [Leds -> Colors] BY <3>2 DEF Types
    <3>4. \A i \in Leds : ~(i < 0) BY DEF Leds
    <3>5. (Written(p))' = [i \in Leds |-> leds[file[p]][i]] BY <3>1, <3>4 DEF Written
    <3> QED BY <1>2, <2>1, <3>3, <3>5
  <2>2. CASE q # p
    <3>1. Writing(q) /\ (Written(q))' = Written(q) BY <1>3, <2>2 DEF Writing, Written
    <3> QED BY <1>2, <3>1 DEF PrefixInv
  <2> QED BY <2>1, <2>2
<1> QED BY <1>5, <1>6

LEMMA MessageSent ==
    ASSUME Types, Leads, AloneInv, PrefixInv, NEW p \in Procs, Send(p)
    PROVE  AloneInv' /\ PrefixInv'
<1> DEFINE d == file[p]
           k == write[p].i
<1>1. /\ pc[p] = "send" /\ d \in Sticks /\ d \in plugged
      /\ k \in Leds /\ k \in Int /\ write[p].colors \in [Leds -> Colors]
  BY DEF Send, Sent, Leads, Types, Writes, Leds
<1>2. /\ leds' = [leds EXCEPT ![d][k] = write[p].colors[k]]
      /\ write' = [write EXCEPT ![p].i = k + 1]
      /\ UNCHANGED <<plugged, pc, file, before, alone>>
  BY DEF Send, Led, usb
<1>3. /\ \A q \in Procs : q # p => write'[q] = write[q]
      /\ write'[p].i = k + 1 /\ write'[p].colors = write[p].colors
  BY <1>2 DEF Types, Writes
<1>4. /\ \A e \in Sticks : e # d => leds'[e] = leds[e]
      /\ leds'[d] = [leds[d] EXCEPT ![k] = write[p].colors[k]]
      /\ leds[d] \in [Leds -> Colors]
  BY <1>1, <1>2 DEF Types
<1>5. \A q \in Procs : (Writing(q))' <=> Writing(q) BY <1>2 DEF Writing
<1>6. AloneInv' BY <1>2, <1>5 DEF AloneInv
<1>7. PrefixInv'
  <2> SUFFICES ASSUME NEW q \in Procs, Writing(q), file[q] \in plugged
               PROVE  leds'[file[q]] = (Written(q))'
    BY <1>2, <1>5 DEF PrefixInv
  <2>1. leds[file[q]] = Written(q) BY DEF PrefixInv
  <2>2. CASE q = p
    <3>1. leds[d] = Written(p) BY <2>1, <2>2
    <3>2. ASSUME NEW i \in Leds
          PROVE  leds'[d][i] = IF i < k + 1 THEN write[p].colors[i] ELSE before[p][i]
      <4>1. leds[d][i] = IF i < k THEN write[p].colors[i] ELSE before[p][i]
        BY <3>1 DEF Written
      <4>2. i \in Int BY DEF Leds
      <4> QED BY <1>1, <1>4, <4>1, <4>2
    <3>3. (Written(p))' = [i \in Leds |-> IF i < k + 1 THEN write[p].colors[i] ELSE before[p][i]]
      BY <1>2, <1>3 DEF Written
    <3>4. leds'[d] \in [Leds -> Colors] BY <1>1, <1>4
    <3> HIDE DEF d, k
    <3>5. leds'[d] = [i \in Leds |-> leds'[d][i]] BY <3>4
    <3> QED BY <2>2, <3>2, <3>3, <3>5 DEF d
  <2>3. CASE q # p
    <3>1. file[q] \in Sticks /\ file[q] # d BY <1>1, <2>3 DEF AloneInv, Leads, Writing
    <3>2. (Written(q))' = Written(q) BY <1>2, <1>3, <2>3 DEF Written
    <3> QED BY <1>4, <2>1, <3>1, <3>2
  <2> QED BY <2>2, <2>3
<1> QED BY <1>6, <1>7

LEMMA NextWrites ==
    Types /\ Leads /\ AloneInv /\ PrefixInv /\ [Next]_vars => AloneInv' /\ PrefixInv'
<1> SUFFICES ASSUME Types, Leads, AloneInv, PrefixInv, [Next]_vars
             PROVE  AloneInv' /\ PrefixInv'
  OBVIOUS
<1>1. CASE UNCHANGED vars BY <1>1, CoreWrites DEF vars, usb
<1>2. CASE Probe
  <2>1. /\ UNCHANGED <<leds, calls>> /\ plugged' = plugged \cup {stick + 1}
    BY <1>2 DEF Probe
  <2>2. \A p \in Procs : pc[p] = "send" => file[p] # stick + 1
    BY DEF Leads, Types, Sticks, None
  <2> QED BY <2>1, <2>2, CoreWrites
<1>3. CASE Unplug
  <2>1. /\ UNCHANGED calls /\ plugged' = plugged \ {stick}
        /\ leds' = [leds EXCEPT ![stick] = Dark] /\ stick \in Sticks
    BY <1>3 DEF Unplug, Types
  <2>2. \A p \in Procs : pc[p] = "send" => file[p] \in Sticks BY DEF Leads
  <2>3. \A e \in Sticks : e # stick => leds'[e] = leds[e] BY <2>1 DEF Types
  <2> QED BY <2>1, <2>2, <2>3, CoreWrites
<1>4. CASE Disconnect \/ Core
  <2>1. UNCHANGED <<calls, leds, plugged>>
    BY <1>4 DEF Disconnect, Core, Register, RegisterFails, Queue, Deregister, Detach, DisconnectPut
  <2> QED BY <2>1, CoreWrites
<1>5. ASSUME NEW p \in Procs, CallOpen(p) \/ Release(p) \/ OpenData(p) \/ OpenGet(p)
      PROVE  AloneInv' /\ PrefixInv'
  <2>1. /\ pc' = [pc EXCEPT ![p] = pc'[p]] /\ pc'[p] # "send"
        /\ file' = [file EXCEPT ![p] = file'[p]]
        /\ UNCHANGED <<write, before, alone, leds, plugged>>
    BY <1>5 DEF CallOpen, Release, OpenData, OpenGet, Goto, usb, Types
  <2>2. \A q \in Procs : q # p => pc'[q] = pc[q] /\ file'[q] = file[q] BY <2>1 DEF Types
  <2> QED BY <2>1, <2>2, NotWriting
<1>6. ASSUME NEW p \in Procs, SendFails(p) \/ WriteEnd(p)
      PROVE  AloneInv' /\ PrefixInv'
  <2>1. /\ pc' = [pc EXCEPT ![p] = "open"] /\ write' = [write EXCEPT ![p] = NoWrite]
        /\ before' = [before EXCEPT ![p] = Dark] /\ alone' = [alone EXCEPT ![p] = TRUE]
        /\ UNCHANGED <<file, leds, plugged>>
    BY <1>6 DEF SendFails, WriteEnd, Return, Goto, usb
  <2>2. /\ pc'[p] = "open"
        /\ \A q \in Procs : q # p => /\ pc'[q] = pc[q] /\ write'[q] = write[q]
                                     /\ before'[q] = before[q] /\ alone'[q] = alone[q]
    BY <2>1 DEF Types
  <2> QED BY <2>1, <2>2, NotWriting
<1> QED BY <1>1, <1>2, <1>3, <1>4, <1>5, <1>6, WriteBegins, MessageSent DEF Next, Call, Run

\* A write() that no other overlaps changes the LEDs from the first on and no
\* other, for any number of LEDs, commands and processes, whether the stick is
\* unplugged meanwhile, replaced, or refuses a message.
THEOREM WritesGoInOrder == Spec => []WrittenPrefix
<1>1. Init => Types /\ Leads /\ AloneInv /\ PrefixInv
  BY InitIInv, InitWrites DEF IInv
<1>2. Types /\ Leads /\ AloneInv /\ PrefixInv /\ [Next]_vars
        => (Types /\ Leads /\ AloneInv /\ PrefixInv)'
  BY NextTypes, NextLeads, NextWrites
<1>3. PrefixInv => WrittenPrefix BY DEF PrefixInv, WrittenPrefix, Writing, Written
<1> QED BY <1>1, <1>2, <1>3, PTL DEF Spec
-----------------------------------------------------------------------------
(* The games of blink_user. *)

HIDE BlinkAssumption
USE UserAssumption

Lights == {NoLight, First, Second, Green}
Racing == {"roll", "move"}
Playing == {"reset", "type", "press", "judge"}

UserTypes ==
    /\ main \in Racing \cup Playing \cup {"menu", "join", "celebrate"}
    /\ thread \in {"none", "outer", "show", "step", "turn", "look", "pause"}
    /\ ledColors \in [Places -> Lights] /\ singleColor \in Lights
    /\ cnt1 \in Int /\ cnt2 \in Int
    /\ turn \in {0, 1} /\ left \in Nat /\ frames \in 0 .. 6
    /\ keypressed \in {0, 1} /\ win \in {0, 1} /\ going \in {0, 1}
    /\ position \in Places /\ green \in Places /\ judged \in Places

\* Only the player whose turn it is can push the other off the stick, by
\* reaching the end, and then the race is over at the end of the throw.
PushedLast ==
    main \in Racing =>
        /\ cnt2 = LEDS => cnt1 = LEDS - 1 /\ turn = 0 /\ main = "move"
        /\ cnt1 = -1 => cnt2 = 0 /\ turn = 1 /\ main = "move"

RaceInv == RaceInOrder /\ PushedLast /\ WinnerIsShown

\* The next LED is a neighbour of the one that is shown, except after the turn
\* at the far end.
Near ==
    \/ position = green \/ position = green - 1 \/ position = green + 1
    \/ green = LEDS - 1 /\ position = LEDS - 3

\* When the player wins, the LED shown is the centre or beside it.
JudgedNearCentre == judged \in Centre - 1 .. Centre + 1

LightInv ==
    /\ main \in {"menu"} \cup Racing => green = 0
    /\ main \in {"menu", "celebrate"} \cup Racing => thread = "none"
    /\ main \in Playing => win = 0 /\ thread # "none"
    /\ thread # "none" => Near
    /\ thread = "step" => position = green
    /\ thread = "turn" => \/ going = 1 /\ position = green + 1
                          \/ going = 0 /\ position = green
                          \/ going = 0 /\ green = LEDS - 1 /\ position = LEDS - 2
    /\ JudgedNearCentre

UserInv == UserTypes /\ RaceInv /\ LightInv
-----------------------------------------------------------------------------
LEMMA Constants ==
    /\ LEDS \in Nat /\ Centre \in Nat /\ Centre >= 1 /\ Centre <= LEDS - 4 /\ LEDS >= 5
    /\ 0 \in Places /\ LEDS - 1 \in Places /\ 1 \in Places /\ Centre \in Places
    /\ NoLights \in [Places -> Lights]
BY DEF Places, NoLights, Lights

LEMMA InitUserInv == UserInit => UserInv
<1> SUFFICES ASSUME UserInit PROVE UserInv OBVIOUS
<1> USE Constants DEF UserInit
<1>1. UserTypes BY DEF UserTypes, Racing, Playing, Lights
<1>2. RaceInv BY DEF RaceInv, RaceInOrder, PushedLast, WinnerIsShown, Racing
<1>3. LightInv BY DEF LightInv, JudgedNearCentre, Racing, Playing, Near
<1> QED BY <1>1, <1>2, <1>3 DEF UserInv

\* A step of the light, of the menu, or of what follows a race.
LEMMA QuietUserTypes ==
    ASSUME UserTypes, ~Move, UserNext
    PROVE  UserTypes'
<1> USE Constants DEF UserTypes, Racing, Playing, Lights, race, flags, light, party
<1>1. CASE Main
  <2>1. CASE Roll BY <2>1 DEF Roll
  <2>2. CASE RaceEnd
    <3>1. WinnersColor(0) \in Lights /\ WinnersColor(LEDS - 1) \in Lights BY DEF WinnersColor
    <3>2. (turn + 1) % 2 \in {0, 1} OBVIOUS
    <3> QED BY <2>2, <3>1, <3>2 DEF RaceEnd, Celebrate
  <2>3. CASE Frame
    <3>1. ledColors' \in [Places -> Lights] BY <2>3 DEF Frame
    <3> QED BY <2>3, <3>1 DEF Frame
  <2>4. CASE BackToMenu BY <2>4 DEF BackToMenu
  <2>5. CASE Reset BY <2>5 DEF Reset
  <2>6. CASE Press BY <2>6 DEF Press, Pressed
  <2>7. CASE Judge BY <2>7 DEF Judge
  <2>8. CASE Join BY <2>8 DEF Join, Celebrate
  <2> QED BY <1>1, <2>1, <2>2, <2>3, <2>4, <2>5, <2>6, <2>7, <2>8 DEF Main
<1>2. CASE Thread
  <2>1. CASE Outer BY <2>1 DEF Outer
  <2>2. CASE Show BY <2>2 DEF Show
  <2>3. CASE Forward BY <2>3 DEF Forward, AtEnd, Places
  <2>4. CASE Backward BY <2>4 DEF Backward, Places
  <2>5. CASE Look BY <2>5 DEF Look
  <2>6. CASE Pause BY <2>6 DEF Pause
  <2> QED BY <1>2, <2>1, <2>2, <2>3, <2>4, <2>5, <2>6 DEF Thread
<1>3. CASE Player
  <2>1. CASE CallRace
    <3>1. ledColors' \in [Places -> Lights] BY <2>1 DEF CallRace
    <3> QED BY <2>1, <3>1 DEF CallRace
  <2>2. CASE CallStopIt BY <2>2 DEF CallStopIt
  <2>3. CASE Type BY <2>3 DEF Type
  <2> QED BY <1>3, <2>1, <2>2, <2>3 DEF Player
<1> QED BY <1>1, <1>2, <1>3 DEF UserNext

\* One LED of a throw: both players stay on the stick, but for the one who is
\* pushed off it at the end, and the colours follow them.
LEMMA MoveInv ==
    ASSUME UserTypes, RaceInv, Move
    PROVE  UserTypes' /\ RaceInv'
<1> USE Constants DEF UserTypes, Lights, Racing, flags, light, party
<1>1. /\ cnt1 < cnt2 /\ cnt1 \in -1 .. LEDS - 1 /\ cnt2 \in 0 .. LEDS
      /\ \A i \in Places : ledColors[i] = IF i <= cnt1 THEN First ELSE IF i >= cnt2 THEN Second ELSE NoLight
  BY DEF Move, RaceInv, RaceInOrder
<1>2. main = "move" /\ main' = "move" /\ turn' = turn /\ left' \in Nat BY DEF Move
<1>3. CASE turn = 0 /\ cnt1 < LEDS - 1
  <2>1. /\ ledColors' = [ledColors EXCEPT ![cnt1 + 1] = ledColors[cnt1]]
        /\ cnt1' = cnt1 + 1 /\ cnt2' = IF cnt1 + 1 = cnt2 THEN cnt2 + 1 ELSE cnt2
    BY <1>3 DEF Move, Pushed
  <2>2. cnt1 \in Places /\ cnt1 + 1 \in Places /\ cnt2 < LEDS
    BY <1>1, <1>2, <1>3 DEF RaceInv, PushedLast, Places
  <2>3. ledColors[cnt1] = First BY <1>1, <2>2
  <2>4. UserTypes' BY <1>2, <2>1, <2>2, <2>3 DEF Move
  <2>5. \A i \in Places : ledColors'[i] = IF i <= cnt1' THEN First ELSE IF i >= cnt2' THEN Second ELSE NoLight
    BY <1>1, <2>1, <2>2, <2>3 DEF Places
  <2>6. RaceInOrder' BY <1>1, <2>1, <2>2, <2>5 DEF RaceInOrder, Places
  <2>7. PushedLast' BY <1>1, <1>2, <1>3, <2>1, <2>2 DEF PushedLast, Places
  <2>8. WinnerIsShown' BY <1>2 DEF WinnerIsShown
  <2> QED BY <2>4, <2>6, <2>7, <2>8 DEF RaceInv
<1>4. CASE turn = 1 /\ cnt2 > 0
  <2>1. /\ ledColors' = [ledColors EXCEPT ![cnt2 - 1] = ledColors[cnt2]]
        /\ cnt2' = cnt2 - 1 /\ cnt1' = IF cnt2 - 1 = cnt1 THEN cnt1 - 1 ELSE cnt1
    BY <1>4 DEF Move, Pushed
  <2>2. cnt2 \in Places /\ cnt2 - 1 \in Places /\ cnt1 >= 0
    BY <1>1, <1>2, <1>4 DEF RaceInv, PushedLast, Places
  <2>3. ledColors[cnt2] = Second BY <1>1, <2>2
  <2>4. UserTypes' BY <1>2, <2>1, <2>2, <2>3 DEF Move
  <2>5. \A i \in Places : ledColors'[i] = IF i <= cnt1' THEN First ELSE IF i >= cnt2' THEN Second ELSE NoLight
    BY <1>1, <2>1, <2>2, <2>3 DEF Places
  <2>6. RaceInOrder' BY <1>1, <2>1, <2>2, <2>5 DEF RaceInOrder, Places
  <2>7. PushedLast' BY <1>1, <1>2, <1>4, <2>1, <2>2 DEF PushedLast, Places
  <2>8. WinnerIsShown' BY <1>2 DEF WinnerIsShown
  <2> QED BY <2>4, <2>6, <2>7, <2>8 DEF RaceInv
<1>5. CASE UNCHANGED <<ledColors, cnt1, cnt2>>
  <2>1. UserTypes' BY <1>2, <1>5 DEF Move
  <2>2. RaceInv' BY <1>2, <1>5 DEF RaceInv, RaceInOrder, PushedLast, WinnerIsShown
  <2> QED BY <2>1, <2>2
<1> QED BY <1>3, <1>4, <1>5 DEF Move

LEMMA QuietRace ==
    ASSUME UserTypes, RaceInv, ~Move, UserNext
    PROVE  RaceInv'
<1> USE Constants DEF UserTypes, Lights, Racing, race, flags, light, party
<1>1. ASSUME main' \notin Racing \cup {"celebrate"} PROVE RaceInv'
  BY <1>1 DEF RaceInv, RaceInOrder, PushedLast, WinnerIsShown
<1>2. CASE Main
  <2>1. CASE Roll BY <2>1 DEF Roll, RaceInv, RaceInOrder, PushedLast, WinnerIsShown
  <2>2. CASE RaceEnd
    <3>1. ASSUME cnt1 = LEDS - 1 PROVE WinnersColor(0) = First
      BY <2>2, <3>1 DEF RaceEnd, WinnersColor, RaceInv, RaceInOrder
    <3>2. ASSUME cnt2 = 0 PROVE WinnersColor(LEDS - 1) = Second /\ cnt1 # LEDS - 1
      BY <2>2, <3>2 DEF RaceEnd, WinnersColor, RaceInv, RaceInOrder
    <3>3. ASSUME cnt1 # LEDS - 1, cnt2 # 0 PROVE cnt1 # -1 /\ cnt2 # LEDS
      BY <2>2, <3>3 DEF RaceEnd, RaceInv, PushedLast
    <3>4. WinnerIsShown' BY <2>2, <3>1, <3>2 DEF RaceEnd, Celebrate, WinnerIsShown
    <3>5. RaceInOrder' BY <2>2 DEF RaceEnd, RaceInv, RaceInOrder
    <3>6. PushedLast' BY <2>2, <3>3 DEF RaceEnd, PushedLast
    <3> QED BY <3>4, <3>5, <3>6 DEF RaceInv
  <2>3. CASE Frame BY <2>3 DEF Frame, RaceInv, RaceInOrder, PushedLast, WinnerIsShown
  <2>4. CASE BackToMenu BY <1>1, <2>4 DEF BackToMenu
  <2>5. CASE Reset BY <1>1, <2>5 DEF Reset
  <2>6. CASE Press BY <1>1, <2>6 DEF Press
  <2>7. CASE Judge BY <1>1, <2>7 DEF Judge
  <2>8. CASE Join BY <2>8 DEF Join, Celebrate, RaceInv, RaceInOrder, PushedLast, WinnerIsShown
  <2> QED BY <1>2, <2>1, <2>2, <2>3, <2>4, <2>5, <2>6, <2>7, <2>8 DEF Main
<1>3. CASE Thread
  <2>1. UNCHANGED <<main, race, singleColor>>
    BY <1>3 DEF Thread, Outer, Show, Forward, Backward, Look, Pause
  <2> QED BY <2>1 DEF RaceInv, RaceInOrder, PushedLast, WinnerIsShown
<1>4. CASE Player
  <2>1. CASE CallRace
    <3>1. \A i \in Places : ledColors'[i] = IF i <= 0 THEN First ELSE IF i >= LEDS - 1 THEN Second ELSE NoLight
      <4>1. ledColors' = [[i \in Places |-> 0] EXCEPT ![0] = First, ![LEDS - 1] = Second]
        BY <2>1 DEF CallRace, NoLights, NoLight
      <4>2. \A i \in Places : i <= 0 <=> i = 0 BY DEF Places
      <4>3. \A i \in Places : i >= LEDS - 1 <=> i = LEDS - 1 BY DEF Places
      <4> QED BY <4>1, <4>2, <4>3 DEF NoLight
    <3>2. RaceInOrder' BY <2>1, <3>1 DEF CallRace, RaceInOrder
    <3> QED BY <2>1, <3>2 DEF CallRace, RaceInv, PushedLast, WinnerIsShown
  <2>2. CASE CallStopIt BY <1>1, <2>2 DEF CallStopIt
  <2>3. CASE Type BY <1>1, <2>3 DEF Type
  <2> QED BY <1>4, <2>1, <2>2, <2>3 DEF Player
<1> QED BY <1>2, <1>3, <1>4 DEF UserNext

LEMMA NextLight ==
    ASSUME UserTypes, LightInv, UserNext
    PROVE  LightInv'
<1> USE Constants DEF UserTypes, LightInv, JudgedNearCentre, Racing, Playing, Near, race, flags, light, party
<1>1. CASE Main
  <2>1. CASE Roll BY <2>1 DEF Roll
  <2>2. CASE Move BY <2>2 DEF Move
  <2>3. CASE RaceEnd BY <2>3 DEF RaceEnd
  <2>4. CASE Frame BY <2>4 DEF Frame
  <2>5. CASE BackToMenu BY <2>5 DEF BackToMenu
  <2>6. CASE Reset BY <2>6 DEF Reset
  <2>7. CASE Press BY <2>7 DEF Press
  <2>8. CASE Judge
    <3>1. CASE InCentre
      <4>1. green \in Centre - 1 .. Centre + 1 BY <2>8, <3>1 DEF Judge, InCentre, Places
      <4> QED BY <2>8, <3>1, <4>1 DEF Judge
    <3>2. CASE ~InCentre BY <2>8, <3>2 DEF Judge
    <3> QED BY <3>1, <3>2
  <2>9. CASE Join BY <2>9 DEF Join
  <2> QED BY <1>1, <2>1, <2>2, <2>3, <2>4, <2>5, <2>6, <2>7, <2>8, <2>9 DEF Main
<1>2. CASE Thread
  <2>1. CASE Outer BY <2>1 DEF Outer
  <2>2. CASE Show BY <2>2 DEF Show, Places
  <2>3. CASE Forward
    <3>1. thread = "step" /\ thread' = "turn" /\ position = green /\ UNCHANGED <<main, win, green, judged>>
      BY <2>3 DEF Forward
    <3>2. position \in Int /\ position >= 0 /\ position <= LEDS - 1 BY DEF Places
    <3>3. CASE going = 0 BY <2>3, <3>1, <3>3 DEF Forward
    <3>4. CASE going = 1 /\ AtEnd BY <2>3, <3>1, <3>2, <3>4 DEF Forward, AtEnd
    <3>5. CASE going = 1 /\ ~AtEnd BY <2>3, <3>1, <3>2, <3>5 DEF Forward
    <3> QED BY <3>3, <3>4, <3>5
  <2>4. CASE Backward
    <3>1. thread = "turn" /\ thread' = "look" /\ UNCHANGED <<main, win, green, judged>>
      BY <2>4 DEF Backward
    <3>2. position \in Int /\ position >= 0 /\ green \in Int BY DEF Places
    <3>3. CASE going = 1 BY <2>4, <3>1, <3>3 DEF Backward
    <3>4. CASE going = 0 /\ position = 0 BY <2>4, <3>1, <3>2, <3>4 DEF Backward
    <3>5. CASE going = 0 /\ position # 0 BY <2>4, <3>1, <3>2, <3>5 DEF Backward
    <3> QED BY <3>3, <3>4, <3>5
  <2>5. CASE Look BY <2>5 DEF Look
  <2>6. CASE Pause BY <2>6 DEF Pause
  <2> QED BY <1>2, <2>1, <2>2, <2>3, <2>4, <2>5, <2>6 DEF Thread
<1>3. CASE Player
  <2>1. CASE CallRace BY <2>1 DEF CallRace
  <2>2. CASE CallStopIt
    <3>1. green' = 0 /\ position' = 0 /\ judged' = judged BY <2>2 DEF CallStopIt
    <3>2. Near' BY <3>1
    <3>3. main' = "reset" /\ win' = 0 /\ thread' = "outer" BY <2>2 DEF CallStopIt
    <3> QED BY <3>1, <3>2, <3>3
  <2>3. CASE Type BY <2>3 DEF Type
  <2> QED BY <1>3, <2>1, <2>2, <2>3 DEF Player
<1> QED BY <1>1, <1>2, <1>3 DEF UserNext

LEMMA NextUserInv == UserInv /\ [UserNext]_userVars => UserInv'
<1> SUFFICES ASSUME UserInv, [UserNext]_userVars PROVE UserInv' OBVIOUS
<1>1. CASE UserNext
  <2>1. LightInv' BY <1>1, NextLight DEF UserInv
  <2>2. CASE Move BY <2>1, <2>2, MoveInv DEF UserInv
  <2>3. CASE ~Move BY <1>1, <2>1, <2>3, QuietUserTypes, QuietRace DEF UserInv
  <2> QED BY <2>2, <2>3
<1>2. CASE UNCHANGED userVars
  BY <1>2 DEF userVars, race, flags, light, party, UserInv, UserTypes, RaceInv, RaceInOrder, PushedLast,
              WinnerIsShown, LightInv, Near, JudgedNearCentre
<1> QED BY <1>1, <1>2
-----------------------------------------------------------------------------
\* The players never pass one another and never write outside the stick, and the
\* colour that celebrates is the winner's: on a stick of any length, with any die.
THEOREM TheRaceIsRight == UserSpec => []RaceIsRight
<1>1. UserInv => RaceIsRight BY DEF UserInv, RaceInv, RaceIsRight
<1> QED BY <1>1, InitUserInv, NextUserInv, PTL DEF UserSpec

\* The player is judged by position, which need not be the LED shown; but when the
\* player wins, the LED shown is at most one from the centre, although the light
\* moves by two LEDs where it turns, and whatever the thread does meanwhile.
THEOREM JudgedWithinOne == UserSpec => []JudgedNearCentre
<1>1. UserInv => JudgedNearCentre BY DEF UserInv, LightInv
<1> QED BY <1>1, InitUserInv, NextUserInv, PTL DEF UserSpec

\* Every variable keeps its type; in particular the light stays on the stick.
THEOREM UserTypeCorrect == UserSpec => []UserTypeOK
<1>1. UserInv => UserTypeOK BY DEF UserInv, UserTypes, Racing, Playing, Lights, UserTypeOK
<1> QED BY <1>1, InitUserInv, NextUserInv, PTL DEF UserSpec
=============================================================================
