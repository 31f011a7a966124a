------------------------------ MODULE BlinkDrv ------------------------------
(***************************************************************************)
(* "mod3 - Drivers USB/ParteA/blinkdrv.c": the driver of a USB stick of    *)
(* LEDs.  Every connection has a structure of its own, kept alive by       *)
(* reference counting for the files opened on it.  The USB core connects   *)
(* and disconnects in one thread, at hub:                                  *)
(*   idle        no stick is bound to the driver                           *)
(*   register    in probe(), before usb_register_dev()                     *)
(*   bound       the driver has a stick                                    *)
(*   deregister, detach, put   in disconnect(), before each of its calls   *)
(*   queued      in usb_deregister_dev(), waiting for the minor numbers    *)
(* and a process is, by pc:                                                *)
(*   closed      it has no file                                            *)
(*   found       in open(), with the interface of the minor number         *)
(*   get         in open(), before kref_get()                              *)
(*   open        it has a file and is in no call                           *)
(*   send        in write(), before a message to the stick                 *)
(* The core calls open() with the table of minor numbers locked.  To       *)
(* change the table it waits until no open() is under way, and none starts *)
(* while it waits.  Texts that write() refuses change nothing: no steps.   *)
(***************************************************************************)
EXTENDS Integers, Sequences, FiniteSets

CONSTANTS Procs,             \* processes that use the stick
          NR_LEDS,           \* LEDs of a stick
          Off, Colors,       \* no light, and the colours
          Commands,          \* texts: sequences of <<lednum, color>>
          MaxSticks          \* bound on the connections, of one at a time

ASSUME BlinkAssumption ==
    /\ IsFiniteSet(Procs) /\ NR_LEDS \in Nat \ {0} /\ MaxSticks \in Nat /\ Off \in Colors
    /\ Commands \subseteq Seq((0 .. NR_LEDS - 1) \X Colors)

Sticks == 1 .. MaxSticks
None == 0
Leds == 0 .. NR_LEDS - 1

VARIABLES
    dev,         \* the structure of each connection: state, kref, interface set
    intfdata,    \* the sticks whose interface leads to their structure
    minor,       \* the stick registered under the minor number
    hub, stick,  \* where the USB core is, and with which stick
    plugged,     \* the sticks that answer
    leds,        \* what each shows
    pc, file,    \* where each process is, and the stick of its file
    write,       \* its write(): the colours and the LED that comes next
    before,      \* what the stick showed when that write() began
    alone,       \* no other write() has overlapped it
    misuse       \* a structure that is not live has been used

usb   == <<minor, hub, stick, plugged>>
calls == <<pc, file, write, before, alone>>
vars  == <<dev, intfdata, usb, leds, calls, misuse>>

Dark   == [i \in Leds |-> Off]
NoDev  == [state |-> "unused", kref |-> 0, interface |-> FALSE]
Freed  == [state |-> "freed", kref |-> 0, interface |-> FALSE]
NoWrite == [colors |-> Dark, i |-> 0]

Init ==
    /\ dev = [d \in Sticks |-> NoDev] /\ intfdata = {} /\ minor = None
    /\ hub = "idle" /\ stick = None /\ plugged = {}
    /\ leds = [d \in Sticks |-> Dark]
    /\ pc = [p \in Procs |-> "closed"] /\ file = [p \in Procs |-> None]
    /\ write = [p \in Procs |-> NoWrite] /\ before = [p \in Procs |-> Dark]
    /\ alone = [p \in Procs |-> TRUE]
    /\ misuse = FALSE

Touch(d) == misuse' = (misuse \/ dev[d].state # "live")
Goto(p, place) == pc' = [pc EXCEPT ![p] = place]
-----------------------------------------------------------------------------
(* kref *)

\* Mutant: the structure is freed one reference too late.
LastAlready(d) == dev[d].kref = 0

LastRef(d) == dev[d].kref = 1

\* kref_put(): the last one frees the structure.
Put(d) ==
    /\ Touch(d)
    /\ dev' = IF LastRef(d) THEN [dev EXCEPT ![d] = Freed]
                            ELSE [dev EXCEPT ![d].kref = @ - 1]
-----------------------------------------------------------------------------
(* blink_probe, blink_disconnect *)

\* A stick is connected, and there is memory for its structure.
Probe ==
    /\ hub = "idle" /\ stick < MaxSticks
    /\ stick' = stick + 1
    /\ dev' = [dev EXCEPT ![stick + 1] = [state |-> "live", kref |-> 1, interface |-> TRUE]]
    /\ intfdata' = intfdata \cup {stick + 1} /\ plugged' = plugged \cup {stick + 1}
    /\ hub' = "register"
    /\ UNCHANGED <<minor, leds, calls, misuse>>

Register ==
    /\ hub = "register"
    /\ minor' = stick /\ hub' = "bound"
    /\ UNCHANGED <<dev, intfdata, stick, plugged, leds, calls, misuse>>

\* No minor number is left: the structure is given back.
RegisterFails ==
    /\ hub = "register"
    /\ intfdata' = intfdata \ {stick}
    /\ Put(stick)
    /\ hub' = "idle"
    /\ UNCHANGED <<minor, stick, plugged, leds, calls>>

\* Without the port it has no power.
Unplug ==
    /\ stick \in plugged
    /\ plugged' = plugged \ {stick} /\ leds' = [leds EXCEPT ![stick] = Dark]
    /\ UNCHANGED <<dev, intfdata, minor, hub, stick, calls, misuse>>

\* Mutant: the reference is given back before the minor number.
PutFirst == [disconnect |-> "put", deregister |-> "detach", detach |-> "idle", put |-> "deregister"]

\* What follows what in disconnect().
Then == [disconnect |-> "deregister", deregister |-> "detach", detach |-> "put", put |-> "idle"]

\* The stick is gone, or the driver is taken from it.
Disconnect ==
    /\ hub = "bound"
    /\ intfdata' = intfdata \ {stick}
    /\ hub' = Then.disconnect
    /\ UNCHANGED <<dev, minor, stick, plugged, leds, calls, misuse>>

\* The processes that hold the table of minor numbers.
Opening == {p \in Procs : pc[p] \in {"found", "get"}}

Queue ==
    /\ hub = "deregister" /\ hub' = "queued"
    /\ UNCHANGED <<dev, intfdata, minor, stick, plugged, leds, calls, misuse>>

Deregister ==
    /\ hub = "queued" /\ Opening = {}
    /\ minor' = None
    /\ hub' = Then.deregister
    /\ UNCHANGED <<dev, intfdata, stick, plugged, leds, calls, misuse>>

Detach ==
    /\ hub = "detach"
    /\ Touch(stick)
    /\ dev' = [dev EXCEPT ![stick].interface = FALSE]
    /\ hub' = Then.detach
    /\ UNCHANGED <<intfdata, minor, stick, plugged, leds, calls>>

DisconnectPut ==
    /\ hub = "put"
    /\ Put(stick)
    /\ hub' = Then.put
    /\ UNCHANGED <<intfdata, minor, stick, plugged, leds, calls>>
-----------------------------------------------------------------------------
(* blink_open, blink_release *)

\* The core has the minor number; the driver finds its interface.
CallOpen(p) ==
    /\ pc[p] = "closed" /\ minor # None /\ hub # "queued"
    /\ file' = [file EXCEPT ![p] = minor]
    /\ Goto(p, "found")
    /\ UNCHANGED <<dev, intfdata, usb, leds, write, before, alone, misuse>>

\* The interface leads to the structure, or the stick is being disconnected.
OpenData(p) ==
    /\ pc[p] = "found"
    /\ IF file[p] \in intfdata
       THEN Goto(p, "get") /\ UNCHANGED file
       ELSE Goto(p, "closed") /\ file' = [file EXCEPT ![p] = None]
    /\ UNCHANGED <<dev, intfdata, usb, leds, write, before, alone, misuse>>

\* Mutant: the file is not counted.
NotCounted(d) == dev

\* kref_get()
Counted(d) == [dev EXCEPT ![d].kref = @ + 1]

OpenGet(p) ==
    /\ pc[p] = "get"
    /\ Touch(file[p])
    /\ dev' = Counted(file[p])
    /\ Goto(p, "open")
    /\ UNCHANGED <<intfdata, usb, leds, file, write, before, alone>>

Release(p) ==
    /\ pc[p] = "open"
    /\ Put(file[p])
    /\ Goto(p, "closed") /\ file' = [file EXCEPT ![p] = None]
    /\ UNCHANGED <<intfdata, usb, leds, write, before, alone>>
-----------------------------------------------------------------------------
(* blink_write *)

\* The last colour given for an LED; an LED that is not named goes off.
LedsColor(c) ==
    [i \in Leds |->
        LET named == {k \in DOMAIN c : c[k][1] = i}
        IN  IF named = {} THEN Off ELSE c[CHOOSE k \in named : \A m \in named : m <= k][2]]

Writers(d) == {p \in Procs : pc[p] = "send" /\ file[p] = d}

CallWrite(p) ==
    LET d == file[p]
    IN  /\ pc[p] = "open"
        /\ \E c \in Commands : write' = [write EXCEPT ![p] = [colors |-> LedsColor(c), i |-> 0]]
        /\ before' = [before EXCEPT ![p] = leds[d]]
        /\ alone' = [q \in Procs |-> IF q = p THEN Writers(d) = {}
                                     ELSE IF q \in Writers(d) THEN FALSE ELSE alone[q]]
        /\ Goto(p, "send")
        /\ UNCHANGED <<dev, intfdata, usb, leds, file, misuse>>

\* The call returns: its locals are gone.
Return(p) ==
    /\ Goto(p, "open")
    /\ write' = [write EXCEPT ![p] = NoWrite] /\ before' = [before EXCEPT ![p] = Dark]
    /\ alone' = [alone EXCEPT ![p] = TRUE]

\* Mutant: the LED before.
LedBefore(i) == IF i = 0 THEN NR_LEDS - 1 ELSE i - 1
Led(i) == i
Sent(i) == i = NR_LEDS

Send(p) ==
    LET d == file[p]
        w == write[p]
    IN  /\ pc[p] = "send" /\ ~Sent(w.i)
        /\ Touch(d)
        /\ d \in plugged
        /\ leds' = [leds EXCEPT ![d][Led(w.i)] = w.colors[Led(w.i)]]
        /\ write' = [write EXCEPT ![p].i = @ + 1]
        /\ UNCHANGED <<dev, intfdata, usb, pc, file, before, alone>>

\* A message fails, as every one does to a stick that is gone: so does the call.
SendFails(p) ==
    /\ pc[p] = "send" /\ ~Sent(write[p].i)
    /\ Touch(file[p])
    /\ Return(p)
    /\ UNCHANGED <<dev, intfdata, usb, leds, file>>

WriteEnd(p) ==
    /\ pc[p] = "send" /\ Sent(write[p].i)
    /\ Return(p)
    /\ UNCHANGED <<dev, intfdata, usb, leds, file, misuse>>
-----------------------------------------------------------------------------
Core == Register \/ RegisterFails \/ Queue \/ Deregister \/ Detach \/ DisconnectPut
Run(p) == OpenData(p) \/ OpenGet(p) \/ Send(p) \/ SendFails(p) \/ WriteEnd(p)
Call(p) == CallOpen(p) \/ CallWrite(p) \/ Release(p)
Next == Probe \/ Unplug \/ Disconnect \/ Core \/ \E p \in Procs : Call(p) \/ Run(p)

\* What has been started goes on, and a stick that is unplugged is disconnected.
Gone == Disconnect /\ stick \notin plugged
Fairness == WF_vars(Core \/ Gone) /\ \A p \in Procs : WF_vars(Run(p))
Spec == Init /\ [][Next]_vars /\ Fairness
-----------------------------------------------------------------------------
(* Properties. *)

TypeOK ==
    /\ dev \in [Sticks -> [state : {"unused", "live", "freed"}, kref : 0 .. Cardinality(Procs) + 1,
                           interface : BOOLEAN]]
    /\ intfdata \subseteq Sticks /\ plugged \subseteq Sticks
    /\ minor \in Sticks \cup {None} /\ stick \in Sticks \cup {None}
    /\ hub \in {"idle", "register", "bound", "deregister", "queued", "detach", "put"}
    /\ leds \in [Sticks -> [Leds -> Colors]]
    /\ pc \in [Procs -> {"closed", "found", "get", "open", "send"}]
    /\ file \in [Procs -> Sticks \cup {None}]
    /\ \A p \in Procs : write[p].colors \in [Leds -> Colors] /\ write[p].i \in 0 .. NR_LEDS
    /\ before \in [Procs -> [Leds -> Colors]] /\ alone \in [Procs -> BOOLEAN] /\ misuse \in BOOLEAN

\* No step uses a structure that has been freed, whatever overlaps the
\* disconnection: neither open(), that meets it half way, nor the calls on files
\* that outlive it, nor the rest of disconnect().
NoUseAfterFree == ~misuse

\* The references of a structure are the files opened on it and the connection
\* itself; it is freed with the last of them, and the minor number never leads
\* to one that is not live.
Files(d) == {p \in Procs : file[p] = d /\ pc[p] \in {"open", "send"}}
Connection(d) == IF d = stick /\ hub # "idle" THEN 1 ELSE 0
RefsAccounted ==
    /\ \A d \in Sticks : dev[d].kref = Cardinality(Files(d)) + Connection(d)
    /\ \A d \in Sticks : dev[d].state = "live" <=> dev[d].kref > 0
    /\ minor # None => dev[minor].state = "live"

\* A write() that no other overlaps has changed the LEDs from the first on and
\* no other, so that one that fails leaves some of its colours before the old.
WrittenPrefix ==
    \A p \in Procs : pc[p] = "send" /\ alone[p] /\ file[p] \in plugged =>
        leds[file[p]] = [i \in Leds |-> IF i < write[p].i THEN write[p].colors[i] ELSE before[p][i]]

\* The structure of a stick that is gone is freed once no file is open on it.
GoneIsFreed ==
    \A d \in Sticks :
        dev[d].state = "live" /\ d \notin plugged ~> dev[d].state = "freed" \/ Files(d) # {}
=============================================================================
