----------------------------- MODULE ModListSeq -----------------------------
(***************************************************************************)
(* "mod1 - Modules and proc files/modlist/Opcional2/modlist2.c": the list  *)
(* of ModList read as a sequence file.  seq_read() calls start(), then     *)
(* show() and next() while its buffer has room, which is Chunk lines; a    *)
(* listing is as many calls of read() as it takes to be returned nothing.  *)
(* More places of pc: start, show, next before those calls; end when a     *)
(* read has returned nothing; pause between two reads of a listing.        *)
(***************************************************************************)
EXTENDS ModList

CONSTANT Chunk               \* the lines that fit in the buffer of seq_read()

ASSUME SeqAssumption == Chunk \in Nat \ {0}

VARIABLES
    numElems,    \* how many nodes there are
    off,         \* *pos: where each listing is
    headShown    \* the list head has been shown as if it were a node

seq == <<vars, numElems, off, headShown>>

SeqInit == Init /\ numElems = 0 /\ off = [p \in Procs |-> 0] /\ headShown = FALSE

\* numElems++ comes before the node is linked.  Two writers that overlap damage
\* the list, so load and store are one step.
SeqCallAdd(p) == CallAdd(p) /\ numElems' = numElems + 1 /\ UNCHANGED <<off, headShown>>

SeqCallOther(p) == (CallRemove(p) \/ CallUnload(p)) /\ UNCHANGED <<numElems, off, headShown>>

\* numElems-- stands next to vfree(): before it in cleanup(), after it in remove().
OneLess == numElems - 1

SeqFree(p) == Free(p) /\ numElems' = OneLess /\ UNCHANGED <<off, headShown>>

SeqWriteStep(p) ==
    /\ pc[p] # "free"
    /\ First(p) \/ AddStep(p) \/ DeleteStep(p)
    /\ UNCHANGED <<numElems, off, headShown>>

\* A read() begins, or goes on with, a listing.
SeqCallRead(p) ==
    /\ off[p] = 0
    /\ Enter(p, "start", [NoLocals EXCEPT !.op = "read"])
    /\ UNCHANGED <<ring, loaded, late, numElems, off, headShown>>

SeqReadOn(p) ==
    /\ pc[p] = "pause" /\ loaded
    /\ Goto(p, "start")
    /\ overlap' = LET clashes == {Clash("read", loc[q].op) : q \in {q \in Procs \ {p} : InCall(q)}}
                  IN  CHOOSE n \in clashes \cup {overlap} : \A c \in clashes \cup {overlap} : c <= n
    /\ UNCHANGED <<ring, loaded, loc, late, misuse, numElems, off, headShown>>

\* Mutant: the listing ends one element early.
AtEndEarly(n) == n + 1 >= numElems

AtEnd(n) == n >= numElems

\* start(): the first node, wherever the listing is.  NULL ends the listing.
Start(p) ==
    /\ pc[p] = "start"
    /\ IF AtEnd(off[p])
       THEN Goto(p, "end") /\ UNCHANGED loc
       ELSE Goto(p, "show") /\ loc' = [loc EXCEPT ![p].pos = ring[Head0].next, ![p].aux = 0]
    /\ UNCHANGED <<ring, loaded, overlap, late, misuse, numElems, off, headShown>>

\* aux counts the lines of this read().
Show(p) ==
    /\ pc[p] = "show"
    /\ IF loc[p].pos = Head0
       THEN headShown' = TRUE /\ UNCHANGED <<loc, misuse>>
       ELSE /\ Touch(loc[p].pos)
            /\ loc' = [loc EXCEPT ![p].text = Append(@, loc[p].pos), ![p].aux = @ + 1]
            /\ UNCHANGED headShown
    /\ Goto(p, "next")
    /\ UNCHANGED <<ring, loaded, overlap, late, numElems, off>>

\* next(): (*pos)++, and the next node unless that is the end or there is no room.
SeqNextNode(p) ==
    /\ pc[p] = "next"
    /\ off' = [off EXCEPT ![p] = @ + 1]
    /\ IF loc[p].aux = Chunk \/ AtEnd(off[p] + 1)
       THEN Goto(p, "pause") /\ UNCHANGED <<loc, misuse>>
       ELSE /\ Touch(loc[p].pos)
            /\ loc' = [loc EXCEPT ![p].pos = ring[@].next]
            /\ Goto(p, "show")
    /\ UNCHANGED <<ring, loaded, overlap, late, numElems, headShown>>

\* The listing has been returned nothing; the process closes the file.
SeqEnd(p) ==
    /\ pc[p] = "end"
    /\ Return(p)
    /\ off' = [off EXCEPT ![p] = 0]
    /\ UNCHANGED <<ring, loaded, overlap, late, misuse, numElems, headShown>>

SeqCall(p) == SeqCallAdd(p) \/ SeqCallOther(p) \/ SeqCallRead(p) \/ SeqReadOn(p)
SeqStep(p) == SeqWriteStep(p) \/ SeqFree(p) \/ Start(p) \/ Show(p) \/ SeqNextNode(p) \/ SeqEnd(p)
SeqNext == ~misuse /\ ~headShown /\ \E p \in Procs : SeqCall(p) \/ SeqStep(p)
SeqSpec == SeqInit /\ [][SeqNext]_seq
-----------------------------------------------------------------------------
(* Properties. *)

\* The list head is taken for a node only when a call overlaps the listing: an
\* addition is enough, for it counts a node that is not linked yet.
HeadShownByOverlap == headShown => overlap >= 1

\* numElems counts the nodes when nobody writes, unless two writers overlapped.
CountExact == overlap < 3 /\ ~Writing => numElems = Cardinality(Live)

\* A listing that nothing overlaps has as many lines as there are nodes, and
\* each read() of it shows the first of them in order: every node is shown only
\* if the listing fits one read().
ListingComplete ==
    \A p \in Procs : pc[p] = "end" /\ overlap = 0 =>
        LET text == loc[p].text
        IN  /\ Len(text) = Cardinality(Live)
            /\ \A i \in DOMAIN text :
                /\ text[i] \in Live
                /\ Cardinality({j \in Live : j < text[i]}) = (i - 1) % Chunk
=============================================================================
