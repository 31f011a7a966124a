------------------------------ MODULE MCLists ------------------------------
(***************************************************************************)
(* Instances of the three lists for TLC: the first state chooses whether   *)
(* the processes use modlist.c, SMPmodlist.c or modlist2.c.                *)
(***************************************************************************)
EXTENDS SMPModList, ModListSeq, TLC

VARIABLE version

smpOnly == <<sp, obs>>
seqOnly == <<numElems, off, headShown>>

ListsInit == SMPInit /\ SeqInit /\ version \in {"modlist", "smp", "seq"}

ListsNext ==
    /\ UNCHANGED version
    /\ \/ version = "modlist" /\ Next /\ UNCHANGED <<smpOnly, seqOnly>>
       \/ version = "smp" /\ SMPNext /\ UNCHANGED seqOnly
       \/ version = "seq" /\ SeqNext /\ UNCHANGED smpOnly

ListsSpec == ListsInit /\ [][ListsNext]_<<vars, smpOnly, seqOnly, version>>

\* Processes and integers are interchangeable.
Symmetry == Permutations(Procs) \cup Permutations(Values)

\* What SMPmodlist.c promises: whatever overlaps, no link of a node that is not
\* listed is followed, the ring is whole whenever the lock is free, and no call
\* that ends, failed or not, keeps the lock.
SMPKeepsListWhole == version = "smp" => LockedSafe /\ LockedIntact /\ LockReleased

\* The list of SMPmodlist.c changes and is read at once: an addition or removal
\* takes effect when its call gets the lock, a read when it ends.
Atomic == INSTANCE AtomicList WITH contents <- IF version = "smp" THEN Committed ELSE << >>
SMPIsAtomic == Atomic!Spec

\* What modlist2.c promises: a listing that nothing overlaps is what its reads
\* can show, and one that is overlapped shows the head at worst.
SeqListing == version = "seq" => HeadShownByOverlap /\ CountExact /\ ListingComplete
=============================================================================
