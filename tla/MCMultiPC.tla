----------------------------- MODULE MCMultiPC -----------------------------
(***************************************************************************)
(* Instances of MultiPC for TLC.                                           *)
(***************************************************************************)
EXTENDS MultiPC, TLC

\* The administrators are interchangeable.
Symmetry == Permutations(Admins)

\* A bound: once the count of entries is inexact, the last buffer is not used and
\* no wait is interrupted.
OnceRaced ==
    raced => /\ Cardinality({d \in Buffers : buf[d].state # "freed"}) < MaxBuffers
             /\ signals = 0
=============================================================================
