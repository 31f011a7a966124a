----------------------------- MODULE MCFifoPipe -----------------------------
(***************************************************************************)
(* Instances of FifoPipe for TLC.                                          *)
(***************************************************************************)
EXTENDS FifoPipe, TLC

\* Readers are interchangeable, and so are the Writers.
Symmetry == Permutations(Readers) \cup Permutations(Writers)
=============================================================================
