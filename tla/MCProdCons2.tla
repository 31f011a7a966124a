----------------------------- MODULE MCProdCons2 -----------------------------
(***************************************************************************)
(* Instances of ProdCons2 for TLC.                                         *)
(***************************************************************************)
EXTENDS ProdCons2, TLC

\* The writers are interchangeable, so are the readers and the integers.
Symmetry == Permutations(Producers) \cup Permutations(Consumers) \cup Permutations(Values)
=============================================================================
