----------------------------- MODULE MCProdCons -----------------------------
(***************************************************************************)
(* Instances of ProdCons for TLC.                                          *)
(***************************************************************************)
EXTENDS ProdCons, TLC

\* The writers are interchangeable, so are the readers and the integers.
Symmetry == Permutations(Producers) \cup Permutations(Consumers) \cup Permutations(Values)
=============================================================================
