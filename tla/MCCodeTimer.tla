---------------------------- MODULE MCCodeTimer ----------------------------
(***************************************************************************)
(* Instances of CodeTimer for TLC.  No symmetry: a run checks liveness.    *)
(***************************************************************************)
EXTENDS CodeTimer, TLC

\* A bound: each lost update of waiting moves it further from the readers that it
\* counts, so a run goes as far as the first one.
BoundedSpec == Init /\ [][~raced /\ Next]_vars /\ Fairness
=============================================================================
