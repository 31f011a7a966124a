------------------------ MODULE MCCodeTimerEvenOdd ------------------------
(***************************************************************************)
(* Instances of CodeTimerEvenOdd for TLC.                                  *)
(***************************************************************************)
EXTENDS CodeTimerEvenOdd, TLC

\* The processes are interchangeable.
Symmetry == Permutations(Procs)

\* Bounds: a run goes as far as the first lost update of waiting, as in
\* MCCodeTimer, and the threshold is set before a file is opened.
Bounded == ~raced /\ (threshold' # threshold => opens = 0)

BoundedSpec == EvenOddInit /\ [][EvenOddNext /\ Bounded]_allvars
=============================================================================
