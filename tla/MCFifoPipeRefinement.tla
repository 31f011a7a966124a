------------------------ MODULE MCFifoPipeRefinement ------------------------
(***************************************************************************)
(* Instances of the refinement for TLC: the first state chooses who uses   *)
(* the pipe.  "pair" is one reader and one writer, the process x never     *)
(* opens it, and calls ask for any of the lengths; in "three" x opens it   *)
(* as well and every call asks for the longest.                            *)
(***************************************************************************)
EXTENDS FifoPipeRefinement, TLC

CONSTANT x

VARIABLE users

PipeInit == Init /\ users \in {"pair", "three"}

Longest == CHOOSE n \in ReadLens \cup WriteLens : \A m \in ReadLens \cup WriteLens : m <= n

\* Three processes may stop for good (nobody wakes a second reader), a pair must
\* not: the last disjunct leaves the search for deadlocks to the pair.
PipeNext ==
    /\ UNCHANGED users
    /\ \/ users = "pair" /\ Next /\ pc'[x] = "closed"
       \/ users = "three" /\ Next /\ \A p \in Procs : len'[p] \in {0, Longest}
       \/ users = "three" /\ UNCHANGED vars

PipeSpec == PipeInit /\ [][PipeNext]_<<vars, users>> /\ \A p \in Procs : WF_vars(Run(p))

\* One reader and one writer do not wait for each other.
PairDoesNotBlock == users = "pair" => NoMutualBlock

\* One reader and one writer lose no wake.
PairIsWoken == users = "pair" => SleeperIsWoken

\* Messages of one size are neither torn nor mixed, with a second reader and
\* writer too.
MessagesOfOneSizeWhole == users = "three" => WholeMessages
=============================================================================
