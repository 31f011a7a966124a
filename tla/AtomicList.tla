----------------------------- MODULE AtomicList -----------------------------
(***************************************************************************)
(* What a shared list promises: additions, removals and reads that happen  *)
(* at once, one after the other.                                           *)
(***************************************************************************)
EXTENDS Sequences, Removal

CONSTANTS Procs, Values, Every

VARIABLES contents,    \* the values in the list
          obs          \* what the last read() of each process returned

Init == contents = << >> /\ obs = [p \in Procs |-> << >>]

Add    == \E v \in Values : contents' = Append(contents, v) /\ UNCHANGED obs
Remove == \E v \in Values \cup {Every} : contents' = Without(contents, v, Every) /\ UNCHANGED obs
Read(p) == obs' = [obs EXCEPT ![p] = contents] /\ UNCHANGED contents

Next == Add \/ Remove \/ \E p \in Procs : Read(p)
Spec == Init /\ [][Next]_<<contents, obs>>
=============================================================================
