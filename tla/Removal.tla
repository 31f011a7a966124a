------------------------------ MODULE Removal ------------------------------
(***************************************************************************)
(* What remove() and cleanup() leave of a list of values.                  *)
(***************************************************************************)
EXTENDS Integers, Sequences

\* The values of s but those equal to v, or none if v stands for every value.
Without(s, v, every) ==
    LET left[n \in 0 .. Len(s)] ==
            IF n = 0 THEN << >>
            ELSE IF v \in {every, s[n]} THEN left[n - 1] ELSE Append(left[n - 1], s[n])
    IN  left[Len(s)]
=============================================================================
