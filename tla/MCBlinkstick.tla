---------------------------- MODULE MCBlinkstick ----------------------------
(***************************************************************************)
(* Instances of BlinkDrv and BlinkUser for TLC: the first state chooses    *)
(* which of the two runs; the other stays in its initial state.  The two   *)
(* meet in one place: lightupLeds() calls write() of the driver.           *)
(***************************************************************************)
EXTENDS BlinkDrv, BlinkUser, TLC

VARIABLE program

StickInit == Init /\ UserInit /\ program \in {"driver", "user"}
StickNext ==
    /\ UNCHANGED program
    /\ \/ program = "driver" /\ Next /\ UNCHANGED userVars
       \/ program = "user" /\ UserNext /\ UNCHANGED vars
StickSpec == StickInit /\ [][StickNext]_<<program, vars, userVars>> /\ Fairness /\ UserFairness

\* Texts: one LED, which puts the others out; one LED twice, and all the others.
Texts ==
    LET on == CHOOSE c \in Colors : c # Off
    IN  {<< <<0, on>> >>, << <<0, on>>, <<0, Off>> >> \o [i \in 1 .. NR_LEDS - 1 |-> <<i, on>>]}
=============================================================================
