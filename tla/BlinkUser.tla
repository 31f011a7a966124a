------------------------------ MODULE BlinkUser ------------------------------
(***************************************************************************)
(* "mod3 - Drivers USB/ParteB/blink_user.c": two games on a stick of LEDs. *)
(* In the race two players start at the ends of the stick and throw a die  *)
(* in turns; the one who meets the other pushes it back.  In "stop it" a   *)
(* thread moves a light along the stick, and the player stops it in the    *)
(* centre.  Colours are numbers: 0 is no light.  The stick works: a        *)
(* failing lightupLeds() is only reported.  The main thread is at main:    *)
(*   menu, roll, move (of colorRace)                                       *)
(*   reset, type, press, judge, join (of stopIt), and celebrate            *)
(* and the thread of stopIt() at thread:                                   *)
(*   none; outer, show, step, turn, look, pause                            *)
(***************************************************************************)
EXTENDS Integers, FiniteSets

CONSTANTS LEDS,              \* LEDs of the stick
          Centre,            \* where the light has to be stopped
          Die                \* what a throw may give

ASSUME UserAssumption ==
    /\ LEDS \in Nat /\ Centre \in 1 .. LEDS - 4 /\ Die \subseteq Nat

NoLight   == 0
First  == 1
Second == 2
Green  == 3

VARIABLES
    main, thread,            \* where the two threads are
    ledColors,               \* of colorRace()
    cnt1, cnt2, turn, left,  \* of colorRace(); left is how much of a throw is left
    singleColor, frames,     \* of winnerSequence(): its colour and what is left of it
    keypressed, win,         \* what the threads of stopIt() share
    position, going,
    green,                   \* the LED shown green
    judged                   \* the LED shown green when the player won

race == <<ledColors, cnt1, cnt2, turn, left>>
flags == <<keypressed, win>>
light == <<position, going, green>>
party == <<singleColor, frames>>
userVars == <<main, thread, race, flags, light, party, judged>>

Places == 0 .. LEDS - 1
NoLights == [i \in Places |-> NoLight]

UserInit ==
    /\ main = "menu" /\ thread = "none"
    /\ ledColors = NoLights /\ cnt1 = 0 /\ cnt2 = LEDS - 1 /\ turn = 0 /\ left = 0
    /\ singleColor = NoLight /\ frames = 0
    /\ keypressed = 0 /\ win = 0 /\ position = 0 /\ going = 1
    /\ green = 0 /\ judged = Centre
-----------------------------------------------------------------------------
(* colorRace *)

CallRace ==
    /\ main = "menu" /\ main' = "roll"
    /\ cnt1' = 0 /\ cnt2' = LEDS - 1 /\ turn' = 0 /\ left' = 0
    /\ ledColors' = [NoLights EXCEPT ![0] = First, ![LEDS - 1] = Second]
    /\ UNCHANGED <<thread, flags, light, party, judged>>

Roll ==
    /\ main = "roll" /\ main' = "move"
    /\ left' \in Die
    /\ UNCHANGED <<ledColors, cnt1, cnt2, turn, thread, flags, light, party, judged>>

\* Mutant: nobody is pushed.
NobodyPushed(mine, other, n) == other

\* The other player is pushed when they meet.
Pushed(mine, other, n) == IF mine = other THEN other + n ELSE other

Move ==
    /\ main = "move" /\ left > 0
    /\ left' = left - 1
    /\ \/ /\ turn = 0 /\ cnt1 < LEDS - 1
          /\ ledColors' = [ledColors EXCEPT ![cnt1 + 1] = ledColors[cnt1]]
          /\ cnt1' = cnt1 + 1 /\ cnt2' = Pushed(cnt1', cnt2, 1)
       \/ /\ turn = 1 /\ cnt2 > 0
          /\ ledColors' = [ledColors EXCEPT ![cnt2 - 1] = ledColors[cnt2]]
          /\ cnt2' = cnt2 - 1 /\ cnt1' = Pushed(cnt2', cnt1, -1)
       \/ /\ IF turn = 0 THEN cnt1 >= LEDS - 1 ELSE cnt2 <= 0
          /\ UNCHANGED <<ledColors, cnt1, cnt2>>
    /\ UNCHANGED <<main, turn, thread, flags, light, party, judged>>

\* winnerSequence() shows its colour on every other LED, six times.
Celebrate(color) == singleColor' = color /\ frames' = 6

WinnersColor(i) == ledColors[i]

RaceEnd ==
    /\ main = "move" /\ left = 0
    /\ \/ /\ cnt1 = LEDS - 1
          /\ Celebrate(WinnersColor(0)) /\ main' = "celebrate"
       \/ /\ cnt1 # LEDS - 1 /\ cnt2 = 0
          /\ Celebrate(WinnersColor(LEDS - 1)) /\ main' = "celebrate"
       \/ /\ cnt1 # LEDS - 1 /\ cnt2 # 0
          /\ main' = "roll" /\ UNCHANGED party
    /\ turn' = (turn + 1) % 2
    /\ UNCHANGED <<ledColors, cnt1, cnt2, left, thread, flags, light, judged>>

Frame ==
    /\ main = "celebrate" /\ frames > 0
    /\ frames' = frames - 1
    /\ ledColors' = [i \in Places |-> IF i % 2 = frames % 2 THEN singleColor ELSE NoLight]
    /\ UNCHANGED <<main, cnt1, cnt2, turn, left, singleColor, thread, flags, light, judged>>

\* All LEDs go off, and the locals of the game are gone.
BackToMenu ==
    /\ main = "celebrate" /\ frames = 0 /\ main' = "menu"
    /\ ledColors' = NoLights /\ cnt1' = 0 /\ cnt2' = LEDS - 1 /\ turn' = 0
    /\ singleColor' = NoLight /\ green' = 0 /\ judged' = Centre
    /\ UNCHANGED <<left, frames, thread, flags, position, going>>
-----------------------------------------------------------------------------
(* stopIt *)

CallStopIt ==
    /\ main = "menu" /\ main' = "reset"
    /\ keypressed' = 0 /\ win' = 0 /\ position' = 0 /\ going' = 1
    /\ thread' = "outer"
    /\ UNCHANGED <<race, green, party, judged>>

\* The loop test, and keypressed = 0 without the lock.
Reset ==
    /\ main = "reset" /\ win = 0
    /\ keypressed' = 0
    /\ main' = "type"
    /\ UNCHANGED <<win, race, thread, light, party, judged>>

\* The player types something.
Type ==
    /\ main = "type"
    /\ main' \in {"reset", "press"}
    /\ UNCHANGED <<race, thread, flags, light, party, judged>>

\* Mutant: nobody sets keypressed.
PressForgotten == keypressed

Pressed == 1

Press ==
    /\ main = "press"
    /\ keypressed' = Pressed
    /\ main' = "judge"
    /\ UNCHANGED <<win, race, thread, light, party, judged>>

\* position is read without the lock.
InCentre == position = Centre

Judge ==
    /\ main = "judge"
    /\ IF InCentre THEN win' = 1 /\ main' = "join" /\ judged' = green
                   ELSE main' = "reset" /\ UNCHANGED <<win, judged>>
    /\ UNCHANGED <<keypressed, race, thread, light, party>>

\* pthread_join() returns.
Join ==
    /\ main = "join" /\ thread = "none"
    /\ Celebrate(Green) /\ main' = "celebrate"
    /\ UNCHANGED <<race, thread, flags, light, judged>>
-----------------------------------------------------------------------------
(* threadFunction *)

Outer ==
    /\ thread = "outer"
    /\ thread' = IF win = 1 THEN "none" ELSE "show"
    /\ UNCHANGED <<main, race, flags, light, party, judged>>

Show ==
    /\ thread = "show" /\ thread' = "step"
    /\ green' = position
    /\ UNCHANGED <<main, race, flags, position, going, party, judged>>

AtEnd == position = LEDS - 1

\* if(going)
Forward ==
    /\ thread = "step" /\ thread' = "turn"
    /\ IF going = 0 THEN UNCHANGED <<position, going>>
       ELSE IF AtEnd THEN going' = 0 /\ position' = position - 1
       ELSE position' = position + 1 /\ UNCHANGED going
    /\ UNCHANGED <<main, race, flags, green, party, judged>>

\* if(!going): after the light has turned it goes back two LEDs at once.
Backward ==
    /\ thread = "turn" /\ thread' = "look"
    /\ IF going = 1 THEN UNCHANGED <<position, going>>
       ELSE IF position = 0 THEN going' = 1 /\ position' = 1
       ELSE position' = position - 1 /\ UNCHANGED going
    /\ UNCHANGED <<main, race, flags, green, party, judged>>

\* The test of keypressed with the lock; two seconds of pause if it is set.
Look ==
    /\ thread = "look"
    /\ thread' = IF keypressed = 1 THEN "pause" ELSE "show"
    /\ UNCHANGED <<main, race, flags, light, party, judged>>

Pause ==
    /\ thread = "pause" /\ thread' = "outer"
    /\ UNCHANGED <<main, race, flags, light, party, judged>>
-----------------------------------------------------------------------------
Thread == Outer \/ Show \/ Forward \/ Backward \/ Look \/ Pause
Main   == Roll \/ Move \/ RaceEnd \/ Frame \/ BackToMenu \/ Reset \/ Press \/ Judge \/ Join
Player == CallRace \/ CallStopIt \/ Type
UserNext   == Main \/ Thread \/ Player

UserFairness == WF_userVars(Main) /\ WF_userVars(Thread)
UserSpec == UserInit /\ [][UserNext]_userVars /\ UserFairness
-----------------------------------------------------------------------------
(* Properties. *)

UserTypeOK ==
    /\ main \in {"menu", "roll", "move", "reset", "type", "press", "judge", "join", "celebrate"}
    /\ thread \in {"none", "outer", "show", "step", "turn", "look", "pause"}
    /\ ledColors \in [Places -> {NoLight, First, Second, Green}]
    /\ turn \in {0, 1} /\ left \in Nat /\ frames \in 0 .. 6
    /\ {keypressed, win, going} \subseteq {0, 1} /\ {position, green, judged} \subseteq Places

\* In the race the players never pass one another and only one of them can be
\* pushed off the stick, by the other's victory: no LED outside it is written.
\* Every LED up to the first player has its colour, every one from the second
\* player on has the other, and between them the stick is dark.
RaceInOrder ==
    main \in {"roll", "move"} =>
        /\ cnt1 < cnt2 /\ cnt1 \in -1 .. LEDS - 1 /\ cnt2 \in 0 .. LEDS
        /\ \A i \in Places : ledColors[i] = IF i <= cnt1 THEN First ELSE IF i >= cnt2 THEN Second ELSE NoLight

\* The colour that celebrates a race is that of the player who reached the other
\* end, whatever LEDs were overwritten on the way.
WinnerIsShown ==
    main = "celebrate" /\ singleColor # Green =>
        singleColor = IF cnt1 = LEDS - 1 THEN First ELSE Second

\* The colours of the race come in order, and so does the one that celebrates it.
RaceIsRight == RaceInOrder /\ WinnerIsShown

\* What readme.txt says of the second game: the player has to stop the green light
\* in the middle, so whoever wins sees it there.  False: the code judges by the LED
\* that the light goes to next, unless the thread has not moved it yet.
StoppedInCentre == judged = Centre

\* Once the player has won the thread sees it and ends, and so does the game: the
\* last keypressed = 1 is not taken back.
GameEnds == win = 1 /\ main = "join" ~> main = "menu"
=============================================================================
