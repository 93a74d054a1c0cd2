------------------------------ MODULE Screens ------------------------------
(***************************************************************************)
(* What the video mapping promises: every terminal has a screen of its     *)
(* own, which only its own processes write and which is kept while another *)
(* terminal is shown.  The keyboard edits the screen that is shown.        *)
(***************************************************************************)
EXTENDS ScreenText

CONSTANT Terminals

VARIABLES shown, text

Init ==
  /\ shown = 0
  /\ text = [t \in Terminals |-> <<>>]

Write(t) == text' = [text EXCEPT ![t] = Put(@, t)] /\ UNCHANGED shown
Erase == text' = [text EXCEPT ![shown] = Rub(@)] /\ UNCHANGED shown
Clear == text' = [text EXCEPT ![shown] = <<>>] /\ UNCHANGED shown
Show(t) == shown' = t /\ UNCHANGED text

Next == (\E t \in Terminals : Write(t) \/ Show(t)) \/ Erase \/ Clear

Spec == Init /\ [][Next]_<<shown, text>>
=============================================================================
