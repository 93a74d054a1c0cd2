---------------------------- MODULE ScreenText ----------------------------
(***************************************************************************)
(* What a page of video memory shows: the terminals whose processes wrote  *)
(* its lines, from the top down.                                           *)
(***************************************************************************)
EXTENDS Integers, Sequences

CONSTANT NUM_ROWS      \* lines of a screen: 25 in terminal.h

ASSUME RowsAssumption == NUM_ROWS \in Nat \ {0}

\* A process of terminal t writes a line; a full screen moves up.
Put(text, t) == Append(IF Len(text) < NUM_ROWS THEN text ELSE Tail(text), t)

\* A backspace takes the end of the text away.
Rub(text) == IF text = <<>> THEN text ELSE SubSeq(text, 1, Len(text) - 1)
=============================================================================
