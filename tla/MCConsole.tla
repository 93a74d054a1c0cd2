----------------------------- MODULE MCConsole -----------------------------
(* Texts for the runs of Console.                                          *)
EXTENDS Console

W(n) == [i \in 1 .. n |-> WRITTEN]
N(n) == [i \in 1 .. n |-> NEWLINE]

\* Prompts, lines with their newline, and a text that is refused.
Tame == {W(1), W(2), W(1) \o N(1), W(2) \o N(1), N(1), N(2),
         W(1) \o N(1) \o N(1), W(4)}

\* The run of Console.cfg is of the kind its invariant is proved for.
ASSUME TameAssumption == Texts = Tame /\ Usage = {} => Tidy

\* More newlines than the screen has rows, in one write.
Long == {W(1), N(4)}
=============================================================================
