------------------------------- MODULE Lines -------------------------------
(***************************************************************************)
(* What the terminals promise: each keeps the line being typed on it, and  *)
(* a program gets the line its own terminal's Enter ended, once, unless    *)
(* the program wrote in between, which discards what was typed ahead.      *)
(***************************************************************************)
EXTENDS Naturals, Sequences

CONSTANTS Terminals, Chars, MaxLine

VARIABLES
  draft,   \* characters typed on each terminal and not read
  entered, \* Enter was pressed
  got      \* the line each terminal's program read and has not answered

Init ==
  /\ draft = [t \in Terminals |-> <<>>]
  /\ entered = [t \in Terminals |-> FALSE]
  /\ got = [t \in Terminals |-> <<>>]

\* A character, or several of a kind: a tab is that many spaces.
Type(t) ==
  /\ ~ entered[t]
  /\ \E c \in Chars, n \in 1 .. MaxLine - Len(draft[t]) :
       draft' = [draft EXCEPT ![t] = @ \o [i \in 1 .. n |-> c]]
  /\ UNCHANGED <<entered, got>>

Erase(t) ==
  /\ ~ entered[t]
  /\ draft[t] # <<>>
  /\ draft' = [draft EXCEPT ![t] = SubSeq(@, 1, Len(@) - 1)]
  /\ UNCHANGED <<entered, got>>

Enter(t) ==
  /\ entered' = [entered EXCEPT ![t] = TRUE]
  /\ UNCHANGED <<draft, got>>

Read(t) ==
  /\ entered[t]
  /\ got' = [got EXCEPT ![t] = draft[t]]
  /\ draft' = [draft EXCEPT ![t] = <<>>]
  /\ entered' = [entered EXCEPT ![t] = FALSE]

Write(t) ==
  /\ draft' = [draft EXCEPT ![t] = <<>>]
  /\ got' = [got EXCEPT ![t] = <<>>]
  /\ UNCHANGED entered

Next == \E t \in Terminals : Type(t) \/ Erase(t) \/ Enter(t) \/ Read(t) \/ Write(t)

Spec == Init /\ [][Next]_<<draft, entered, got>>
=============================================================================
