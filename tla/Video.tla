------------------------------- MODULE Video -------------------------------
(***************************************************************************)
(* The video memory of the terminals.  One virtual page of the kernel and  *)
(* one of the user programs, always given the same value by neighbouring   *)
(* statements, map either the screen or the back buffer of a terminal.     *)
(* The scheduler (scheduler.c), the terminal switch (scheduler.c) and the  *)
(* editing keys (devices/terminal.c) move that mapping.  The scheduler     *)
(* runs with interrupts on: a key may come between its steps.              *)
(***************************************************************************)
EXTENDS ScreenText

CONSTANTS
  MAX_TERMINALS,   \* number of terminals: 3 in terminal.h
  Windows          \* the unguarded windows that occur, see AllWindows

\* A key between the choice of the next terminal and the comparison with the
\* terminal on the screen ("choose") or between that and the remapping ("remap"),
\* an editing key while the terminal on the screen is the scheduled one ("edit"),
\* the shell of terminal 0 restarting while another one is shown ("relaunch").
AllWindows == {"choose", "remap", "edit", "relaunch"}

ASSUME TerminalsAssumption == MAX_TERMINALS \in Nat \ {0}
ASSUME WindowsAssumption == Windows \subseteq AllWindows

Terminals == 0 .. MAX_TERMINALS - 1
Screen == -1                          \* page VIDEO; page t backs terminal t
Pages == Terminals \cup {Screen}

VARIABLES
  active,  \* active_terminal: the terminal on the screen
  sched,   \* scheduled_terminal: the terminal whose process owns the CPU
  ready,   \* initialized_terminals
  page,    \* text in each page of video memory
  vmap,    \* page the video entry of the page tables points to
  phase,   \* where the scheduler is
  choice   \* branch the scheduler took at its comparison

vars == <<active, sched, ready, page, vmap, phase, choice>>

TypeOK ==
  /\ active \in Terminals /\ sched \in Terminals
  /\ ready \subseteq Terminals
  /\ page \in [Pages -> Seq(Terminals)]
  /\ vmap \in Pages /\ choice \in Pages
  /\ phase \in {"idle", "choose", "remap"}

Init ==
  /\ active = 0 /\ sched = 0
  /\ ready = {}
  /\ page = [g \in Pages |-> <<>>]
  /\ vmap = Screen /\ choice = Screen
  /\ phase = "idle"

\* Where the text of terminal t belongs.
Home(t) == IF t = active THEN Screen ELSE t

-----------------------------------------------------------------------------
(* Processes                                                               *)

\* A system call, the echo of a line or a program with vidmap writes a line.
Write ==
  /\ phase = "idle"
  /\ sched \in ready
  /\ page' = [page EXCEPT ![vmap] = Put(@, sched)]
  /\ UNCHANGED <<active, sched, ready, vmap, phase, choice>>

\* execute announces the first shell of the terminal on the screen.
Announce ==
  /\ phase = "idle"
  /\ active \notin ready
  /\ ready' = ready \cup {active}
  /\ UNCHANGED <<active, sched, page, vmap, phase, choice>>

\* execute makes terminal 0 the active one when the shell of slot 0 restarts.
Relaunch ==
  /\ phase = "idle"
  /\ sched = 0 /\ 0 \in ready
  /\ active = 0 \/ "relaunch" \in Windows
  /\ active' = 0
  /\ UNCHANGED <<sched, ready, page, vmap, phase, choice>>

-----------------------------------------------------------------------------
(* The scheduler                                                           *)

\* How far the search for the next terminal goes to find t.
Ahead(t) == IF t > sched THEN t - sched ELSE t - sched + MAX_TERMINALS

Select ==
  /\ phase = "idle"
  /\ \E t \in ready :
       /\ \A u \in ready : Ahead(t) <= Ahead(u)
       /\ sched' = t
  /\ phase' = "choose"
  /\ UNCHANGED <<active, ready, page, vmap, choice>>

Chosen_Swapped == IF sched = active THEN sched ELSE Screen
Chosen == IF sched = active THEN Screen ELSE sched

Choose ==
  /\ phase = "choose"
  /\ choice' = Chosen
  /\ phase' = "remap"
  /\ UNCHANGED <<active, sched, ready, page, vmap>>

Remap ==
  /\ phase = "remap"
  /\ vmap' = choice
  /\ phase' = "idle"
  /\ UNCHANGED <<active, sched, ready, page, choice>>

-----------------------------------------------------------------------------
(* The keyboard interrupt                                                  *)

KeyPressed == phase = "idle" \/ phase \in Windows

\* The mapping the copies of the switch go through: the screen, unless the code
\* takes it for mapped already.
CopyMap == IF active # sched THEN Screen ELSE vmap

Copied_TooLate(t) == [page EXCEPT ![active] = page[t], ![CopyMap] = page[t]]
Copied_Restore(t) == [page EXCEPT ![CopyMap] = page[t]]
\* The screen is saved to the back buffer of the terminal that leaves it, then
\* that of t is brought in.
Copied(t) == [page EXCEPT ![active] = page[CopyMap], ![CopyMap] = page[t]]

\* After the copies the mapping goes back to the scheduled terminal's page.
Remapped(t) == IF t # sched THEN sched ELSE CopyMap

Switch(t) ==
  /\ KeyPressed
  /\ t # active
  /\ page' = Copied(t)
  /\ vmap' = Remapped(t)
  /\ active' = t
  /\ UNCHANGED <<sched, ready, phase, choice>>

\* Backspace and Ctrl-L edit the screen and then map the back buffer of the
\* scheduled terminal.
Edit(text) ==
  /\ KeyPressed
  /\ sched # active \/ "edit" \in Windows
  /\ page' = [page EXCEPT ![Screen] = text]
  /\ vmap' = sched
  /\ UNCHANGED <<active, sched, ready, phase, choice>>

Backspace == Edit(Rub(page[Screen]))
Clear == Edit(<<>>)

-----------------------------------------------------------------------------
Next ==
  \/ Write \/ Announce \/ Relaunch
  \/ Select \/ Choose \/ Remap
  \/ \E t \in Terminals : Switch(t)
  \/ Backspace \/ Clear

Spec == Init /\ [][Next]_vars

-----------------------------------------------------------------------------
(* Properties                                                              *)

Text == [t \in Terminals |-> page[Home(t)]]

Logical == INSTANCE Screens WITH shown <- active, text <- Text

\* scheduler.c:26-44 and 113-122, terminal.c:234-246: the mapping and the copies
\* implement a screen of its own for every terminal.
LogicalScreens == Logical!Spec

\* scheduler.c:39, "update paging to point to scheduled terminal after shifting
\* video", and terminal.c:243, "reset video page to point to scheduled terminal":
\* whenever a process runs, its writes go where the text of its terminal is.
OwnScreen == phase = "idle" => vmap = Home(sched)

\* scheduler.c:39-43 and 113-122, terminal.c:243-246: whichever windows occur, a
\* process writes to the screen or to the back buffer of its own terminal, never to
\* that of another one.
OwnPage == phase = "idle" => vmap \in {Screen, sched}

\* scheduler.c:33, "copy video mem into active terminal video mem", and 36, "copy
\* target page into video mem": no switch mixes the texts of two terminals.
OwnText == \A t \in Terminals : \A i \in 1 .. Len(Text[t]) : Text[t][i] = t

\* The invariant behind OwnScreen: the branch the scheduler took is still right
\* when it remaps.
MapInv ==
  /\ TypeOK
  /\ OwnScreen
  /\ phase = "remap" => choice = Home(sched)
=============================================================================
