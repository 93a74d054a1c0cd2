----------------------------- MODULE LineInput -----------------------------
(***************************************************************************)
(* From the keyboard to a program: keyboard_handler, update_kb_buffer,     *)
(* clear_terminal, terminal_read and the part of terminal_write that       *)
(* discards what was typed (devices/keyboard.c, devices/terminal.c).       *)
(*                                                                         *)
(* A program that reads spins in terminal_read with interrupts on, and the *)
(* buffer it watches is the one of the terminal on the screen, not its     *)
(* own.  What keeps it from another terminal's line is the loop at         *)
(* terminal.c:93, which holds it until its own terminal is on the screen.  *)
(* terminal_read is cut where a key or the timer makes a difference; the   *)
(* position on the screen is the subject of Console.                       *)
(***************************************************************************)
EXTENDS Keyboard

CONSTANTS
  MAX_TERMINALS,      \* number of terminals: 3 in terminal.h
  MAX_BUFFER_LENGTH,  \* 128 in terminal.h; the array has one byte more
  ScanCodes,          \* keys the user presses and releases
  Windows,            \* of the short steps of terminal_read, those an interrupt may precede
  Careful,            \* the user waits for readers of other terminals, see Waits
  Prompting           \* programs write before they read

ASSUME TerminalsAssumption == MAX_TERMINALS \in Nat \ {0}
ASSUME BufferAssumption == MAX_BUFFER_LENGTH \in Nat \ {0}
ASSUME CodesAssumption == ScanCodes \subseteq 0 .. 255
ASSUME KeysAssumption ==
  \A c \in ScanCodes \cap (F1_PRESS .. F3_PRESS) : c - F1_PRESS < MAX_TERMINALS
ASSUME SwitchesAssumption == Careful \in BOOLEAN /\ Prompting \in BOOLEAN

Terminals == 0 .. MAX_TERMINALS - 1
NoTerm == -1

\* Steps of a thread.  In "user" the program has not written since it read.
Unguarded == {"blank", "seen", "take"}
Pc == {"user", "ready", "loop", "hold"} \cup Unguarded

VARIABLES
  mods,    \* the modifier flags
  active,  \* active_terminal
  sched,   \* scheduled_terminal, the terminal whose thread is on the CPU
  line,    \* the first current_char bytes of each keyboard_buffer
  enter,   \* enter_flag
  reset,   \* reset_flag
  clearing,\* terminal whose thread is in clear_terminal, behind its sti
  lastc,   \* last_current_char
  pc,      \* next step of each thread
  lastt,   \* last_terminal, the local variable of terminal_read
  spot,    \* index of the byte that terminal_read is about to blank
  read,    \* history: bytes of the buffer that were passed to a program
  got      \* history: the line each terminal's program read, until it writes

buffer == <<line, enter, reset, lastc>>
local  == <<pc, lastt, spot>>
vars   == <<mods, active, sched, clearing, buffer, local, read, got>>

Characters == {lowercase_scancode_to_char[i] : i \in 1 .. NUM_SCAN_CODES}
                \cup {uppercase_scancode_to_char[i] : i \in 1 .. NUM_SCAN_CODES}

TypeOK ==
  /\ mods \in Flags
  /\ active \in Terminals /\ sched \in Terminals
  /\ line \in [Terminals -> Seq(Characters)]
  /\ enter \in [Terminals -> BOOLEAN] /\ reset \in [Terminals -> BOOLEAN]
  /\ clearing \in Terminals \cup {NoTerm}
  /\ lastc \in [Terminals -> Nat]
  /\ pc \in [Terminals -> Pc]
  /\ lastt \in [Terminals -> Terminals]
  /\ spot \in [Terminals -> Nat]
  /\ read \in [Terminals -> Nat]
  /\ got \in [Terminals -> Seq(Characters)]

\* The shells are up and have not written their prompt.
Init ==
  /\ mods = NoFlags
  /\ active = 0 /\ sched = 0
  /\ line = [t \in Terminals |-> <<>>]
  /\ enter = [t \in Terminals |-> FALSE] /\ reset = [t \in Terminals |-> FALSE]
  /\ clearing = NoTerm
  /\ lastc = [t \in Terminals |-> 0]
  /\ pc = [t \in Terminals |-> "user"]
  /\ lastt = [t \in Terminals |-> 0]
  /\ spot = [t \in Terminals |-> 0]
  /\ read = [t \in Terminals |-> 0]
  /\ got = [t \in Terminals |-> <<>>]

InterruptsCome == pc[sched] \in Unguarded => pc[sched] \in Windows

\* The timer gives the CPU to the next terminal's thread.
Tick ==
  /\ InterruptsCome
  /\ sched' = (sched + 1) % MAX_TERMINALS
  /\ UNCHANGED <<mods, active, clearing, buffer, local, read, got>>

-----------------------------------------------------------------------------
(* The keyboard.  The handler runs between cli and sti; clear_terminal     *)
(* enables interrupts before it is done.                                   *)

Minimum(a, b) == IF a < b THEN a ELSE b

\* A careful user has no Enter pending on the screen while a reader of another
\* terminal is on its way to the loop that holds it.
Waits ==
  Careful /\ enter'[active'] =>
    \A t \in Terminals \ {active'} : pc[t] \in {"user", "ready", "hold"}

\* Enter, or any key after it.
EndLine ==
  /\ enter' = [enter EXCEPT ![active] = TRUE]
  /\ UNCHANGED <<line, read>>

EraseChar ==
  /\ line' = [line EXCEPT ![active] = SubSeq(@, 1, Len(@) - 1)]
  /\ read' = [read EXCEPT ![active] = Minimum(@, Len(line'[active]))]
  /\ UNCHANGED enter

\* How many characters a buffer still takes.
Free(t) == MAX_BUFFER_LENGTH - 1 - Len(line[t])

\* n times the character c, as far as there is room.
AddChars(c, n) ==
  LET k == IF Free(active) < 0 THEN 0 ELSE Minimum(n, Free(active)) IN
  /\ line' = [line EXCEPT ![active] = @ \o [i \in 1 .. k |-> c]]
  /\ UNCHANGED <<enter, read>>

Ends(c) == c = NL \/ enter[active]

\* update_kb_buffer, n times with the same character.
update_kb_buffer(c, n) ==
  /\ CASE Ends(c)                 -> EndLine
       [] ~ Ends(c) /\ c = BS     -> EraseChar
       [] ~ Ends(c) /\ c # BS     -> AddChars(c, n)
  /\ UNCHANGED <<active, reset, clearing>>

\* clear_terminal up to its sti: the screen is blank.
ClearScreen ==
  /\ clearing' = sched
  /\ UNCHANGED <<active, line, enter, reset, read>>

SwitchTo(t) ==
  /\ active' = t
  /\ UNCHANGED <<line, enter, reset, clearing, read>>

KeyDoes(c) ==
  \/ c = TAB_PRESS /\ update_kb_buffer(" ", TAB_SPACE)
  \/ Translated(mods, c) /\ update_kb_buffer(output_char(mods, c), 1)
  \/ Clears(mods, c) /\ ClearScreen
  \/ Switches(mods, c) /\ SwitchTo(c - F1_PRESS)

Silent(c) ==
  /\ c # TAB_PRESS /\ ~ Translated(mods, c) /\ ~ Clears(mods, c) /\ ~ Switches(mods, c)
  /\ UNCHANGED <<active, line, enter, reset, clearing, read>>

\* Until a handler has sent its end of interrupt, there is no other key.
keyboard_handler(c) ==
  /\ InterruptsCome
  /\ clearing = NoTerm
  /\ mods' = FlagsAfter(mods, c)
  /\ KeyDoes(c) \/ Silent(c)
  /\ Waits
  /\ UNCHANGED <<sched, lastc, local, got>>

\* The rest of clear_terminal, once the thread it interrupted has the CPU again.
ClearEnds(t) ==
  /\ clearing = t /\ sched = t
  /\ reset' = [reset EXCEPT ![active] = TRUE]
  /\ clearing' = NoTerm
  /\ UNCHANGED <<mods, active, sched, line, enter, lastc, local, read, got>>

-----------------------------------------------------------------------------
(* terminal_write and terminal_read                                        *)

At(t, step) == sched = t /\ clearing # t /\ pc[t] = step
Goto(t, step) == pc' = [pc EXCEPT ![t] = step]

Emptied_Kept(t) == line[t]
Emptied(t) == <<>>

\* terminal_write empties the buffer of its own terminal; its enter_flag stays.  More
\* than MAX_INPUT_BUF_LEN bytes are refused before that.
Write(t) ==
  /\ At(t, "user") \/ At(t, "ready")
  /\ \/ /\ line' = [line EXCEPT ![t] = Emptied(t)]
        /\ read' = [read EXCEPT ![t] = 0]
        /\ got' = [got EXCEPT ![t] = <<>>]
        /\ Goto(t, "ready")
     \/ UNCHANGED <<line, read, got, pc>>
  /\ UNCHANGED <<mods, active, sched, clearing, enter, reset, lastc, lastt, spot>>

\* terminal_read is called.  A careful user starts nothing that reads in the background.
ReadCalled(t) ==
  /\ At(t, "ready") \/ (~ Prompting /\ At(t, "user"))
  /\ Careful => active = t
  /\ lastt' = [lastt EXCEPT ![t] = active]
  /\ Goto(t, "loop")
  /\ UNCHANGED <<mods, active, sched, clearing, buffer, spot, read, got>>

Redraws(t) ==
  Len(line[active]) # lastc[active] \/ reset[active] \/ active # lastt[t]

End_LastChar == Len(line[active]) - 1
\* current_char of the terminal on the screen.
End == Len(line[active])

\* One turn of the loop that waits for Enter: the line has changed, or the user has
\* turned to another terminal.
Notice(t) ==
  /\ At(t, "loop")
  /\ ~ enter[active]
  /\ Redraws(t)
  /\ reset' = [reset EXCEPT ![active] = FALSE]
  /\ lastc' = [lastc EXCEPT ![active] = Len(line[active])]
  /\ lastt' = [lastt EXCEPT ![t] = active]
  /\ spot' = [spot EXCEPT ![t] = End]
  /\ Goto(t, "blank")
  /\ UNCHANGED <<mods, active, sched, clearing, line, enter, read, got>>

\* The byte after the line is blanked; a key between the load of current_char and
\* the store has put a character there.
Blank(t) ==
  /\ At(t, "blank")
  /\ line' = IF spot[t] < Len(line[active])
             THEN [line EXCEPT ![active][spot[t] + 1] = NUL]
             ELSE line
  /\ spot' = [spot EXCEPT ![t] = 0]
  /\ Goto(t, "hold")
  /\ UNCHANGED <<mods, active, sched, clearing, enter, reset, lastc, lastt, read, got>>

Released_AtOnce(t) == TRUE
Released_OnceSeen(t) == lastt[t] = t
Released(t) == active = t

\* The reader goes on, and echoes, while its own terminal is on the screen.
Echo(t) ==
  /\ At(t, "hold")
  /\ Released(t)
  /\ Goto(t, "loop")
  /\ UNCHANGED <<mods, active, sched, clearing, buffer, lastt, spot, read, got>>

\* The loop ends.
SeeEnter(t) ==
  /\ At(t, "loop")
  /\ enter[active]
  /\ Goto(t, "seen")
  /\ UNCHANGED <<mods, active, sched, clearing, buffer, lastt, spot, read, got>>

\* enter_flag is cleared, of the terminal that is on the screen by now.
ClearEnter(t) ==
  /\ At(t, "seen")
  /\ enter' = [enter EXCEPT ![active] = FALSE]
  /\ Goto(t, "take")
  /\ UNCHANGED <<mods, active, sched, clearing, line, reset, lastc, lastt, spot, read, got>>

\* The buffer gets a newline and is copied to the program.
TakeLine(t) ==
  /\ At(t, "take")
  /\ line' = [line EXCEPT ![active] = Append(@, NL)]
  /\ got' = [got EXCEPT ![t] = line'[active]]
  /\ read' = [read EXCEPT ![active] = Len(line'[active])]
  /\ lastt' = [lastt EXCEPT ![t] = 0]
  /\ Goto(t, "user")
  /\ UNCHANGED <<mods, active, sched, clearing, enter, reset, lastc, spot>>

terminal_read(t) ==
  Notice(t) \/ Blank(t) \/ Echo(t) \/ SeeEnter(t) \/ ClearEnter(t) \/ TakeLine(t)

Next ==
  \/ \E c \in ScanCodes : keyboard_handler(c)
  \/ Tick
  \/ \E t \in Terminals : ClearEnds(t) \/ Write(t) \/ ReadCalled(t) \/ terminal_read(t)

Spec == Init /\ [][Next]_vars

\* The timer gives every terminal the CPU for a quantum of 50 ms, in which a reader
\* takes many turns of its loop and a handler ends; the timer and the keys interrupt
\* it again and again.
Fairness ==
  /\ SF_vars(Tick)
  /\ \A t \in Terminals : SF_vars(terminal_read(t)) /\ SF_vars(ClearEnds(t))

FairSpec == Spec /\ Fairness

-----------------------------------------------------------------------------
(* Properties                                                              *)

\* The handler indexes its tables only inside them, although it lets the code
\* NUM_SCAN_CODES through (keyboard.c:222), whatever modifiers are down.
InTable ==
  \A c \in 0 .. NUM_SCAN_CODES + 1 : Translated(mods, c) => c + 1 \in DOMAIN lowercase_scancode_to_char

\* Nothing that is typed, read or blanked reaches beyond the MAX_BUFFER_LENGTH + 1
\* bytes of the buffer, behind which current_char lies (terminal.c:90, 113, 255).
InBuffer ==
  \A t \in Terminals :
    /\ Len(line[t]) + (IF pc[t] = "take" THEN 1 ELSE 0) <= MAX_BUFFER_LENGTH + 1
    /\ spot[t] <= MAX_BUFFER_LENGTH

\* A thread behind the Enter of a line took it from the terminal it belongs to: no
\* other terminal's reader gets there first, although all of them watch the
\* buffer on the screen (terminal.c:71, 105).
Taken(t) == active = t /\ \E u \in Terminals : pc[u] = "take"

Typable ==
  {" "} \cup UNION {{lowercase_scancode_to_char[c + 1], uppercase_scancode_to_char[c + 1]} :
                    c \in ScanCodes \cap (0 .. NUM_SCAN_CODES - 1)}

\* What was typed and not read, which lines were ended, and what the programs got.
Draft == [t \in Terminals |-> SubSeq(line[t], read[t] + 1, Len(line[t]))]
Ended == [t \in Terminals |-> enter[t] \/ Taken(t)]
Answer ==
  [t \in Terminals |-> IF got[t] = <<>> THEN <<>> ELSE SubSeq(got[t], 1, Len(got[t]) - 1)]

\* The terminals keep their promise, a line for the program it was typed to.
Promise == INSTANCE Lines WITH
  Chars <- Typable, MaxLine <- MAX_BUFFER_LENGTH - 1,
  draft <- Draft, entered <- Ended, got <- Answer
OwnLines == Promise!Spec

\* A program whose line was ended gets it, unless the user turns to another terminal:
\* the loop that holds readers of other terminals lets this one go (terminal.c:93).
LineArrives ==
  \A t \in Terminals :
    pc[t] \in {"loop", "blank", "hold"} /\ enter[t] ~> pc[t] = "user" \/ active # t
=============================================================================
