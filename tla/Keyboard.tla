------------------------------ MODULE Keyboard ------------------------------
(***************************************************************************)
(* What keyboard_handler makes of a scan code (devices/keyboard.c): the    *)
(* modifier keys, the two translation tables and the order in which the    *)
(* handler tells the keys apart.                                           *)
(***************************************************************************)
EXTENDS Integers, Sequences

NUM_SCAN_CODES == 58
NUL == "NUL"
NL == "NL"
BS == "BS"

\* The tables, entry i + 1 for scan code i.
lowercase_scancode_to_char ==
  <<NUL, NUL, "1", "2", "3", "4", "5", "6", "7", "8", "9", "0", "-", "=", BS,
    NUL, "q", "w", "e", "r", "t", "y", "u", "i", "o", "p", "[", "]", NL,
    NUL, "a", "s", "d", "f", "g", "h", "j", "k", "l", ";", "apostrophe", "backquote",
    NUL, "backslash", "z", "x", "c", "v", "b", "n", "m", ",", ".", "/", NUL, NUL, NUL, " ">>
uppercase_scancode_to_char ==
  <<NUL, NUL, "!", "@", "#", "$", "%", "^", "&", "star", "(", ")", "_", "+", BS,
    NUL, "Q", "W", "E", "R", "T", "Y", "U", "I", "O", "P", "{", "}", NL,
    NUL, "A", "S", "D", "F", "G", "H", "J", "K", "L", ":", "quote", "~",
    NUL, "|", "Z", "X", "C", "V", "B", "N", "M", "<", ">", "?", NUL, NUL, NUL, " ">>

CAPS_LOCK == 58
TAB_PRESS == 15
TAB_SPACE == 4
L_PRESS == 38
F1_PRESS == 59
F3_PRESS == 61
Letters == (16 .. 25) \cup (30 .. 38) \cup (44 .. 50)

\* Press and release codes of the keys with a flag of their own.
L_SHIFT == <<42, 170>>
R_SHIFT == <<54, 182>>
CTRL == <<29, 157>>
ALT == <<56, 184>>

Flags == [caps : BOOLEAN, l_shift : BOOLEAN, r_shift : BOOLEAN, ctrl : BOOLEAN, alt : BOOLEAN]
NoFlags == [caps |-> FALSE, l_shift |-> FALSE, r_shift |-> FALSE, ctrl |-> FALSE, alt |-> FALSE]

After(flag, key, c) == (flag /\ c # key[2]) \/ c = key[1]

\* The flags after scan code c.
FlagsAfter(m, c) ==
  [caps    |-> m.caps # (c = CAPS_LOCK),
   l_shift |-> After(m.l_shift, L_SHIFT, c),
   r_shift |-> After(m.r_shift, R_SHIFT, c),
   ctrl    |-> After(m.ctrl, CTRL, c),
   alt     |-> After(m.alt, ALT, c)]

KeysOf(k) == {k[1], k[2]}
FlagCodes_CapsForgotten == KeysOf(L_SHIFT) \cup KeysOf(R_SHIFT) \cup KeysOf(CTRL) \cup KeysOf(ALT)
FlagCodes ==
  {CAPS_LOCK} \cup KeysOf(L_SHIFT) \cup KeysOf(R_SHIFT) \cup KeysOf(CTRL) \cup KeysOf(ALT)

Clears(m, c) == c = L_PRESS /\ m.ctrl
Switches(m, c) == m.alt /\ c \in F1_PRESS .. F3_PRESS

\* The handler looks the code up in a table, as long as nothing before it matched.
Translated(m, c) ==
  c \notin FlagCodes \cup {TAB_PRESS} /\ ~ Clears(m, c) /\ c <= NUM_SCAN_CODES

\* Caps lock reverses shift for the letters only.
use_caps(m, c) == (m.l_shift \/ m.r_shift) # (c \in Letters /\ m.caps)

output_char(m, c) ==
  IF use_caps(m, c) THEN uppercase_scancode_to_char[c + 1]
                    ELSE lowercase_scancode_to_char[c + 1]
=============================================================================
