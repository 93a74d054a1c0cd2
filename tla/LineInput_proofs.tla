-------------------------- MODULE LineInput_proofs --------------------------
(***************************************************************************)
(* What LineInput promises, for any number of terminals, any length of     *)
(* the buffer and any keyboard: nothing is written beyond the buffer, and  *)
(* every terminal's program reads the lines typed on its own terminal, as  *)
(* long as the user is careful, programs write before they read and no     *)
(* interrupt comes at the three windows of terminal_read.                  *)
(***************************************************************************)
EXTENDS LineInput, SequenceTheorems, TLAPS

-----------------------------------------------------------------------------
(* Sequences                                                               *)

LEMMA Repeated ==
  ASSUME NEW S, NEW c \in S, NEW k \in Nat
  PROVE  /\ [i \in 1 .. k |-> c] \in Seq(S)
         /\ Len([i \in 1 .. k |-> c]) = k
<1> DEFINE r == [i \in 1 .. k |-> c]
<1>1. r \in [1 .. k -> S]
  OBVIOUS
<1>2. r \in Seq(S)
  BY <1>1, SeqDef
<1> QED BY <1>1, <1>2, LenProperties

LEMMA Shortened ==
  ASSUME NEW S, NEW s \in Seq(S), s # <<>>
  PROVE  /\ SubSeq(s, 1, Len(s) - 1) \in Seq(S)
         /\ Len(SubSeq(s, 1, Len(s) - 1)) = Len(s) - 1
         /\ Len(s) - 1 \in Nat
         /\ \A i \in 1 .. Len(s) - 1 : SubSeq(s, 1, Len(s) - 1)[i] = s[i]
<1> DEFINE n == Len(s) - 1
<1>1. n \in Nat
  BY EmptySeq
<1>2. \A i \in 1 .. n : s[i] \in S
  BY <1>1, ElementOfSeq, LenProperties
<1> HIDE DEF n
<1>3. /\ SubSeq(s, 1, n) \in Seq(S)
      /\ Len(SubSeq(s, 1, n)) = IF 1 <= n THEN n - 1 + 1 ELSE 0
      /\ \A i \in 1 .. n - 1 + 1 : SubSeq(s, 1, n)[i] = s[1 + i - 1]
  BY <1>1, <1>2, SubSeqProperties
<1>4. /\ SubSeq(s, 1, n) \in Seq(S) /\ Len(SubSeq(s, 1, n)) = n
      /\ \A i \in 1 .. n : SubSeq(s, 1, n)[i] = s[i]
  BY <1>1, <1>3
<1> QED BY <1>1, <1>4 DEF n

\* Backspace, on any line.
LEMMA Erased ==
  ASSUME NEW S, NEW s \in Seq(S)
  PROVE  /\ SubSeq(s, 1, Len(s) - 1) \in Seq(S)
         /\ Len(SubSeq(s, 1, Len(s) - 1)) <= Len(s)
         /\ s = <<>> => SubSeq(s, 1, Len(s) - 1) = <<>>
<1>1. CASE s # <<>>
  <2> DEFINE r == SubSeq(s, 1, Len(s) - 1)
  <2>1. r \in Seq(S) /\ Len(r) = Len(s) - 1 /\ Len(s) \in Nat
    BY <1>1, Shortened, LenProperties
  <2> HIDE DEF r
  <2>2. r \in Seq(S) /\ Len(r) <= Len(s)
    BY <2>1
  <2> QED BY <1>1, <2>2 DEF r
<1>2. CASE s = <<>>
  <2>1. Len(s) = 0 /\ <<>> \in Seq(S)
    BY <1>2, EmptySeq
  <2>2. SubSeq(s, 1, 0 - 1) = <<>>
    BY SubSeqEmpty
  <2> QED BY <1>2, <2>1, <2>2
<1> QED BY <1>1, <1>2

-----------------------------------------------------------------------------
(* The keys                                                                *)

LEMMA Tables ==
  /\ DOMAIN lowercase_scancode_to_char = 1 .. NUM_SCAN_CODES
  /\ lowercase_scancode_to_char[NUM_SCAN_CODES] = " "
  /\ lowercase_scancode_to_char[1] = NUL
  /\ lowercase_scancode_to_char[29] = NL
BY SMTT(60) DEF lowercase_scancode_to_char, NUM_SCAN_CODES

LEMMA Known ==
  /\ " " \in Characters /\ NUL \in Characters /\ NL \in Characters
  /\ Typable \subseteq Characters
  /\ Typable # {}
<1>1. \A i \in 1 .. NUM_SCAN_CODES : lowercase_scancode_to_char[i] \in Characters
                                  /\ uppercase_scancode_to_char[i] \in Characters
  BY DEF Characters
<1>2. NUM_SCAN_CODES \in 1 .. NUM_SCAN_CODES /\ 1 \in 1 .. NUM_SCAN_CODES
      /\ 29 \in 1 .. NUM_SCAN_CODES
  BY DEF NUM_SCAN_CODES
<1>3. " " \in Characters /\ NUL \in Characters /\ NL \in Characters
  BY <1>1, <1>2, Tables
<1>4. \A c \in ScanCodes \cap (0 .. NUM_SCAN_CODES - 1) : c + 1 \in 1 .. NUM_SCAN_CODES
  BY DEF NUM_SCAN_CODES
<1>5. ASSUME NEW x \in Typable PROVE x \in Characters
  <2>1. CASE x = " "
    BY <1>3, <2>1
  <2>2. CASE x # " "
    <3>1. PICK c \in ScanCodes \cap (0 .. NUM_SCAN_CODES - 1) :
            x \in {lowercase_scancode_to_char[c + 1], uppercase_scancode_to_char[c + 1]}
      BY <1>5, <2>2 DEF Typable
    <3> QED BY <1>1, <1>4, <3>1
  <2> QED BY <2>1, <2>2
<1>6. " " \in Typable
  BY DEF Typable
<1> QED BY <1>3, <1>5, <1>6

\* A code that is looked up in a table is one the table has an entry for.
LEMMA CodesInTable ==
  ASSUME NEW m, NEW c \in Nat, Translated(m, c)
  PROVE  c \in 0 .. NUM_SCAN_CODES - 1
BY DEF Translated, FlagCodes, CAPS_LOCK, NUM_SCAN_CODES

LEMMA Looked ==
  ASSUME NEW m, NEW c \in ScanCodes, Translated(m, c)
  PROVE  output_char(m, c) \in Typable
<1>1. c \in 0 .. NUM_SCAN_CODES - 1
  BY CodesInTable, CodesAssumption
<1> DEFINE K == {lowercase_scancode_to_char[c + 1], uppercase_scancode_to_char[c + 1]}
<1>2. output_char(m, c) \in K
  BY DEF output_char
<1> HIDE DEF K
<1>3. K \subseteq Typable
  BY <1>1 DEF Typable, K
<1> QED BY <1>2, <1>3

\* LineInput: keyboard_handler, which lets NUM_SCAN_CODES through (keyboard.c:222),
\* never indexes its tables beyond their end, whatever modifiers are down.
THEOREM KeysInTable == Spec => []InTable
<1>1. InTable
  <2> SUFFICES ASSUME NEW c \in 0 .. NUM_SCAN_CODES + 1, Translated(mods, c)
               PROVE  c + 1 \in DOMAIN lowercase_scancode_to_char
    BY DEF InTable
  <2>1. c \in 0 .. NUM_SCAN_CODES - 1
    BY CodesInTable DEF NUM_SCAN_CODES
  <2>2. c + 1 \in 1 .. NUM_SCAN_CODES
    BY <2>1 DEF NUM_SCAN_CODES
  <2> QED BY <2>2, Tables
<1> QED BY <1>1, PTL

\* What a scan code does to the line on the screen.
Adds(x, n) ==
  /\ ~ enter[active]
  /\ AddChars(x, n)
  /\ UNCHANGED <<active, reset>>

Erases == ~ enter[active] /\ EraseChar /\ UNCHANGED <<active, reset>>

Typed(c) ==
  \/ EndLine /\ UNCHANGED <<active, reset>>
  \/ Erases
  \/ \E x \in Typable, n \in {1, TAB_SPACE} : Adds(x, n)
  \/ UNCHANGED <<active, line, enter, read>>
  \/ \E t \in Terminals : SwitchTo(t)

LEMMA Updates ==
  ASSUME NEW x \in Typable, NEW n \in {1, TAB_SPACE}, NEW c, update_kb_buffer(x, n)
  PROVE  Typed(c)
<1>1. CASE Ends(x)
  BY <1>1 DEF update_kb_buffer, Typed
<1>2. CASE ~ Ends(x) /\ x = BS
  BY <1>2 DEF update_kb_buffer, Typed, Erases, Ends
<1>3. CASE ~ Ends(x) /\ x # BS
  BY <1>3 DEF update_kb_buffer, Typed, Adds, Ends
<1> QED BY <1>1, <1>2, <1>3

LEMMA KeyTyped ==
  ASSUME NEW c \in ScanCodes, keyboard_handler(c)
  PROVE  Typed(c)
<1>1. CASE c = TAB_PRESS /\ update_kb_buffer(" ", TAB_SPACE)
  BY <1>1, Updates DEF Typable
<1>2. CASE Translated(mods, c) /\ update_kb_buffer(output_char(mods, c), 1)
  BY <1>2, Updates, Looked
<1>3. CASE ClearScreen \/ Silent(c)
  BY <1>3 DEF ClearScreen, Silent, Typed
<1>4. CASE Switches(mods, c) /\ SwitchTo(c - F1_PRESS)
  <2>1. c - F1_PRESS \in Terminals
    BY <1>4, KeysAssumption, TerminalsAssumption DEF Switches, Terminals, F1_PRESS, F3_PRESS
  <2> QED BY <1>4, <2>1 DEF Typed
<1> QED BY <1>1, <1>2, <1>3, <1>4 DEF keyboard_handler, KeyDoes

-----------------------------------------------------------------------------
(* Types                                                                   *)

TypedLine == line \in [Terminals -> Seq(Characters)]

LEMMA Added ==
  ASSUME TypeOK, NEW x \in Typable, NEW n \in {1, TAB_SPACE}, Adds(x, n)
  PROVE  \E k \in 0 .. n :
           LET r == [i \in 1 .. k |-> x] IN
           /\ line' = [line EXCEPT ![active] = @ \o r]
           /\ r \in Seq(Characters) /\ Len(r) = k
           /\ Len(line'[active]) = Len(line[active]) + k
           /\ TypedLine'
           /\ k > 0 => Len(line'[active]) <= MAX_BUFFER_LENGTH - 1
<1> DEFINE k == IF Free(active) < 0 THEN 0 ELSE Minimum(n, Free(active))
           s == line[active]
           r == [i \in 1 .. k |-> x]
<1>1. s \in Seq(Characters) /\ Len(s) \in Nat
  BY LenProperties DEF TypeOK
<1>2. k \in 0 .. n /\ (k > 0 => k <= MAX_BUFFER_LENGTH - 1 - Len(s))
  <2>1. n \in Nat
    BY DEF TAB_SPACE
  <2>2. Free(active) = MAX_BUFFER_LENGTH - 1 - Len(s) /\ Free(active) \in Int
    BY <1>1, BufferAssumption DEF Free
  <2> QED BY <2>1, <2>2 DEF Minimum
<1>3. line' = [line EXCEPT ![active] = @ \o r]
  BY DEF Adds, AddChars
<1> HIDE DEF k
<1>4. k \in Nat
  BY <1>2
<1>5. r \in Seq(Characters) /\ Len(r) = k
  BY <1>4, Known, Repeated
<1> HIDE DEF r
<1>6. s \o r \in Seq(Characters) /\ Len(s \o r) = Len(s) + k
  BY <1>1, <1>5, ConcatProperties
<1>7. TypedLine' /\ Len(line'[active]) = Len(s) + k
  BY <1>3, <1>6 DEF TypeOK, TypedLine
<1>8. k > 0 => Len(line'[active]) <= MAX_BUFFER_LENGTH - 1
  BY <1>1, <1>2, <1>4, <1>7, BufferAssumption
<1> QED BY <1>1, <1>2, <1>3, <1>5, <1>7, <1>8 DEF r

LEMMA KeyTypes ==
  ASSUME TypeOK, NEW c \in ScanCodes, keyboard_handler(c)
  PROVE  TypeOK'
<1>1. /\ mods' \in Flags
      /\ UNCHANGED <<sched, lastc, pc, lastt, spot, got, reset>>
      /\ clearing' \in Terminals \cup {NoTerm}
  BY DEF keyboard_handler, TypeOK, local, FlagsAfter, After, Flags, KeyDoes, Silent,
     update_kb_buffer, ClearScreen, SwitchTo
<1>2. Typed(c)
  BY KeyTyped
<1>3. CASE EndLine /\ UNCHANGED <<active, reset>>
  BY <1>1, <1>3 DEF TypeOK, EndLine
<1>4. CASE Erases
  <2> DEFINE s == line[active]
             r == SubSeq(s, 1, Len(s) - 1)
  <2>1. s \in Seq(Characters) /\ r \in Seq(Characters)
    BY Erased DEF TypeOK
  <2>2. line' = [line EXCEPT ![active] = r] /\ read' = [read EXCEPT ![active] = Minimum(@, Len(line'[active]))]
    BY <1>4 DEF Erases, EraseChar
  <2> HIDE DEF r
  <2>3. TypedLine' /\ line'[active] = r
    BY <2>1, <2>2 DEF TypeOK, TypedLine
  <2>4. Len(r) \in Nat
    BY <2>1, LenProperties
  <2>5. read' \in [Terminals -> Nat]
    BY <2>2, <2>3, <2>4 DEF TypeOK, Minimum
  <2> QED BY <1>1, <1>4, <2>3, <2>5 DEF TypeOK, TypedLine, Erases, EraseChar
<1>5. ASSUME NEW x \in Typable, NEW n \in {1, TAB_SPACE}, Adds(x, n)
      PROVE  TypeOK'
  <2>1. TypedLine'
    BY <1>5, Added
  <2> QED BY <1>1, <1>5, <2>1 DEF TypeOK, TypedLine, Adds, AddChars
<1>6. CASE UNCHANGED <<active, line, enter, read>> \/ \E t \in Terminals : SwitchTo(t)
  BY <1>1, <1>6 DEF TypeOK, SwitchTo
<1> QED BY <1>2, <1>3, <1>4, <1>5, <1>6 DEF Typed

LEMMA ReadTypes ==
  ASSUME TypeOK, NEW t \in Terminals, terminal_read(t)
  PROVE  TypeOK'
<1> USE DEF At, Goto, buffer, Pc, Unguarded
<1>0. 0 \in Terminals
  BY TerminalsAssumption DEF Terminals
<1>1. \A u \in Terminals : line[u] \in Seq(Characters) /\ Len(line[u]) \in Nat
  BY LenProperties DEF TypeOK
<1>2. CASE Notice(t)
  BY <1>1, <1>2 DEF TypeOK, Notice, End
<1>3. CASE Blank(t)
  <2> DEFINE s == line[active]
             r == [s EXCEPT ![spot[t] + 1] = NUL]
  <2>1. CASE spot[t] < Len(s)
    <3>1. spot[t] + 1 \in 1 .. Len(s) /\ s \in Seq(Characters)
      <4>1. active \in Terminals /\ spot[t] \in Nat
        BY DEF TypeOK
      <4> QED BY <1>1, <2>1, <4>1
    <3>2. r \in Seq(Characters)
      BY <3>1, Known, ExceptSeq
    <3>3. line' = [line EXCEPT ![active] = r]
      BY <1>3, <2>1 DEF Blank, TypeOK
    <3> HIDE DEF r
    <3>4. TypedLine'
      BY <3>2, <3>3 DEF TypeOK, TypedLine
    <3> QED BY <1>3, <3>4 DEF TypeOK, Blank, TypedLine
  <2>2. CASE ~ (spot[t] < Len(s))
    BY <1>3, <2>2 DEF TypeOK, Blank
  <2> QED BY <2>1, <2>2
<1>4. CASE Echo(t)
  BY <1>4 DEF TypeOK, Echo
<1>5. CASE SeeEnter(t) \/ ClearEnter(t)
  BY <1>5 DEF TypeOK, SeeEnter, ClearEnter
<1>6. CASE TakeLine(t)
  <2> DEFINE r == Append(line[active], NL)
  <2>1. r \in Seq(Characters) /\ Len(r) \in Nat
    BY <1>1, Known, AppendProperties, LenProperties DEF TypeOK
  <2>2. line' = [line EXCEPT ![active] = r] /\ got' = [got EXCEPT ![t] = line'[active]]
    BY <1>6 DEF TakeLine
  <2> HIDE DEF r
  <2>3. TypedLine' /\ line'[active] = r
    BY <2>1, <2>2 DEF TypeOK, TypedLine
  <2> QED BY <1>0, <1>6, <2>1, <2>2, <2>3 DEF TypeOK, TakeLine, TypedLine
<1> QED BY <1>2, <1>3, <1>4, <1>5, <1>6 DEF terminal_read

LEMMA NextTerminal ==
  ASSUME NEW t \in Terminals
  PROVE  (t + 1) % MAX_TERMINALS \in Terminals
BY TerminalsAssumption DEF Terminals

LEMMA NextTypes == TypeOK /\ [Next]_vars => TypeOK'
<1> SUFFICES ASSUME TypeOK, [Next]_vars PROVE TypeOK'
  OBVIOUS
<1>1. CASE Tick
  <2>1. sched' \in Terminals
    BY <1>1, NextTerminal DEF TypeOK, Tick
  <2> QED BY <1>1, <2>1 DEF TypeOK, Tick, buffer, local
<1>2. ASSUME NEW t \in Terminals, Write(t)
      PROVE  TypeOK'
  <2>1. <<>> \in Seq(Characters)
    BY EmptySeq
  <2>2. UNCHANGED <<mods, active, sched, clearing, enter, reset, lastc, lastt, spot>>
    BY <1>2 DEF Write
  <2>3. /\ line' \in {line, [line EXCEPT ![t] = <<>>]}
        /\ read' \in {read, [read EXCEPT ![t] = 0]}
        /\ got' \in {got, [got EXCEPT ![t] = <<>>]}
        /\ pc' \in {pc, [pc EXCEPT ![t] = "ready"]}
    BY <1>2 DEF Write, Emptied, Goto
  <2>4. line' \in [Terminals -> Seq(Characters)]
    BY <2>1, <2>3 DEF TypeOK
  <2>5. read' \in [Terminals -> Nat]
    BY <2>3 DEF TypeOK
  <2>6. got' \in [Terminals -> Seq(Characters)]
    BY <2>1, <2>3 DEF TypeOK
  <2>7. pc' \in [Terminals -> Pc]
    BY <2>3 DEF TypeOK, Pc
  <2> QED BY <2>2, <2>4, <2>5, <2>6, <2>7 DEF TypeOK
<1>3. ASSUME NEW t \in Terminals, ReadCalled(t)
      PROVE  TypeOK'
  BY <1>3 DEF TypeOK, ReadCalled, Goto, Pc, buffer
<1>4. CASE UNCHANGED vars
  BY <1>4 DEF TypeOK, vars, buffer, local
<1>5. ASSUME NEW t \in Terminals, ClearEnds(t)
      PROVE  TypeOK'
  BY <1>5 DEF TypeOK, ClearEnds, local
<1> QED BY <1>1, <1>2, <1>3, <1>4, <1>5, KeyTypes, ReadTypes DEF Next

LEMMA InitTypes == Init => TypeOK
<1>1. <<>> \in Seq(Characters) /\ 0 \in Terminals
  BY EmptySeq, TerminalsAssumption DEF Terminals
<1> QED BY <1>1 DEF Init, TypeOK, NoFlags, Flags, Pc

\* LineInput: every buffer holds characters of the two tables (keyboard.c), and every
\* index into the terminals is one of a terminal.
THEOREM TypeCorrect == Spec => []TypeOK
BY InitTypes, NextTypes, PTL DEF Spec

-----------------------------------------------------------------------------
(* Whose line a reader takes                                               *)

\* The conditions under which the terminals keep their promise.
Orderly == Careful /\ Prompting /\ Windows = {}

\* While an Enter waits on the screen, no other terminal's reader can see it: it is
\* held (terminal.c:93) or is not reading.
HeldInv ==
  enter[active] => \A t \in Terminals \ {active} : pc[t] \in {"user", "ready", "hold"}

\* A thread between two steps that nothing may interrupt has the CPU; one that takes
\* a line takes its own terminal's.
SoleInv ==
  \A t \in Terminals :
    /\ pc[t] \in Unguarded => sched = t
    /\ pc[t] = "seen" => active = t /\ enter[t]
    /\ pc[t] = "take" => active = t /\ ~ enter[t]
    /\ pc[t] = "blank" => spot[t] = Len(line[active])

\* From a program's write to the end of its next read, nothing of the line was read.
FreshInv ==
  \A t \in Terminals :
    /\ read[t] <= Len(line[t])
    /\ pc[t] # "user" => read[t] = 0

\* The newline has room, and only a line that was read has used it.
RoomInv ==
  \A t \in Terminals :
    /\ Len(line[t]) <= MAX_BUFFER_LENGTH
    /\ pc[t] # "user" => Len(line[t]) <= MAX_BUFFER_LENGTH - 1
    /\ spot[t] <= MAX_BUFFER_LENGTH

IInv == TypeOK /\ HeldInv /\ SoleInv /\ FreshInv /\ RoomInv

\* What the step lemmas need of the types.
Shapes ==
  /\ active \in Terminals /\ sched \in Terminals
  /\ enter \in [Terminals -> BOOLEAN] /\ pc \in [Terminals -> Pc]
  /\ spot \in [Terminals -> Nat] /\ read \in [Terminals -> Nat]
  /\ DOMAIN line = Terminals /\ DOMAIN got = Terminals
  /\ \A t \in Terminals : line[t] \in Seq(Characters) /\ Len(line[t]) \in Nat

LEMMA Shaped == (TypeOK => Shapes) /\ (TypeOK' => Shapes')
<1>1. TypeOK => Shapes
  BY LenProperties DEF TypeOK, Shapes
<1>2. TypeOK' => Shapes'
  BY LenProperties DEF TypeOK, Shapes
<1> QED BY <1>1, <1>2

LEMMA NoneUnguarded ==
  ASSUME Orderly, Shapes, SoleInv, InterruptsCome
  PROVE  \A t \in Terminals : pc[t] \notin Unguarded
BY DEF Orderly, InterruptsCome, SoleInv

LEMMA TickInv ==
  ASSUME Orderly, IInv, Tick
  PROVE  IInv'
<1>1. TypeOK'
  BY NextTypes DEF IInv, Next
<1>2. \A u \in Terminals : pc[u] \notin Unguarded
  BY Shaped, NoneUnguarded DEF IInv, Tick
<1> QED BY <1>1, <1>2 DEF IInv, Tick, HeldInv, SoleInv, FreshInv, RoomInv, Unguarded, buffer, local

LEMMA WriteInv ==
  ASSUME Orderly, IInv, NEW t \in Terminals, Write(t)
  PROVE  IInv'
<1>1. TypeOK'
  BY NextTypes DEF IInv, Next
<1>2. Shapes /\ Len(<<>>) = 0 /\ MAX_BUFFER_LENGTH \in Nat \ {0}
  BY Shaped, BufferAssumption DEF IInv
<1>3. \A u \in Terminals : pc[u] \notin Unguarded
  BY <1>2 DEF IInv, SoleInv, Write, At, Shapes, Unguarded
<1> USE <1>2 DEF IInv, Shapes, Write, Emptied, Goto, At
<1>4. HeldInv'
  BY DEF HeldInv
<1>5. SoleInv'
  BY <1>3 DEF SoleInv, Unguarded
<1>6. FreshInv'
  BY DEF FreshInv
<1>7. RoomInv'
  BY DEF RoomInv
<1> QED BY <1>1, <1>4, <1>5, <1>6, <1>7

LEMMA CallInv ==
  ASSUME Orderly, IInv, NEW t \in Terminals, ReadCalled(t)
  PROVE  IInv'
<1>1. TypeOK'
  BY NextTypes DEF IInv, Next
<1>2. Shapes
  BY Shaped DEF IInv
<1>3. pc[t] = "ready" /\ active = t
  BY DEF Orderly, ReadCalled, At
<1> QED BY <1>1, <1>2, <1>3 DEF IInv, Shapes, ReadCalled, Goto, buffer, HeldInv, SoleInv, FreshInv,
                             RoomInv, Unguarded

LEMMA LoopInv ==
  ASSUME Orderly, IInv, NEW t \in Terminals, Notice(t) \/ Blank(t) \/ Echo(t) \/ ClearEnds(t)
  PROVE  IInv'
<1>1. TypeOK'
  BY NextTypes DEF IInv, Next, terminal_read
<1>2. Shapes
  BY Shaped DEF IInv
<1> USE <1>2 DEF IInv, Shapes, Goto, At
<1>3. CASE Notice(t)
  <2>1. \A u \in Terminals : pc[u] \notin Unguarded
    BY <1>3 DEF SoleInv, Notice, Unguarded
  <2> QED BY <1>1, <1>3, <2>1 DEF Notice, End, HeldInv, SoleInv, FreshInv, RoomInv, Unguarded
<1>4. CASE Blank(t)
  <2>1. line' = line /\ \A u \in Terminals \ {t} : pc[u] \notin Unguarded
    BY <1>4 DEF SoleInv, Blank, Unguarded
  <2> QED BY <1>1, <1>4, <2>1, BufferAssumption
          DEF Blank, HeldInv, SoleInv, FreshInv, RoomInv, Unguarded
<1>5. CASE Echo(t)
  BY <1>1, <1>5 DEF Echo, Released, buffer, HeldInv, SoleInv, FreshInv, RoomInv, Unguarded
<1>6. CASE ClearEnds(t)
  BY <1>1, <1>6 DEF ClearEnds, local, HeldInv, SoleInv, FreshInv, RoomInv, Unguarded
<1> QED BY <1>3, <1>4, <1>5, <1>6

LEMMA EnterInv ==
  ASSUME Orderly, IInv, NEW t \in Terminals, SeeEnter(t) \/ ClearEnter(t)
  PROVE  IInv'
<1>1. TypeOK'
  BY NextTypes DEF IInv, Next, terminal_read
<1>2. Shapes
  BY Shaped DEF IInv
<1>3. active = t
  BY <1>2 DEF IInv, HeldInv, SoleInv, SeeEnter, ClearEnter, At, Shapes
<1>4. \A u \in Terminals \ {t} : pc[u] \notin Unguarded
  BY <1>2 DEF IInv, SoleInv, SeeEnter, ClearEnter, At, Shapes, Unguarded
<1> USE <1>2, <1>3, <1>4 DEF IInv, Shapes, At, Goto, HeldInv, SoleInv, FreshInv, RoomInv, Unguarded
<1>5. CASE SeeEnter(t)
  BY <1>1, <1>5 DEF SeeEnter, buffer
<1>6. CASE ClearEnter(t)
  BY <1>1, <1>6 DEF ClearEnter
<1> QED BY <1>5, <1>6

LEMMA TakeInv ==
  ASSUME Orderly, IInv, NEW t \in Terminals, TakeLine(t)
  PROVE  IInv'
<1>1. TypeOK'
  BY NextTypes DEF IInv, Next, terminal_read
<1>2. Shapes /\ active = t /\ sched = t /\ pc[t] = "take" /\ ~ enter[t]
  BY Shaped DEF IInv, SoleInv, TakeLine, At
<1>3. \A u \in Terminals \ {t} : pc[u] \notin Unguarded
  BY <1>2 DEF IInv, SoleInv, Shapes, Unguarded
<1> DEFINE r == Append(line[t], NL)
<1>4. Len(r) = Len(line[t]) + 1 /\ line' = [line EXCEPT ![t] = r]
  <2>1. line[t] \in Seq(Characters) /\ NL \in Characters
    BY <1>2, Known DEF Shapes
  <2>2. Len(r) = Len(line[t]) + 1
    BY <2>1, AppendProperties
  <2>3. line' = [line EXCEPT ![t] = r]
    BY <1>2 DEF TakeLine
  <2> QED BY <2>2, <2>3
<1> HIDE DEF r
<1>5. line'[t] = r /\ \A u \in Terminals \ {t} : line'[u] = line[u]
  BY <1>2, <1>4 DEF Shapes
<1> USE <1>2, <1>3, <1>4, <1>5, BufferAssumption DEF IInv, Shapes, TakeLine, Goto
<1>6. HeldInv'
  BY DEF HeldInv
<1>7. SoleInv'
  BY DEF SoleInv, Unguarded
<1>8. FreshInv'
  <2>1. read' = [read EXCEPT ![t] = Len(r)] /\ Len(r) \in Nat
    OBVIOUS
  <2> QED BY <2>1 DEF FreshInv
<1>9. RoomInv'
  <2>1. Len(r) <= MAX_BUFFER_LENGTH
    BY DEF RoomInv
  <2> QED BY <2>1 DEF RoomInv
<1> QED BY <1>1, <1>6, <1>7, <1>8, <1>9

\* The line of terminal u becomes r: a prefix of what it was, or no longer than typing
\* can make it.
LEMMA LineStep ==
  ASSUME IInv, TypeOK', NEW u \in Terminals, NEW r \in Seq(Characters),
         line' = [line EXCEPT ![u] = r],
         UNCHANGED <<sched, pc, spot>>,
         Len(r) <= Len(line[u]) \/ Len(r) <= MAX_BUFFER_LENGTH - 1,
         \A t \in Terminals : read'[t] <= read[t],
         read'[u] <= Len(r)
  PROVE  FreshInv' /\ RoomInv'
<1>1. Shapes /\ Shapes'
  BY Shaped DEF IInv
<1>2. Len(r) \in Nat /\ line'[u] = r
  BY <1>1, LenProperties DEF Shapes
<1>3. \A t \in Terminals \ {u} : line'[t] = line[t]
  BY <1>1 DEF Shapes
<1>4. RoomInv'
  <2> SUFFICES ASSUME NEW t \in Terminals
               PROVE  /\ Len(line'[t]) <= MAX_BUFFER_LENGTH
                      /\ pc'[t] # "user" => Len(line'[t]) <= MAX_BUFFER_LENGTH - 1
                      /\ spot'[t] <= MAX_BUFFER_LENGTH
    BY DEF RoomInv
  <2>1. /\ Len(line[t]) \in Nat /\ Len(line[t]) <= MAX_BUFFER_LENGTH
        /\ pc[t] # "user" => Len(line[t]) <= MAX_BUFFER_LENGTH - 1
        /\ spot[t] <= MAX_BUFFER_LENGTH
    BY <1>1 DEF IInv, RoomInv, Shapes
  <2>2. CASE t = u
    BY <1>2, <2>1, <2>2, BufferAssumption
  <2>3. CASE t # u
    BY <1>3, <2>1, <2>3
  <2> QED BY <2>2, <2>3
<1>5. FreshInv'
  <2> SUFFICES ASSUME NEW t \in Terminals
               PROVE  /\ read'[t] <= Len(line'[t])
                      /\ pc'[t] # "user" => read'[t] = 0
    BY DEF FreshInv
  <2>1. /\ read[t] \in Nat /\ read'[t] \in Nat /\ Len(line[t]) \in Nat
        /\ read'[t] <= read[t] /\ read[t] <= Len(line[t])
        /\ pc[t] # "user" => read[t] = 0
    BY <1>1 DEF IInv, FreshInv, Shapes
  <2>2. CASE t = u
    BY <1>2, <2>1, <2>2
  <2>3. CASE t # u
    BY <1>3, <2>1, <2>3
  <2> QED BY <2>2, <2>3
<1> QED BY <1>4, <1>5

LEMMA KeyInv ==
  ASSUME Orderly, IInv, NEW c \in ScanCodes, keyboard_handler(c)
  PROVE  IInv'
<1>1. TypeOK'
  BY NextTypes DEF IInv, Next
<1>2. Shapes /\ Shapes'
  BY <1>1, Shaped DEF IInv
<1>3. \A t \in Terminals : pc[t] \notin Unguarded
  BY <1>2, NoneUnguarded DEF IInv, keyboard_handler
<1>4. UNCHANGED <<sched, pc, spot>>
  BY DEF keyboard_handler, local
<1>5. HeldInv'
  BY <1>4 DEF Orderly, keyboard_handler, Waits, HeldInv
<1>6. SoleInv'
  BY <1>3, <1>4 DEF SoleInv, Unguarded
<1>8. Typed(c)
  BY KeyTyped
<1>9. CASE Erases
  <2> DEFINE s == line[active]
             r == SubSeq(s, 1, Len(s) - 1)
  <2>1. /\ active \in Terminals /\ s \in Seq(Characters)
        /\ r \in Seq(Characters) /\ Len(r) <= Len(s)
    BY <1>2, Erased DEF Shapes
  <2>2. /\ line' = [line EXCEPT ![active] = r]
        /\ read' = [read EXCEPT ![active] = Minimum(@, Len(line'[active]))]
    BY <1>9 DEF Erases, EraseChar
  <2> HIDE DEF r
  <2>3. Len(r) \in Nat /\ line'[active] = r
    BY <1>2, <2>1, <2>2, LenProperties DEF Shapes
  <2>4. \A t \in Terminals : read[t] \in Nat
    BY <1>2 DEF Shapes
  <2>5. read'[active] = Minimum(read[active], Len(r))
    BY <1>2, <2>2, <2>3 DEF Shapes
  <2>6. read'[active] <= Len(r) /\ read'[active] <= read[active]
    BY <2>1, <2>3, <2>4, <2>5 DEF Minimum
  <2>7. \A t \in Terminals : read'[t] <= read[t]
    <3>1. \A t \in Terminals \ {active} : read'[t] = read[t]
      BY <1>2, <2>2 DEF Shapes
    <3> QED BY <2>4, <2>6, <3>1
  <2>8. FreshInv' /\ RoomInv'
    BY <1>1, <1>4, <2>1, <2>2, <2>6, <2>7, LineStep
  <2> QED BY <1>1, <1>5, <1>6, <2>8 DEF IInv
<1>10. ASSUME NEW x \in Typable, NEW n \in {1, TAB_SPACE}, Adds(x, n)
       PROVE  IInv'
  <2>1. PICK k \in 0 .. n :
          LET r == [i \in 1 .. k |-> x] IN
          /\ line' = [line EXCEPT ![active] = @ \o r]
          /\ Len(line'[active]) = Len(line[active]) + k
          /\ k > 0 => Len(line'[active]) <= MAX_BUFFER_LENGTH - 1
    BY <1>10, Added DEF IInv
  <2> DEFINE r == line'[active]
  <2>2. /\ active \in Terminals /\ r \in Seq(Characters)
        /\ line' = [line EXCEPT ![active] = r]
    BY <1>2, <1>10, <2>1 DEF Shapes, Adds
  <2>3. k \in Nat /\ Len(r) = Len(line[active]) + k /\ (k > 0 => Len(r) <= MAX_BUFFER_LENGTH - 1)
    BY <2>1 DEF TAB_SPACE
  <2> HIDE DEF r
  <2>4. read' = read /\ Len(line[active]) \in Nat /\ read[active] \in Nat
        /\ read[active] <= Len(line[active])
    BY <1>2, <1>10, <2>2 DEF Adds, AddChars, Shapes, IInv, FreshInv
  <2>5. /\ Len(r) <= Len(line[active]) \/ Len(r) <= MAX_BUFFER_LENGTH - 1
        /\ read'[active] <= Len(r)
    BY <2>3, <2>4
  <2>6. \A t \in Terminals : read'[t] <= read[t]
    BY <1>2, <2>4 DEF Shapes
  <2>7. FreshInv' /\ RoomInv'
    BY <1>1, <1>4, <2>2, <2>5, <2>6, LineStep
  <2> QED BY <1>1, <1>5, <1>6, <2>7 DEF IInv
<1>11. CASE EndLine \/ UNCHANGED <<active, line, enter, read>> \/ \E t \in Terminals : SwitchTo(t)
  <2>1. line' = line /\ read' = read
    BY <1>11 DEF EndLine, SwitchTo
  <2> QED BY <1>1, <1>4, <1>5, <1>6, <2>1 DEF IInv, FreshInv, RoomInv
<1> QED BY <1>8, <1>9, <1>10, <1>11 DEF Typed

LEMMA InitInv == Init => IInv
<1>1. Len(<<>>) = 0
  OBVIOUS
<1> QED BY <1>1, InitTypes, BufferAssumption
    DEF Init, IInv, HeldInv, SoleInv, FreshInv, RoomInv, Unguarded

LEMMA NextInv ==
  ASSUME Orderly
  PROVE  IInv /\ [Next]_vars => IInv'
<1> SUFFICES ASSUME IInv, [Next]_vars PROVE IInv'
  OBVIOUS
<1>1. CASE UNCHANGED vars
  <2>1. TypeOK'
    BY <1>1, NextTypes DEF IInv
  <2> QED BY <1>1, <2>1 DEF IInv, vars, buffer, local, HeldInv, SoleInv, FreshInv, RoomInv
<1> QED BY <1>1, TickInv, WriteInv, CallInv, LoopInv, EnterInv, TakeInv, KeyInv
    DEF Next, terminal_read

\* LineInput: no key, no blanking and no newline is stored beyond the buffer, behind
\* which current_char itself lies (terminal.c:90, 113, 255): it takes two readers of
\* one line, or a program that reads twice without writing, to get there.
THEOREM BufferKept ==
  ASSUME Orderly
  PROVE  Spec => []InBuffer
<1>1. IInv => InBuffer
  BY Shaped, BufferAssumption DEF IInv, RoomInv, InBuffer, Shapes
<1>2. IInv /\ [Next]_vars => IInv'
  BY NextInv
<1> QED BY <1>1, <1>2, InitInv, PTL DEF Spec

-----------------------------------------------------------------------------
(* The promise: what was typed and not read is a part of the line           *)

LEMMA Part ==
  ASSUME NEW S, NEW s \in Seq(S), NEW d \in Nat, NEW n \in Nat, d <= n, n <= Len(s)
  PROVE  /\ SubSeq(s, d + 1, n) \in Seq(S)
         /\ Len(SubSeq(s, d + 1, n)) = n - d
         /\ \A i \in 1 .. n - d : SubSeq(s, d + 1, n)[i] = s[d + i]
<1> DEFINE a == SubSeq(s, d + 1, n)
           m == d + 1
<1>1. m \in Int /\ n \in Int /\ Len(s) \in Nat
  BY LenProperties
<1>2. \A i \in m .. n : s[i] \in S
  BY <1>1, ElementOfSeq
<1>3. n - m + 1 = n - d
  BY <1>1
<1> HIDE DEF m
<1>4. /\ SubSeq(s, m, n) \in Seq(S)
      /\ Len(SubSeq(s, m, n)) = IF m <= n THEN n - m + 1 ELSE 0
      /\ \A i \in 1 .. n - m + 1 : SubSeq(s, m, n)[i] = s[m + i - 1]
  BY <1>1, <1>2, SubSeqProperties
<1>5. a \in Seq(S)
  BY <1>4 DEF m
<1>6. Len(a) = n - d
  BY <1>1, <1>4 DEF m
<1>7. ASSUME NEW i \in 1 .. n - d
      PROVE  a[i] = s[d + i]
  <2>1. m + i - 1 = d + i
    BY <1>1 DEF m
  <2>2. SubSeq(s, m, n)[i] = s[m + i - 1]
    BY <1>3, <1>4
  <2> QED BY <2>1, <2>2 DEF m
<1> QED BY <1>5, <1>6, <1>7

LEMMA PartAdded ==
  ASSUME NEW S, NEW s \in Seq(S), NEW r \in Seq(S), NEW d \in 0 .. Len(s)
  PROVE  SubSeq(s \o r, d + 1, Len(s) + Len(r)) = SubSeq(s, d + 1, Len(s)) \o r
<1> DEFINE m == Len(s)
           n == Len(s) + Len(r)
           w == s \o r
           a == SubSeq(w, d + 1, n)
           b == SubSeq(s, d + 1, m)
<1>1. m \in Nat /\ Len(r) \in Nat /\ n \in Nat /\ d \in Nat /\ d <= m /\ n = m + Len(r)
  BY LenProperties
<1>2. /\ w \in Seq(S) /\ Len(w) = n
      /\ \A i \in 1 .. n : w[i] = IF i <= m THEN s[i] ELSE r[i - m]
  BY ConcatProperties
<1> HIDE DEF n, w
<1>3. /\ a \in Seq(S) /\ Len(a) = n - d
      /\ \A i \in 1 .. n - d : a[i] = w[d + i]
  BY <1>1, <1>2, Part
<1>4. /\ b \in Seq(S) /\ Len(b) = m - d
      /\ \A i \in 1 .. m - d : b[i] = s[d + i]
  BY <1>1, Part
<1> HIDE DEF a, b, m
<1>5. /\ b \o r \in Seq(S) /\ Len(b \o r) = Len(b) + Len(r)
      /\ \A i \in 1 .. Len(b) + Len(r) :
           (b \o r)[i] = IF i <= Len(b) THEN b[i] ELSE r[i - Len(b)]
  BY <1>4, ConcatProperties
<1>6. Len(b) + Len(r) = n - d
  BY <1>1, <1>4
<1>7. ASSUME NEW i \in 1 .. n - d
      PROVE  a[i] = (b \o r)[i]
  <2>1. d + i \in 1 .. n /\ i \in Nat /\ a[i] = w[d + i]
    BY <1>1, <1>3
  <2>2. CASE i <= m - d
    <3>1. d + i <= m /\ i \in 1 .. m - d
      BY <1>1, <2>1, <2>2
    <3>2. w[d + i] = s[d + i] /\ b[i] = s[d + i]
      BY <1>2, <1>4, <2>1, <3>1
    <3>3. (b \o r)[i] = b[i]
      BY <1>4, <1>5, <1>6, <2>2
    <3> QED BY <2>1, <3>2, <3>3
  <2>3. CASE ~ (i <= m - d)
    <3>1. ~ (d + i <= m) /\ (d + i) - m = i - (m - d)
      BY <1>1, <2>1, <2>3
    <3>2. w[d + i] = r[(d + i) - m]
      BY <1>2, <2>1, <3>1
    <3>3. (b \o r)[i] = r[i - (m - d)]
      BY <1>4, <1>5, <1>6, <2>3
    <3> QED BY <2>1, <3>1, <3>2, <3>3
  <2> QED BY <2>2, <2>3
<1>8. a = b \o r
  BY <1>3, <1>5, <1>6, <1>7, SeqEqual
<1> QED BY <1>8 DEF a, b, w, m, n

LEMMA PartErased ==
  ASSUME NEW S, NEW s \in Seq(S), s # <<>>, NEW d \in 0 .. Len(s) - 1
  PROVE  LET p == SubSeq(s, 1, Len(s) - 1)
             a == SubSeq(s, d + 1, Len(s))
         IN  a # <<>> /\ SubSeq(p, d + 1, Len(p)) = SubSeq(a, 1, Len(a) - 1)
<1> DEFINE n == Len(s)
           p == SubSeq(s, 1, n - 1)
           a == SubSeq(s, d + 1, n)
           x == SubSeq(p, d + 1, n - 1)
           y == SubSeq(a, 1, n - d - 1)
<1>1. n \in Nat \ {0} /\ d \in 0 .. n - 1 /\ d \in Nat /\ n - 1 \in Nat /\ n - d - 1 \in Nat
  BY EmptySeq
<1>2. /\ p \in Seq(S) /\ Len(p) = n - 1
      /\ \A i \in 1 .. n - 1 : p[i] = s[i]
  BY Shortened
<1>3. /\ a \in Seq(S) /\ Len(a) = n - d
      /\ \A i \in 1 .. n - d : a[i] = s[d + i]
  BY <1>1, Part
<1> HIDE DEF n, p, a
<1>4. /\ x \in Seq(S) /\ Len(x) = n - 1 - d
      /\ \A i \in 1 .. n - 1 - d : x[i] = p[d + i]
  BY <1>1, <1>2, Part
<1>5. a # <<>> /\ Len(a) - 1 = n - d - 1
  BY <1>1, <1>3, EmptySeq
<1>6. /\ y \in Seq(S) /\ Len(y) = n - d - 1
      /\ \A i \in 1 .. n - d - 1 : y[i] = a[i]
  BY <1>3, <1>5, Shortened
<1> HIDE DEF x, y
<1>7. ASSUME NEW i \in 1 .. n - 1 - d
      PROVE  x[i] = y[i]
  <2>1. i \in 1 .. n - d /\ i \in 1 .. n - d - 1 /\ d + i \in 1 .. n - 1
    BY <1>1
  <2> QED BY <1>2, <1>3, <1>4, <1>6, <2>1
<1>8. n - 1 - d = n - d - 1
  BY <1>1
<1>9. x = y
  BY <1>4, <1>6, <1>7, <1>8, SeqEqual
<1>10. SubSeq(p, d + 1, Len(p)) = SubSeq(a, 1, Len(a) - 1)
  BY <1>2, <1>5, <1>9 DEF x, y
<1> QED BY <1>5, <1>10 DEF a, p, n

LEMMA DraftFunction ==
  /\ Draft = [t \in Terminals |-> Draft[t]]
  /\ Draft' = [t \in Terminals |-> Draft'[t]]
BY DEF Draft

LEMMA DraftOf ==
  ASSUME Shapes, NEW u \in Terminals, NEW r,
         line' = [line EXCEPT ![u] = r],
         \A t \in Terminals \ {u} : read'[t] = read[t]
  PROVE  Draft' = [Draft EXCEPT ![u] = SubSeq(r, read'[u] + 1, Len(r))]
<1>1. line'[u] = r /\ \A t \in Terminals \ {u} : line'[t] = line[t]
  BY DEF Shapes
<1>2. Draft'[u] = SubSeq(r, read'[u] + 1, Len(r))
  BY <1>1 DEF Draft
<1>3. ASSUME NEW t \in Terminals \ {u}
      PROVE  Draft'[t] = Draft[t]
  <2>1. /\ Draft[t] = SubSeq(line[t], read[t] + 1, Len(line[t]))
        /\ Draft'[t] = SubSeq(line'[t], read'[t] + 1, Len(line'[t]))
    BY DEF Draft
  <2> QED BY <1>1, <2>1
<1> QED BY <1>2, <1>3, DraftFunction

LEMMA PartOfLine ==
  ASSUME Shapes, FreshInv, NEW t \in Terminals
  PROVE  /\ Draft[t] = SubSeq(line[t], read[t] + 1, Len(line[t]))
         /\ read[t] \in 0 .. Len(line[t])
         /\ Len(Draft[t]) = Len(line[t]) - read[t]
<1>1. /\ read[t] \in Nat /\ Len(line[t]) \in Nat /\ read[t] <= Len(line[t])
      /\ line[t] \in Seq(Characters)
  BY DEF Shapes, FreshInv
<1>2. Draft[t] = SubSeq(line[t], read[t] + 1, Len(line[t]))
  BY DEF Draft
<1> QED BY <1>1, <1>2, Part

\* As long as no thread is about to take a line, only enter_flag tells of one.
LEMMA EndedIs ==
  /\ Shapes /\ (\A u \in Terminals : pc[u] # "take") => Ended = enter
  /\ Shapes' /\ (\A u \in Terminals : pc'[u] # "take") => Ended' = enter'
<1>1. Shapes /\ (\A u \in Terminals : pc[u] # "take") => Ended = enter
  BY DEF Shapes, Ended, Taken
<1>2. Shapes' /\ (\A u \in Terminals : pc'[u] # "take") => Ended' = enter'
  BY DEF Shapes, Ended, Taken
<1> QED BY <1>1, <1>2

\* What the terminals show of a step that changes nothing of the promise.
Stutters == Draft' = Draft /\ Ended' = Ended /\ Answer' = Answer

LEMMA KeyPromise ==
  ASSUME Orderly, IInv, NEW c \in ScanCodes, keyboard_handler(c)
  PROVE  Stutters \/ Promise!Next
<1>1. Shapes /\ Shapes' /\ FreshInv /\ active \in Terminals
  BY NextTypes, Shaped DEF IInv, Next, Shapes
<1>2. \A t \in Terminals : pc[t] \notin Unguarded
  BY <1>1, NoneUnguarded DEF IInv, keyboard_handler
<1>3. pc' = pc /\ got' = got /\ Answer' = Answer
  BY DEF keyboard_handler, local, Answer
<1>4. Ended = enter /\ Ended' = enter'
  BY <1>1, <1>2, <1>3, EndedIs DEF Unguarded
<1>5. Typed(c)
  BY KeyTyped
<1>6. CASE EndLine /\ UNCHANGED <<active, reset>>
  <2>1. enter' = [enter EXCEPT ![active] = TRUE] /\ Draft' = Draft
    BY <1>6 DEF EndLine, Draft
  <2>2. Promise!Enter(active)
    BY <1>3, <1>4, <2>1 DEF Promise!Enter
  <2> QED BY <1>1, <2>2 DEF Promise!Next
<1>7. CASE Erases
  <2> DEFINE s == line[active]
             r == SubSeq(s, 1, Len(s) - 1)
  <2>1. /\ line' = [line EXCEPT ![active] = r]
        /\ read' = [read EXCEPT ![active] = Minimum(@, Len(line'[active]))]
        /\ enter' = enter /\ ~ enter[active]
    BY <1>7 DEF Erases, EraseChar
  <2>2. /\ s \in Seq(Characters) /\ r \in Seq(Characters) /\ Len(r) \in Nat
        /\ Len(s) \in Nat /\ read[active] \in 0 .. Len(s)
    BY <1>1, Erased, PartOfLine, LenProperties DEF Shapes
  <2>3. line'[active] = r
    BY <1>1, <2>1 DEF Shapes
  <2>4. /\ read'[active] = Minimum(read[active], Len(r))
        /\ \A t \in Terminals \ {active} : read'[t] = read[t]
    BY <1>1, <2>1, <2>3 DEF Shapes
  <2>5. Draft' = [Draft EXCEPT ![active] = SubSeq(r, read'[active] + 1, Len(r))]
    BY <1>1, <2>1, <2>4, DraftOf
  <2>6. Draft[active] = SubSeq(s, read[active] + 1, Len(s)) /\ DOMAIN Draft = Terminals
    BY <1>1, PartOfLine DEF Draft
  <2>7. CASE s # <<>> /\ read[active] < Len(s)
    <3>1. Len(r) = Len(s) - 1 /\ read[active] \in 0 .. Len(s) - 1
      BY <2>2, <2>7, Shortened
    <3>2. read'[active] = read[active]
      BY <2>2, <2>4, <3>1 DEF Minimum
    <3>3. /\ Draft[active] # <<>>
          /\ SubSeq(r, read'[active] + 1, Len(r)) = SubSeq(Draft[active], 1, Len(Draft[active]) - 1)
      BY <2>2, <2>6, <2>7, <3>1, <3>2, PartErased
    <3>4. Promise!Erase(active)
      BY <1>3, <1>4, <2>1, <2>5, <3>3 DEF Promise!Erase
    <3> QED BY <1>1, <3>4 DEF Promise!Next
  <2>8. CASE s # <<>> /\ ~ (read[active] < Len(s))
    <3>1. Len(r) = Len(s) - 1 /\ read[active] = Len(s)
      BY <2>2, <2>8, Shortened
    <3>2. read'[active] = Len(r)
      BY <2>2, <2>4, <3>1 DEF Minimum
    <3>3. SubSeq(r, Len(r) + 1, Len(r)) = <<>> /\ Draft[active] = <<>>
      BY <2>2, <2>6, <3>1, SubSeqEmpty
    <3>4. SubSeq(r, read'[active] + 1, Len(r)) = Draft[active]
      BY <3>2, <3>3
    <3>5. Draft' = Draft
      BY <2>5, <2>6, <3>4, DraftFunction
    <3> QED BY <1>3, <1>4, <2>1, <3>5 DEF Stutters
  <2>9. CASE s = <<>>
    <3>1. r = <<>> /\ Len(r) = 0 /\ Len(s) = 0
      BY <2>2, <2>9, Erased
    <3>2. read[active] = 0 /\ read'[active] = 0
      BY <2>2, <2>4, <3>1 DEF Minimum
    <3>3. SubSeq(r, read'[active] + 1, Len(r)) = Draft[active]
      BY <2>6, <2>9, <3>1, <3>2
    <3>4. Draft' = Draft
      BY <2>5, <2>6, <3>3, DraftFunction
    <3> QED BY <1>3, <1>4, <2>1, <3>4 DEF Stutters
  <2> QED BY <2>7, <2>8, <2>9
<1>8. ASSUME NEW x \in Typable, NEW n \in {1, TAB_SPACE}, Adds(x, n)
      PROVE  Stutters \/ Promise!Next
  <2>1. PICK k \in 0 .. n :
          LET r == [i \in 1 .. k |-> x] IN
          /\ line' = [line EXCEPT ![active] = @ \o r]
          /\ r \in Seq(Characters) /\ Len(r) = k
          /\ Len(line'[active]) = Len(line[active]) + k
          /\ k > 0 => Len(line'[active]) <= MAX_BUFFER_LENGTH - 1
    BY <1>8, Added DEF IInv
  <2> DEFINE s == line[active]
             r == [i \in 1 .. k |-> x]
             w == s \o r
  <2>2. /\ line' = [line EXCEPT ![active] = w] /\ r \in Seq(Characters) /\ Len(r) = k
        /\ line'[active] = w /\ Len(w) = Len(s) + k
        /\ k > 0 => Len(w) <= MAX_BUFFER_LENGTH - 1
    BY <1>1, <2>1 DEF Shapes
  <2> HIDE DEF r
  <2>3. read' = read /\ enter' = enter /\ ~ enter[active]
    BY <1>8 DEF Adds, AddChars
  <2>4. /\ s \in Seq(Characters) /\ Len(s) \in Nat /\ read[active] \in 0 .. Len(s)
        /\ Draft[active] = SubSeq(s, read[active] + 1, Len(s))
        /\ Len(Draft[active]) = Len(s) - read[active]
    BY <1>1, PartOfLine DEF Shapes
  <2>5. SubSeq(w, read[active] + 1, Len(w)) = Draft[active] \o r
    BY <2>2, <2>4, PartAdded
  <2>6. Draft' = [Draft EXCEPT ![active] = @ \o r]
    <3>1. Draft' = [Draft EXCEPT ![active] = SubSeq(w, read'[active] + 1, Len(w))]
      BY <1>1, <2>2, <2>3, DraftOf
    <3> QED BY <2>3, <2>5, <3>1
  <2>7. k \in Nat
    BY <2>1 DEF TAB_SPACE
  <2>8. CASE k > 0
    <3>1. k \in 1 .. (MAX_BUFFER_LENGTH - 1) - Len(Draft[active])
      BY <2>2, <2>4, <2>7, <2>8, BufferAssumption
    <3>2. Draft' = [Draft EXCEPT ![active] = @ \o [i \in 1 .. k |-> x]]
      BY <2>6 DEF r
    <3>3. Promise!Type(active)
      BY <1>3, <1>4, <2>3, <3>1, <3>2 DEF Promise!Type
    <3> QED BY <1>1, <3>3 DEF Promise!Next
  <2>9. CASE k = 0
    <3>1. r = <<>>
      BY <2>2, <2>9, EmptySeq
    <3>2. Draft[active] \in Seq(Characters)
      BY <2>4, Part
    <3>3. Draft[active] \o r = Draft[active] /\ DOMAIN Draft = Terminals
      BY <3>1, <3>2, ConcatEmptySeq DEF Draft
    <3>4. Draft' = Draft
      BY <2>6, <3>3, DraftFunction
    <3> QED BY <1>3, <1>4, <2>3, <3>4 DEF Stutters
  <2> QED BY <2>7, <2>8, <2>9
<1>9. CASE UNCHANGED <<active, line, enter, read>> \/ \E t \in Terminals : SwitchTo(t)
  <2>1. line' = line /\ enter' = enter /\ read' = read
    BY <1>9 DEF SwitchTo
  <2> QED BY <1>3, <1>4, <2>1 DEF Stutters, Draft
<1> QED BY <1>5, <1>6, <1>7, <1>8, <1>9 DEF Typed

LEMMA WritePromise ==
  ASSUME Orderly, IInv, NEW t \in Terminals, Write(t)
  PROVE  Stutters \/ Promise!Next
<1>1. Shapes /\ Shapes'
  BY NextTypes, Shaped DEF IInv, Next
<1>2. /\ \A u \in Terminals : pc[u] # "take"
      /\ \A u \in Terminals : pc'[u] # "take"
  <2>1. \A u \in Terminals : pc[u] # "take"
    BY <1>1 DEF IInv, SoleInv, Write, At, Shapes, Unguarded
  <2>2. pc' = pc \/ pc' = [pc EXCEPT ![t] = "ready"]
    BY DEF Write, Goto
  <2> QED BY <1>1, <2>1, <2>2 DEF Shapes
<1>3. Ended' = Ended
  BY <1>1, <1>2, EndedIs DEF Write
<1> DEFINE Empties == /\ line' = [line EXCEPT ![t] = <<>>]
                      /\ read' = [read EXCEPT ![t] = 0]
                      /\ got' = [got EXCEPT ![t] = <<>>]
<1>0. Empties \/ UNCHANGED <<line, read, got>>
  BY DEF Write, Emptied
<1>7. CASE UNCHANGED <<line, read, got>>
  BY <1>3, <1>7 DEF Stutters, Draft, Answer
<1> SUFFICES ASSUME Empties PROVE Promise!Next
  BY <1>0, <1>7
<1>4. Draft' = [Draft EXCEPT ![t] = <<>>]
  <2>1. line' = [line EXCEPT ![t] = <<>>] /\ read' = [read EXCEPT ![t] = 0]
    OBVIOUS
  <2>2. read'[t] = 0 /\ \A u \in Terminals \ {t} : read'[u] = read[u]
    BY <1>1, <2>1 DEF Shapes
  <2>3. Draft' = [Draft EXCEPT ![t] = SubSeq(<<>>, 0 + 1, Len(<<>>))]
    BY <1>1, <2>1, <2>2, DraftOf
  <2>4. SubSeq(<<>>, 0 + 1, Len(<<>>)) = <<>>
    <3>1. SubSeq(<<>>, 1, 0) = <<>>
      BY SubSeqEmpty
    <3>2. Len(<<>>) = 0
      OBVIOUS
    <3> QED BY <3>1, <3>2
  <2> QED BY <2>3, <2>4
<1>5. Answer' = [Answer EXCEPT ![t] = <<>>]
  <2>1. got' = [got EXCEPT ![t] = <<>>]
    OBVIOUS
  <2>2. got'[t] = <<>> /\ \A u \in Terminals \ {t} : got'[u] = got[u]
    BY <1>1, <2>1 DEF Shapes
  <2> HIDE DEF Empties
  <2> QED BY <2>2 DEF Answer
<1>6. Promise!Write(t)
  BY <1>3, <1>4, <1>5 DEF Promise!Write
<1> QED BY <1>6 DEF Promise!Next

LEMMA QuietPromise ==
  ASSUME Orderly, IInv, NEW t \in Terminals,
         \/ Tick \/ ClearEnds(t) \/ ReadCalled(t)
         \/ Notice(t) \/ Blank(t) \/ Echo(t) \/ SeeEnter(t)
  PROVE  Stutters
<1>1. Shapes /\ Shapes'
  BY NextTypes, Shaped DEF IInv, Next, terminal_read
<1> USE <1>1 DEF IInv, SoleInv, Shapes, Unguarded, At, Goto, buffer, local
<1>2. line' = line /\ read' = read /\ enter' = enter /\ got' = got
  <2>1. CASE Tick \/ ClearEnds(t) \/ ReadCalled(t) \/ Notice(t) \/ Echo(t) \/ SeeEnter(t)
    BY <2>1 DEF Tick, ClearEnds, ReadCalled, Notice, Echo, SeeEnter
  <2>2. CASE Blank(t)
    <3>1. ~ (spot[t] < Len(line[active]))
      BY <2>2 DEF Blank
    <3> QED BY <2>2, <3>1 DEF Blank
  <2> QED BY <2>1, <2>2
<1>3. ~ ClearEnds(t) => /\ \A u \in Terminals : pc[u] # "take"
                        /\ \A u \in Terminals : pc'[u] # "take"
  <2>1. CASE Tick
    <3>1. \A u \in Terminals : pc[u] \notin Unguarded
      BY <2>1, NoneUnguarded DEF Tick
    <3> QED BY <2>1, <3>1 DEF Tick
  <2>2. CASE ReadCalled(t)
    BY <2>2 DEF ReadCalled
  <2>3. CASE Notice(t)
    BY <2>3 DEF Notice
  <2>4. CASE Blank(t)
    BY <2>4 DEF Blank
  <2>5. CASE Echo(t) \/ SeeEnter(t)
    BY <2>5 DEF Echo, SeeEnter
  <2> QED BY <2>1, <2>2, <2>3, <2>4, <2>5
<1>4. Ended' = Ended
  <2> HIDE DEF IInv, SoleInv, Shapes
  <2>1. CASE ClearEnds(t)
    BY <1>2, <2>1 DEF ClearEnds, Ended, Taken
  <2>2. CASE ~ ClearEnds(t)
    BY <1>2, <1>3, <2>2, EndedIs
  <2> QED BY <2>1, <2>2
<1> QED BY <1>2, <1>4 DEF Stutters, Draft, Answer

LEMMA EnterPromise ==
  ASSUME Orderly, IInv, NEW t \in Terminals, ClearEnter(t)
  PROVE  Stutters
<1>1. Shapes /\ active = t
  BY Shaped DEF IInv, SoleInv, ClearEnter, At
<1>2. \A u \in Terminals : pc[u] # "take"
  BY <1>1 DEF IInv, SoleInv, ClearEnter, At, Shapes, Unguarded
<1>3. line' = line /\ read' = read /\ got' = got
  BY DEF ClearEnter
<1>4. ASSUME NEW u \in Terminals
      PROVE  (enter[u] \/ Taken(u)) = (enter'[u] \/ Taken(u)')
  <2>1. ~ Taken(u) /\ enter[t]
    BY <1>2 DEF IInv, SoleInv, Taken, ClearEnter, At
  <2>2. /\ enter' = [enter EXCEPT ![t] = FALSE] /\ active' = t
        /\ pc'[t] = "take"
    BY <1>1 DEF ClearEnter, Goto, Shapes
  <2>3. CASE u = t
    <3>1. Taken(u)'
      BY <2>2, <2>3 DEF Taken
    <3> QED BY <1>1, <2>1, <2>3, <3>1 DEF Shapes
  <2>4. CASE u # t
    <3>1. ~ Taken(u)' /\ enter'[u] = enter[u]
      BY <1>1, <2>2, <2>4 DEF Taken, Shapes
    <3> QED BY <2>1, <3>1
  <2> QED BY <2>3, <2>4
<1>5. Ended' = Ended
  BY <1>4 DEF Ended
<1> QED BY <1>3, <1>5 DEF Stutters, Draft, Answer

LEMMA TakePromise ==
  ASSUME Orderly, IInv, NEW t \in Terminals, TakeLine(t)
  PROVE  Promise!Next
<1>1. Shapes /\ Shapes' /\ FreshInv /\ active = t /\ sched = t /\ pc[t] = "take" /\ ~ enter[t]
  BY NextTypes, Shaped DEF IInv, Next, terminal_read, SoleInv, TakeLine, At
<1>2. pc' = [pc EXCEPT ![t] = "user"] /\ enter' = enter /\ active' = active
  BY DEF TakeLine, Goto
<1>3. \A u \in Terminals : pc'[u] # "take"
  BY <1>1, <1>2 DEF IInv, SoleInv, Shapes, Unguarded
<1> DEFINE s == line[t]
           r == Append(s, NL)
<1>4. /\ s \in Seq(Characters) /\ Len(s) \in Nat /\ read[t] = 0
      /\ Draft[t] = SubSeq(s, read[t] + 1, Len(s))
  BY <1>1, PartOfLine DEF Shapes, FreshInv
<1>5. /\ r \in Seq(Characters) /\ r # <<>> /\ Len(r) = Len(s) + 1
      /\ \A i \in 1 .. Len(s) : r[i] = s[i]
  <2>1. NL \in Characters /\ s \in Seq(Characters)
    BY <1>4, Known
  <2> HIDE DEF s
  <2> QED BY <2>1, AppendProperties
<1>6. /\ line' = [line EXCEPT ![t] = r]
      /\ got' = [got EXCEPT ![t] = line'[t]]
      /\ read' = [read EXCEPT ![t] = Len(line'[t])]
  BY <1>1 DEF TakeLine
<1> HIDE DEF r
<1>7. /\ line'[t] = r /\ got'[t] = r /\ read'[t] = Len(r)
      /\ \A u \in Terminals \ {t} : read'[u] = read[u] /\ got'[u] = got[u]
  BY <1>1, <1>6 DEF Shapes
<1>8. Draft[t] = s
  <2>1. SubSeq(s, 1, Len(s)) = s
    BY <1>4, SubSeqFull
  <2> QED BY <1>4, <2>1
<1>9. SubSeq(r, 1, Len(r) - 1) = s
  <2> DEFINE w == SubSeq(r, 1, Len(r) - 1)
  <2>1. /\ w \in Seq(Characters) /\ Len(w) = Len(s)
        /\ \A i \in 1 .. Len(s) : w[i] = r[i]
    BY <1>4, <1>5, Shortened
  <2> HIDE DEF w
  <2>2. w = s
    BY <1>4, <1>5, <2>1, SeqEqual
  <2> QED BY <2>2 DEF w
<1>10. Draft' = [Draft EXCEPT ![t] = <<>>]
  <2>1. Draft' = [Draft EXCEPT ![t] = SubSeq(r, read'[t] + 1, Len(r))]
    BY <1>1, <1>6, <1>7, DraftOf
  <2>2. SubSeq(r, Len(r) + 1, Len(r)) = <<>>
    BY <1>4, <1>5, SubSeqEmpty
  <2> QED BY <1>7, <2>1, <2>2
<1>11. Answer' = [Answer EXCEPT ![t] = Draft[t]]
  <2>1. Answer'[t] = s
    BY <1>5, <1>7, <1>9 DEF Answer
  <2>2. \A u \in Terminals \ {t} : Answer'[u] = Answer[u]
    BY <1>7 DEF Answer
  <2>3. Answer = [u \in Terminals |-> Answer[u]] /\ Answer' = [u \in Terminals |-> Answer'[u]]
    BY DEF Answer
  <2> QED BY <1>8, <2>1, <2>2, <2>3
<1>12. Ended[t] /\ Ended' = [Ended EXCEPT ![t] = FALSE]
  <2>1. Ended[t]
    BY <1>1 DEF Ended, Taken
  <2>2. \A u \in Terminals \ {t} : Ended[u] = enter[u]
    BY <1>1 DEF Ended, Taken, Shapes
  <2>3. Ended' = enter
    BY <1>1, <1>2, <1>3, EndedIs
  <2>4. Ended = [u \in Terminals |-> Ended[u]]
    BY DEF Ended
  <2>5. enter \in [Terminals -> BOOLEAN] /\ enter[t] = FALSE
    BY <1>1 DEF Shapes
  <2>6. enter = [Ended EXCEPT ![t] = FALSE]
    BY <2>2, <2>4, <2>5
  <2> QED BY <2>1, <2>3, <2>6
<1>13. Promise!Read(t)
  BY <1>10, <1>11, <1>12 DEF Promise!Read
<1> QED BY <1>13 DEF Promise!Next

LEMMA InitPromise == Init => Promise!Init
<1> SUFFICES ASSUME Init PROVE Promise!Init
  OBVIOUS
<1>1. SubSeq(<<>>, 0 + 1, Len(<<>>)) = <<>>
  <2>1. SubSeq(<<>>, 1, 0) = <<>>
    BY SubSeqEmpty
  <2>2. Len(<<>>) = 0
    OBVIOUS
  <2> QED BY <2>1, <2>2
<1>2. Draft = [t \in Terminals |-> <<>>]
  BY <1>1 DEF Init, Draft
<1>3. Ended = [t \in Terminals |-> FALSE]
  BY DEF Init, Ended, Taken
<1>4. Answer = [t \in Terminals |-> <<>>]
  BY DEF Init, Answer
<1> QED BY <1>2, <1>3, <1>4 DEF Promise!Init

\* LineInput: every terminal's program reads, once, the line that was ended on its own
\* terminal, although all readers watch the buffer of the terminal on the screen
\* (terminal.c:71) and only the loop at terminal.c:93 holds the others.
THEOREM LinesKept ==
  ASSUME Orderly
  PROVE  Spec => OwnLines
<1>1. IInv /\ [Next]_vars => Stutters \/ Promise!Next
  <2> SUFFICES ASSUME IInv, [Next]_vars PROVE Stutters \/ Promise!Next
    OBVIOUS
  <2>1. CASE UNCHANGED vars
    BY <2>1 DEF vars, buffer, local, Stutters, Draft, Ended, Taken, Answer
  <2>2. CASE Tick
    <3>1. 0 \in Terminals
      BY TerminalsAssumption DEF Terminals
    <3> QED BY <2>2, <3>1, QuietPromise
  <2> QED BY <2>1, <2>2, KeyPromise, WritePromise, QuietPromise, EnterPromise, TakePromise
          DEF Next, terminal_read
<1>2. IInv /\ [Next]_vars => [Promise!Next]_<<Draft, Ended, Answer>>
  BY <1>1 DEF Stutters
<1>3. IInv /\ [Next]_vars => IInv'
  BY NextInv
<1> QED BY <1>2, <1>3, InitInv, InitPromise, PTL DEF Spec, OwnLines, Promise!Spec
=============================================================================
