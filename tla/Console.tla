------------------------------ MODULE Console ------------------------------
(***************************************************************************)
(* Rows and columns: terminal_write, the echo of terminal_read and the     *)
(* editing keys (devices/terminal.c) on top of puts, putc, set_cursor and  *)
(* shift_video_mem_up (lib.c), for one terminal that is on the screen and  *)
(* scheduled.  Its video memory is mapped to the screen, but two editing   *)
(* keys leave it mapped to the back buffer of the scheduled terminal until *)
(* the scheduler runs again; what is drawn meanwhile is not seen.          *)
(*                                                                         *)
(* The kernel keeps the place of the next text in current_line and         *)
(* char_in_line, two bytes that terminal_write and terminal_read advance   *)
(* by counting, while putc moves the cursor on its own.  The question is   *)
(* whether the two agree: whether the screen shows the end of what was     *)
(* written and typed.                                                      *)
(***************************************************************************)
EXTENDS Integers, Sequences, SequencesExt

CONSTANTS
  NUM_ROWS,           \* 25 in lib.c and terminal.h
  NUM_COLS,           \* 80
  MAX_BUFFER_LENGTH,  \* 128
  BYTE,               \* values of a uint8_t: 256
  MAX_INPUT_BUF_LEN,  \* 1024
  Texts,              \* what programs write
  Usage               \* what users and programs do besides, see UsageAssumption

ASSUME SizesAssumption ==
  /\ NUM_ROWS \in Nat \ {0, 1} /\ NUM_COLS \in Nat \ {0} /\ MAX_BUFFER_LENGTH \in Nat \ {0}
  /\ BYTE \in Nat /\ NUM_ROWS < BYTE /\ NUM_COLS < BYTE /\ MAX_INPUT_BUF_LEN \in Nat

\* "early": keys come faster than the echo; "burst": faster than the scheduler; "wide": a program writes
\* more at once than is left of a row; "long": a prompt and the longest line that can be
\* typed behind it need more than two rows; "clear": Ctrl-L is pressed behind a
\* prompt or a part of a line; "empty": Backspace is pressed when nothing is typed.
ASSUME UsageAssumption == Usage \subseteq {"early", "burst", "wide", "long", "clear", "empty"}

\* A text is a sequence of characters and newlines; a cell of the screen holds a
\* character of a program, one that was typed, or none.
WRITTEN == "w"
TYPED == "k"
NEWLINE == "n"
BLANK == "_"
ASSUME TextsAssumption == Texts \subseteq Seq({WRITTEN, NEWLINE}) \ {<<>>}

VARIABLES
  current_line, char_in_line, current_char, last_current_char, reset_flag, enter_flag,
  vmap,     \* "screen" or "back": the page that video_mem is mapped to
  cells,    \* the screen, row by row
  x, y,     \* screen_x and screen_y
  terminal_screen,  \* terminal_screen_x and terminal_screen_y, saved by the scheduler
  pc,       \* "user", "loop" in terminal_read, "clear" in clear_terminal on top of it, or
            \* "scroll" in terminal_write
  text,     \* the text that is being written
  prev,     \* prev_char_in_line, a local variable of terminal_read
  shift_up, \* shift_up_flag, likewise
  paper,    \* history: what was written and typed, see PaperPut
  open,     \* history: the paper's newest row was ended by Enter
  strayed   \* history: putc wrote behind the last row

info   == <<current_line, char_in_line, current_char, last_current_char, reset_flag, enter_flag>>
cursor == <<x, y>>
output == <<vmap, cells, strayed>>
vars   == <<info, output, cursor, terminal_screen, pc, text, prev, shift_up, paper, open>>

Rows == 0 .. NUM_ROWS - 1
Cols == 0 .. NUM_COLS - 1
BlankRow == [c \in Cols |-> BLANK]
clear == [r \in Rows |-> BlankRow]

\* putc: a newline has no limit, a character wraps at the last column and row.  A
\* character behind the last row is not on the screen, but in memory behind it.
putc(s, c) ==
  IF c = NEWLINE THEN [s EXCEPT !.x = 0, !.y = @ + 1]
  ELSE LET place == NUM_COLS * s.y + s.x
           row == place \div NUM_COLS
       IN [s EXCEPT !.cells = IF row \in Rows THEN [@ EXCEPT ![row][place % NUM_COLS] = c] ELSE @,
                    !.strayed = @ \/ row \notin Rows,
                    !.x = (@ + 1) % NUM_COLS,
                    !.y = (@ + (s.x + 1) \div NUM_COLS) % NUM_ROWS]

puts(s, str) == FoldLeft(putc, s, str)

\* A screen with the cursor that set_cursor has put there.
At(c, col, row) == [cells |-> c, x |-> col, y |-> row, strayed |-> strayed]

\* What reaches the screen.
Seen(c) == IF vmap = "screen" THEN c ELSE cells

\* The screen after k calls of shift_video_mem_up(0, NUM_ROWS).
Shifted(k) == [r \in Rows |-> IF r + k \in Rows THEN cells[r + k] ELSE BlankRow]

Over(n) == IF n > NUM_ROWS - 1 THEN n - (NUM_ROWS - 1) ELSE 0

-----------------------------------------------------------------------------
(* The paper: the last NUM_ROWS rows of what an endless sheet would show,  *)
(* the newest first, and the number of characters in the newest row.       *)

BlankPaper == [rows |-> clear, ink |-> 0]

Fed(rows) == [k \in Rows |-> IF k = 0 THEN BlankRow ELSE rows[k - 1]]

\* A character that fills a row starts the next one.
PaperPut(p, c) ==
  LET filled == [p.rows EXCEPT ![0][p.ink] = c] IN
  IF c = NEWLINE THEN [rows |-> Fed(p.rows), ink |-> 0]
  ELSE IF p.ink + 1 = NUM_COLS THEN [rows |-> Fed(filled), ink |-> 0]
  ELSE [rows |-> filled, ink |-> p.ink + 1]

Printed(p, str) == FoldLeft(PaperPut, p, str)

\* Without the character typed last.
Erased(p) ==
  IF p.ink > 0
  THEN [rows |-> [p.rows EXCEPT ![0][p.ink - 1] = BLANK], ink |-> p.ink - 1]
  ELSE LET back == [k \in Rows |-> IF k + 1 \in Rows THEN p.rows[k + 1] ELSE BlankRow]
       IN [rows |-> [back EXCEPT ![0][NUM_COLS - 1] = BLANK], ink |-> NUM_COLS - 1]

Typed(n) == [i \in 1 .. n |-> TYPED]

-----------------------------------------------------------------------------
Init ==
  /\ current_line = 0 /\ char_in_line = 0
  /\ current_char = 0 /\ last_current_char = 0
  /\ reset_flag = FALSE /\ enter_flag = FALSE
  /\ vmap = "screen" /\ cells = clear /\ strayed = FALSE
  /\ x = 0 /\ y = 0 /\ terminal_screen = <<0, 0>>
  /\ pc = "user" /\ text = <<>>
  /\ prev = 0 /\ shift_up = FALSE
  /\ paper = BlankPaper /\ open = FALSE

-----------------------------------------------------------------------------
(* terminal_write                                                          *)

newline_count == Cardinality({i \in DOMAIN text : text[i] = NEWLINE})
lines_left == NUM_ROWS - current_line

\* Up to the loop that makes room: the line that was typed is left, and a text that
\* does not fit into the last row moves the screen up.
Write(t) ==
  LET line   == (current_line + (IF current_char > 0 THEN 1 ELSE 0)) % BYTE
      last   == line - Over(line)
      one    == IF last = NUM_ROWS - 1 /\ Len(t) >= NUM_COLS - char_in_line THEN 1 ELSE 0
  IN /\ pc = "user"
     /\ Len(t) <= MAX_INPUT_BUF_LEN
     /\ char_in_line + Len(t) < NUM_COLS \/ "wide" \in Usage
     /\ text' = t
     /\ pc' = "scroll"
     /\ current_char' = 0
     /\ cells' = Seen(Shifted(Over(line) + one))
     /\ current_line' = last - one
     /\ paper' = IF open THEN PaperPut(paper, NEWLINE) ELSE paper
     /\ open' = FALSE
     /\ UNCHANGED <<char_in_line, last_current_char, reset_flag, enter_flag, vmap, strayed,
                    cursor, terminal_screen, prev, shift_up>>

\* A text longer than the buffer of a program is not written: terminal_write returns 0.
WriteRefused(t) ==
  /\ pc = "user"
  /\ Len(t) > MAX_INPUT_BUF_LEN
  /\ UNCHANGED vars

MakeRoom_NotCounted ==
  /\ pc = "scroll"
  /\ newline_count > lines_left
  /\ cells' = Seen(Shifted(1))
  /\ UNCHANGED <<info, vmap, strayed, cursor, terminal_screen, pc, text, prev, shift_up, paper,
                 open>>

\* One turn of the loop; current_line is a byte.
MakeRoom ==
  /\ pc = "scroll"
  /\ newline_count > lines_left
  /\ cells' = Seen(Shifted(1))
  /\ current_line' = (current_line + BYTE - 1) % BYTE
  /\ UNCHANGED <<char_in_line, current_char, last_current_char, reset_flag, enter_flag, vmap,
                 strayed, cursor, terminal_screen, pc, text, prev, shift_up, paper, open>>

\* The text, and the place of the next one.
PutText ==
  LET whole  == Len(text) # NUM_COLS /\ Last(text) # NEWLINE
      column == IF whole THEN (char_in_line + Len(text)) % BYTE ELSE char_in_line
      nbytes == IF whole THEN Len(text) ELSE Len(text) - 1
      line   == (current_line + newline_count
                   + (IF nbytes >= NUM_COLS - column THEN 1 ELSE 0)) % BYTE
      s      == puts(At(cells, char_in_line, current_line), text)
  IN /\ pc = "scroll"
     /\ newline_count <= lines_left
     /\ IF newline_count = 0
        THEN /\ char_in_line' = column
             /\ UNCHANGED current_line
             /\ cells' = Seen(s.cells)
        ELSE /\ char_in_line' = 0
             /\ current_line' = line - Over(line)
             /\ cells' = Seen([r \in Rows |-> IF r + Over(line) \in Rows
                                              THEN s.cells[r + Over(line)] ELSE BlankRow])
     /\ strayed' = s.strayed
     /\ x' = char_in_line' /\ y' = current_line'
     /\ text' = <<>>
     /\ pc' = "user"
     /\ paper' = Printed(paper, text)
     /\ UNCHANGED <<current_char, last_current_char, reset_flag, enter_flag, vmap,
                    terminal_screen, prev, shift_up, open>>

-----------------------------------------------------------------------------
(* terminal_read                                                           *)

ReadCalled_FlagKept ==
  /\ pc = "user"
  /\ current_char = 0
  /\ char_in_line + MAX_BUFFER_LENGTH <= 2 * NUM_COLS \/ "long" \in Usage
  /\ pc' = "loop"
  /\ prev' = char_in_line
  /\ UNCHANGED <<info, output, cursor, terminal_screen, text, shift_up, paper, open>>

\* A program that reads again first writes, as the shell does.
ReadCalled ==
  /\ pc = "user"
  /\ current_char = 0
  /\ char_in_line + MAX_BUFFER_LENGTH <= 2 * NUM_COLS \/ "long" \in Usage
  /\ pc' = "loop"
  /\ prev' = char_in_line
  /\ shift_up' = FALSE
  /\ UNCHANGED <<info, output, cursor, terminal_screen, text, paper, open>>

\* One turn of the loop: make room for a line that reaches the end of the last row,
\* and draw the line again.
Echo ==
  LET up == current_char >= NUM_COLS - char_in_line /\ ~ shift_up /\ current_line >= NUM_ROWS - 1
      line == IF up THEN current_line - 1 ELSE current_line
      room == IF up THEN Shifted(1) ELSE cells
      s == puts(At(room, char_in_line, line), Typed(current_char))
  IN /\ pc = "loop"
     /\ ~ enter_flag
     /\ current_char # last_current_char \/ reset_flag
     /\ reset_flag' = FALSE
     /\ shift_up' = (shift_up \/ up)
     /\ current_line' = line
     /\ last_current_char' = current_char
     /\ cells' = Seen(s.cells) /\ strayed' = s.strayed
     /\ x' = s.x /\ y' = s.y
     /\ UNCHANGED <<char_in_line, current_char, enter_flag, vmap, terminal_screen, pc, text, prev,
                    paper, open>>

\* The typed line ends with its row, so that Enter need not start another.
FillsRow == current_char > 0 /\ paper.ink = 0

TakeLine_RowForgotten ==
  /\ pc = "loop"
  /\ enter_flag
  /\ enter_flag' = FALSE
  /\ current_char' = current_char + 1
  /\ pc' = "user"
  /\ open' = ~ FillsRow
  /\ UNCHANGED <<current_line, cursor, char_in_line, last_current_char, reset_flag, output,
                 terminal_screen, text, prev, shift_up, paper>>

\* The line is passed to the program.
TakeLine ==
  /\ pc = "loop"
  /\ enter_flag
  /\ enter_flag' = FALSE
  /\ IF current_char > NUM_COLS - prev
     THEN /\ current_line' = (current_line + 1) % BYTE
          /\ x' = 0 /\ y' = current_line'
     ELSE UNCHANGED <<current_line, cursor>>
  /\ current_char' = current_char + 1
  /\ pc' = "user"
  /\ open' = ~ FillsRow
  /\ UNCHANGED <<char_in_line, last_current_char, reset_flag, output, terminal_screen, text,
                 prev, shift_up, paper>>

-----------------------------------------------------------------------------
(* The keys, while a program reads                                         *)

Echoed == current_char = last_current_char /\ ~ reset_flag

Saved == terminal_screen = cursor /\ vmap = "screen"

\* The next key comes when the line is drawn and the timer has ticked.
Key ==
  /\ pc = "loop"
  /\ ~ enter_flag
  /\ Echoed \/ "early" \in Usage
  /\ Saved \/ "burst" \in Usage

Type_OneMore ==
  /\ Key
  /\ current_char < MAX_BUFFER_LENGTH
  /\ current_char' = current_char + 1
  /\ paper' = PaperPut(paper, TYPED)
  /\ UNCHANGED <<current_line, char_in_line, last_current_char, reset_flag, enter_flag, output,
                 cursor, terminal_screen, pc, text, prev, shift_up, open>>

Type ==
  /\ Key
  /\ current_char < MAX_BUFFER_LENGTH - 1
  /\ current_char' = current_char + 1
  /\ paper' = PaperPut(paper, TYPED)
  /\ UNCHANGED <<current_line, char_in_line, last_current_char, reset_flag, enter_flag, output,
                 cursor, terminal_screen, pc, text, prev, shift_up, open>>

Enter ==
  /\ Key
  /\ enter_flag' = TRUE
  /\ char_in_line' = 0
  /\ UNCHANGED <<current_line, current_char, last_current_char, reset_flag, output, cursor,
                 terminal_screen, pc, text, prev, shift_up, paper, open>>

\* A space at a place of the screen; there is none before the first.
backspace_called(place) ==
  IF place < 0 THEN cells
  ELSE [cells EXCEPT ![place \div NUM_COLS][place % NUM_COLS] = BLANK]

\* The key blanks the place before the cursor that the scheduler saved last, on the
\* screen.  Then the page of the scheduled terminal is mapped: its back buffer.
Backspace ==
  LET place == NUM_COLS * terminal_screen[2] + terminal_screen[1] - 1 IN
  /\ Key
  /\ current_char > 0 \/ "empty" \in Usage
  /\ current_char' = IF current_char > 0 THEN current_char - 1 ELSE 0
  /\ cells' = backspace_called(place)
  /\ strayed' = (strayed \/ place >= NUM_ROWS * NUM_COLS)
  /\ vmap' = "back"
  /\ x' = terminal_screen[1] /\ y' = terminal_screen[2]
  /\ paper' = IF current_char > 0 THEN Erased(paper) ELSE paper
  /\ UNCHANGED <<current_line, char_in_line, last_current_char, reset_flag, enter_flag,
                 terminal_screen, pc, text, prev, shift_up, open>>

\* Ctrl-L: the screen is cleared, and the back buffer of the scheduled terminal mapped.
clear_terminal ==
  /\ Key
  /\ (prev = 0 /\ current_char = 0) \/ "clear" \in Usage
  /\ cells' = clear
  /\ x' = 0 /\ y' = 0
  /\ vmap' = "back"
  /\ pc' = "clear"
  /\ UNCHANGED <<info, strayed, terminal_screen, text, prev, shift_up, paper, open>>

\* Behind its sti: what is typed is to be drawn again at the top.
ClearEnds ==
  /\ pc = "clear"
  /\ reset_flag' = TRUE
  /\ current_line' = 0 /\ char_in_line' = 0
  /\ pc' = "loop"
  /\ paper' = Printed(BlankPaper, Typed(current_char))
  /\ UNCHANGED <<current_char, last_current_char, enter_flag, output, cursor, terminal_screen,
                 text, prev, shift_up, open>>

-----------------------------------------------------------------------------
\* scheduler() saves the cursor and, when the terminal is scheduled again, restores it
\* and maps the page of the terminal on the screen.
scheduler ==
  /\ terminal_screen' = cursor
  /\ vmap' = "screen"
  /\ UNCHANGED <<info, cells, strayed, cursor, pc, text, prev, shift_up, paper, open>>

Next ==
  \/ scheduler
  \/ \E t \in Texts : Write(t) \/ WriteRefused(t)
  \/ MakeRoom \/ PutText
  \/ ReadCalled \/ Echo \/ TakeLine
  \/ Type \/ Enter \/ Backspace \/ clear_terminal \/ ClearEnds

Spec == Init /\ [][Next]_vars

\* A write is not left by an interrupt for good, and a reader gets the CPU.
Fairness == WF_vars(MakeRoom \/ PutText) /\ WF_vars(Echo \/ TakeLine)
FairSpec == Spec /\ Fairness

-----------------------------------------------------------------------------
(* Properties                                                              *)

TypeOK ==
  /\ current_line \in 0 .. BYTE - 1 /\ char_in_line \in 0 .. BYTE - 1
  /\ current_char \in 0 .. MAX_BUFFER_LENGTH
  /\ last_current_char \in 0 .. MAX_BUFFER_LENGTH
  /\ reset_flag \in BOOLEAN /\ enter_flag \in BOOLEAN
  /\ vmap \in {"screen", "back"} /\ strayed \in BOOLEAN
  /\ cells \in [Rows -> [Cols -> {WRITTEN, TYPED, BLANK}]]
  /\ x \in 0 .. BYTE - 1 /\ y \in 0 .. BYTE - 1
  /\ terminal_screen \in (0 .. BYTE - 1) \X (0 .. BYTE - 1)
  /\ pc \in {"user", "loop", "clear", "scroll"}
  /\ text \in Texts \cup {<<>>}
  /\ prev \in 0 .. BYTE - 1 /\ shift_up \in BOOLEAN
  /\ paper \in [rows : [Rows -> [Cols -> {WRITTEN, TYPED, BLANK}]], ink : Cols]
  /\ open \in BOOLEAN

\* Between two calls, and while a line is typed, the screen shows the end of what was
\* written and typed, nothing of it missing, overwritten or below the screen: the
\* place that terminal_write and terminal_read count is where putc left the text.
ScreenShows ==
  pc = "user" \/ (pc = "loop" /\ Echoed) =>
    \E b \in Rows : \A r \in Rows : cells[r] = IF r > b THEN BlankRow ELSE paper.rows[b - r]

-----------------------------------------------------------------------------
(* The invariant behind ScreenShows                                        *)

\* Cell (r, c) shows the paper if its newest row is at row b; rows older than the
\* paper may show anything.
Agrees(b, r, c) ==
  /\ r > b => cells[r][c] = BLANK
  /\ b - r \in Rows => cells[r][c] = paper.rows[b - r][c]

Shows(b) == \A r \in Rows, c \in Cols : Agrees(b, r, c)

\* How often the line of current_char characters behind column prev wraps.
Wraps == IF prev + current_char < NUM_COLS THEN 0 ELSE 1

\* The cells the echo of that line takes.
InLine(r, c) ==
  \/ r = current_line /\ prev <= c /\ c < prev + current_char
  \/ r = current_line + 1 /\ c < prev + current_char - NUM_COLS

\* Drawn, or not to be drawn where it could be seen.
Settled == Echoed \/ vmap = "back"

\* Of the line only what Echo has drawn is on the screen, and while Echo would draw on
\* the back buffer there is nothing to draw.
LineShows ==
  \A r \in Rows, c \in Cols :
    IF InLine(r, c) THEN Settled => cells[r][c] = TYPED
    ELSE Agrees(current_line + Wraps, r, c)

\* The paper ends with the line.
LineOnPaper ==
  /\ paper.ink = prev + current_char - Wraps * NUM_COLS
  /\ \A c \in Cols :
       IF Wraps = 0
       THEN prev <= c /\ c < paper.ink => paper.rows[0][c] = TYPED
       ELSE /\ c < paper.ink => paper.rows[0][c] = TYPED
            /\ prev <= c => paper.rows[1][c] = TYPED

Quiet == ~ reset_flag /\ ~ enter_flag

\* Use under which the two places agree: keys and programs that wait, and texts that
\* fit into a row and have their newlines, no more than rows, at the end.
Tidy ==
  /\ Usage = {}
  /\ \A t \in Texts :
       /\ \A i, j \in DOMAIN t : i <= j /\ t[i] = NEWLINE => t[j] = NEWLINE
       /\ Cardinality({i \in DOMAIN t : t[i] = NEWLINE}) <= NUM_ROWS

\* Between two calls: the place of the next text is the end of the paper, unless a
\* line was typed, which the next write leaves.
UserInv ==
  pc = "user" =>
    /\ Quiet /\ vmap = "screen"
    /\ current_char = 0 =>
         /\ ~ open /\ char_in_line = paper.ink /\ Shows(current_line)
         /\ x = char_in_line /\ y = current_line
    /\ current_char > 0 =>
         /\ char_in_line = 0
         /\ IF open THEN Shows(current_line)
            ELSE paper.ink = 0 /\ current_line + 1 \in Rows /\ Shows(current_line + 1)

\* In terminal_write: there is room to be made as long as the loop makes some.
WriteInv ==
  pc = "scroll" =>
    /\ Quiet /\ vmap = "screen" /\ current_char = 0 /\ ~ open
    /\ text \in Texts /\ char_in_line + Len(text) < NUM_COLS
    /\ char_in_line = paper.ink /\ Shows(current_line)

\* In terminal_read: the line and the cursor are where the loop counts them, and the
\* one row it makes room for is enough.
ReadInv ==
  pc = "loop" =>
    /\ ~ open
    /\ prev \in Cols /\ prev + MAX_BUFFER_LENGTH <= 2 * NUM_COLS
    /\ current_char < MAX_BUFFER_LENGTH
    /\ shift_up => current_line + 1 \in Rows
    /\ LineOnPaper /\ LineShows
    /\ IF enter_flag THEN Echoed /\ vmap = "screen" /\ char_in_line = 0 ELSE char_in_line = prev
    /\ Settled => current_line + Wraps \in Rows
    /\ Echoed => x = paper.ink /\ y = current_line + Wraps

\* In clear_terminal: nothing is typed that is to be drawn again.
ClearInv ==
  pc = "clear" =>
    /\ ~ open /\ ~ enter_flag
    /\ prev = 0 /\ MAX_BUFFER_LENGTH <= 2 * NUM_COLS
    /\ current_char = 0 /\ cells = clear

\* Where the kernel counts the next text to be is where the screen goes on, and nothing
\* was put behind its last row.
PlaceInv ==
  /\ TypeOK
  /\ current_line \in Rows
  /\ \A c \in Cols : paper.ink <= c => paper.rows[0][c] = BLANK
  /\ ~ strayed
  /\ UserInv /\ WriteInv /\ ReadInv /\ ClearInv

\* terminal_write returns (terminal.c:127): the loop that makes room ends.
WriteEnds == pc = "scroll" ~> pc = "user"
=============================================================================
