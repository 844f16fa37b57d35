------------------------------ MODULE Terminal ------------------------------
(***************************************************************************)
(* The text terminal of kernel.c: the cells of the video memory and the    *)
(* cursor.  A cell holds its character; the colour is left out.            *)
(*                                                                         *)
(* Nothing scrolls: behind the last line of the screen the row goes on     *)
(* growing, and characters are stored in the memory behind the screen.     *)
(* CELLS bounds how much of that memory the model has.                     *)
(***************************************************************************)
EXTENDS Integers, Sequences

CONSTANTS
  VGA_WIDTH,     \* 80 in kernel.h
  VGA_HEIGHT,    \* 20 in kernel.h
  CELLS,         \* cells of the screen and of the memory behind it
  Glyphs,        \* the characters that are drawn
  BEHIND         \* what the cells behind the screen hold at first

NEWLINE == 10
BACKSPACE == 8
SPACE == 32

ASSUME TerminalAssumption ==
  /\ VGA_WIDTH \in Nat \ {0} /\ VGA_HEIGHT \in Nat \ {0}
  /\ CELLS \in Nat /\ CELLS >= VGA_WIDTH * VGA_HEIGHT
  /\ SPACE \in Glyphs /\ BEHIND \in Glyphs
  /\ NEWLINE \notin Glyphs /\ BACKSPACE \notin Glyphs

VARIABLE terminal   \* video_mem, terminal_row and terminal_col

Cells == 0 .. CELLS - 1
OnScreen == 0 .. VGA_WIDTH * VGA_HEIGHT - 1
Cursor(t) == t.terminal_row * VGA_WIDTH + t.terminal_col

-----------------------------------------------------------------------------
terminal_putchar(t, x, y, c) == [t EXCEPT !.video_mem[y * VGA_WIDTH + x] = c]

(* The tail of terminal_writechar, for a character that is drawn.          *)
Drawn(t, c) ==
  LET put == terminal_putchar(t, t.terminal_col, t.terminal_row, c)
  IN  IF t.terminal_col + 1 >= VGA_WIDTH
      THEN [put EXCEPT !.terminal_col = 0, !.terminal_row = @ + 1]
      ELSE [put EXCEPT !.terminal_col = @ + 1]

(* Mutant: in the first column the cursor moves up and the cell it comes  *)
(* to keeps its character.                                                 *)
terminal_backspace_keeps(t) ==
  IF t.terminal_row = 0 /\ t.terminal_col = 0 THEN t
  ELSE IF t.terminal_col = 0
  THEN [t EXCEPT !.terminal_row = @ - 1, !.terminal_col = VGA_WIDTH - 1]
  ELSE LET blank == Drawn([t EXCEPT !.terminal_col = @ - 1], SPACE)
       IN  [blank EXCEPT !.terminal_col = @ - 1]

(* In the first column the last cell of the line above is cleared; in the  *)
(* others a blank is written over the cell before the cursor and the       *)
(* cursor, which that moved on, is put back.                               *)
terminal_backspace(t) ==
  IF t.terminal_row = 0 /\ t.terminal_col = 0 THEN t
  ELSE IF t.terminal_col = 0
  THEN LET up == [t EXCEPT !.terminal_row = @ - 1, !.terminal_col = VGA_WIDTH - 1]
       IN  terminal_putchar(up, up.terminal_col, up.terminal_row, SPACE)
  ELSE LET blank == Drawn([t EXCEPT !.terminal_col = @ - 1], SPACE)
       IN  [blank EXCEPT !.terminal_col = @ - 1]

terminal_writechar(t, c) ==
  IF c = NEWLINE THEN [t EXCEPT !.terminal_row = @ + 1, !.terminal_col = 0]
  ELSE IF c = BACKSPACE THEN terminal_backspace(t)
  ELSE Drawn(t, c)

print(t, str) ==
  LET printed[k \in 0 .. Len(str)] ==
        IF k = 0 THEN t ELSE terminal_writechar(printed[k - 1], str[k])
  IN  printed[Len(str)]

(* terminal_initialize blanks the screen and nothing behind it.            *)
terminal_initialize ==
  [video_mem |-> [k \in Cells |-> IF k \in OnScreen THEN SPACE ELSE BEHIND],
   terminal_row |-> 0, terminal_col |-> 0]

-----------------------------------------------------------------------------
Init == terminal = terminal_initialize

(* One call of terminal_writechar for each kind of character, as long as   *)
(* there are cells left.  A new line leaves cells it skips as they are: on *)
(* the screen.                                                             *)
PutGlyph(c) ==
  /\ c \in Glyphs
  /\ Cursor(terminal) < CELLS
  /\ terminal' = terminal_writechar(terminal, c)

PutBackspace == terminal' = terminal_writechar(terminal, BACKSPACE)

PutNewLine ==
  /\ (terminal.terminal_row + 1) * VGA_WIDTH <= VGA_WIDTH * VGA_HEIGHT
  /\ terminal' = terminal_writechar(terminal, NEWLINE)

Next == (\E c \in Glyphs : PutGlyph(c)) \/ PutBackspace \/ PutNewLine

Spec == Init /\ [][Next]_terminal

-----------------------------------------------------------------------------
(* Types of the cells and of the cursor of the terminal.                   *)
TerminalTypeOK ==
  /\ terminal \in [video_mem : [Cells -> Glyphs],
                   terminal_row : Nat, terminal_col : 0 .. VGA_WIDTH - 1]
  /\ Cursor(terminal) <= CELLS

(* Every cell of the screen from the cursor on is blank, however           *)
(* terminal_writechar and terminal_backspace moved it there.               *)
BlankAhead ==
  \A k \in OnScreen : k >= Cursor(terminal) => terminal.video_mem[k] = SPACE

Text == [k \in 1 .. Cursor(terminal) |-> terminal.video_mem[k - 1]]

Screen == INSTANCE TextScreen WITH
  Width <- VGA_WIDTH, Capacity <- CELLS, Space <- SPACE, text <- Text

(* The cells before the cursor are the text printed: terminal_writechar    *)
(* adds a glyph, fills up a line or takes the last cell away.              *)
ImplementsTextScreen == Screen!Spec
=============================================================================
