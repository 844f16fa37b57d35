------------------------- MODULE KernelSystemProofs -------------------------
(***************************************************************************)
(* The running system for every size of the screen, of the tables and of   *)
(* the keyboard's buffer.  First the terminal, a character at a time, and  *)
(* the disk, which fat16_resolve mounts whole or leaves with nothing bound *)
(* to it; then the system, which shows every accepted key once and in      *)
(* order.                                                                  *)
(*                                                                         *)
(* For the terminal, row and column are replaced by the cell they stand    *)
(* for.  That cells are the text written is not inductive without knowing  *)
(* that everything ahead of the cursor is blank.                           *)
(*                                                                         *)
(* For the system, the invariant says what the program has in its          *)
(* registers and on its stack at each of its instructions, and that the    *)
(* frame of an entry holds the same while the kernel runs: an interrupt    *)
(* returns to a program that cannot tell it happened, and putchar finds    *)
(* its argument at the stack pointer the entry saved.                      *)
(***************************************************************************)
EXTENDS KernelSystem, SequenceTheorems, WellFoundedInduction, TLAPS

Terminals == [video_mem : [Cells -> Glyphs],
              terminal_row : Nat, terminal_col : 0 .. VGA_WIDTH - 1]

TInv == TerminalTypeOK /\ BlankAhead

-----------------------------------------------------------------------------
(* Multiplying by the width, one row more or less.                         *)
LEMMA RowStep ==
  ASSUME NEW r \in Int, NEW w \in Int
  PROVE  /\ (r + 1) * w = r * w + w
         /\ (r - 1) * w = r * w - w
OBVIOUS

LEMMA RowGrows ==
  ASSUME NEW r \in Nat, NEW s \in Nat, NEW w \in Nat, r <= s
  PROVE  r * w <= s * w /\ r * w \in Nat
OBVIOUS

(* The quotient is the row, for a column on the line.                      *)
LEMMA DivUnique ==
  ASSUME NEW r \in Nat, NEW w \in Nat \ {0}, NEW c \in 0 .. w - 1, NEW n \in Nat,
         n = r * w + c
  PROVE  r = n \div w
<1>1. /\ n \div w \in Int /\ n % w \in 0 .. w - 1
      /\ n = w * (n \div w) + (n % w)
  OBVIOUS
<1>2. w * (n \div w) = (n \div w) * w
  BY <1>1
<1>3. CASE n \div w < r
  BY <1>1, <1>2, <1>3
<1>4. CASE n \div w > r
  BY <1>1, <1>2, <1>4
<1>5. QED
  BY <1>1, <1>3, <1>4

(* Where the cursor is.                                                    *)
LEMMA CursorIsNat ==
  ASSUME NEW t \in Terminals
  PROVE  /\ Cursor(t) \in Nat
         /\ t.terminal_row * VGA_WIDTH \in Nat
         /\ t.terminal_row \in Nat /\ t.terminal_col \in 0 .. VGA_WIDTH - 1
         /\ Cursor(t) = t.terminal_row * VGA_WIDTH + t.terminal_col
         /\ t.video_mem \in [Cells -> Glyphs]
<1>1. VGA_WIDTH \in Nat
  BY TerminalAssumption
<1>2. t.terminal_row \in Nat /\ t.terminal_col \in 0 .. VGA_WIDTH - 1
      /\ t.video_mem \in [Cells -> Glyphs]
  BY DEF Terminals
<1>3. t.terminal_row * VGA_WIDTH \in Nat
  BY <1>1, <1>2, RowGrows
<1>4. QED
  BY <1>2, <1>3, <1>1 DEF Cursor

LEMMA ScreenHasCells ==
  /\ VGA_WIDTH * VGA_HEIGHT \in Nat /\ CELLS \in Nat /\ CELLS >= VGA_WIDTH * VGA_HEIGHT
  /\ \A k \in OnScreen : k \in Cells /\ k \in Nat
  /\ \A k \in Nat : k < VGA_WIDTH * VGA_HEIGHT => k \in OnScreen
<1>1. VGA_WIDTH \in Nat /\ VGA_HEIGHT \in Nat /\ CELLS \in Nat /\ CELLS >= VGA_WIDTH * VGA_HEIGHT
  BY TerminalAssumption
<1>2. VGA_WIDTH * VGA_HEIGHT \in Nat
  BY <1>1, RowGrows
<1>3. QED
  BY <1>1, <1>2 DEF OnScreen, Cells

(* A terminal is built from its three fields.                              *)
LEMMA MakeTerminal ==
  ASSUME NEW m \in [Cells -> Glyphs], NEW r \in Nat, NEW c \in 0 .. VGA_WIDTH - 1,
         NEW t, t = [video_mem |-> m, terminal_row |-> r, terminal_col |-> c]
  PROVE  /\ t \in Terminals
         /\ t.video_mem = m /\ t.terminal_row = r /\ t.terminal_col = c
         /\ Cursor(t) = r * VGA_WIDTH + c
BY DEF Terminals, Cursor

LEMMA TerminalFields ==
  ASSUME NEW t \in Terminals
  PROVE  t = [video_mem |-> t.video_mem, terminal_row |-> t.terminal_row,
              terminal_col |-> t.terminal_col]
BY DEF Terminals

(* Moving the cursor to another row and column.                            *)
LEMMA MoveCursor ==
  ASSUME NEW m, NEW r, NEW c, NEW x, NEW y,
         NEW t, t = [video_mem |-> m, terminal_row |-> r, terminal_col |-> c]
  PROVE  /\ [t EXCEPT !.terminal_row = x, !.terminal_col = y]
              = [video_mem |-> m, terminal_row |-> x, terminal_col |-> y]
         /\ [t EXCEPT !.terminal_col = y, !.terminal_row = x]
              = [video_mem |-> m, terminal_row |-> x, terminal_col |-> y]
<1> DEFINE down == [video_mem |-> m, terminal_row |-> x, terminal_col |-> c]
           along == [video_mem |-> m, terminal_row |-> r, terminal_col |-> y]
           there == [video_mem |-> m, terminal_row |-> x, terminal_col |-> y]
<1>1. [t EXCEPT !.terminal_row = x] = down
  OBVIOUS
<1>2. [t EXCEPT !.terminal_row = x, !.terminal_col = y]
        = [[t EXCEPT !.terminal_row = x] EXCEPT !.terminal_col = y]
  OBVIOUS
<1>3. [t EXCEPT !.terminal_col = y] = along
  OBVIOUS
<1>4. [t EXCEPT !.terminal_col = y, !.terminal_row = x]
        = [[t EXCEPT !.terminal_col = y] EXCEPT !.terminal_row = x]
  OBVIOUS
<1>5. [down EXCEPT !.terminal_col = y] = there /\ [along EXCEPT !.terminal_row = x] = there
  OBVIOUS
<1> HIDE DEF down, along
<1>6. QED
  BY <1>1, <1>2, <1>3, <1>4, <1>5

LEMMA MoveTerminal ==
  ASSUME NEW t \in Terminals, NEW x, NEW y
  PROVE  [t EXCEPT !.terminal_row = x, !.terminal_col = y]
           = [video_mem |-> t.video_mem, terminal_row |-> x, terminal_col |-> y]
<1> DEFINE down == [video_mem |-> t.video_mem, terminal_row |-> x,
                    terminal_col |-> t.terminal_col]
           there == [video_mem |-> t.video_mem, terminal_row |-> x, terminal_col |-> y]
<1>1. [t EXCEPT !.terminal_row = x] = down
  BY TerminalFields
<1>2. [t EXCEPT !.terminal_row = x, !.terminal_col = y]
        = [[t EXCEPT !.terminal_row = x] EXCEPT !.terminal_col = y]
  OBVIOUS
<1>3. [down EXCEPT !.terminal_col = y] = there
  OBVIOUS
<1> HIDE DEF down
<1>4. QED
  BY <1>1, <1>2, <1>3

(* terminal_writechar of a drawn character: one cell is stored, and the    *)
(* cursor moves to the next cell, which may be the first of a line.        *)
LEMMA DrawnEffect ==
  ASSUME NEW t \in Terminals, Cursor(t) < CELLS, NEW c \in Glyphs
  PROVE  /\ Drawn(t, c) \in Terminals
         /\ Cursor(Drawn(t, c)) = Cursor(t) + 1
         /\ Drawn(t, c).video_mem = [t.video_mem EXCEPT ![Cursor(t)] = c]
         /\ t.terminal_col + 1 < VGA_WIDTH =>
              /\ Drawn(t, c).terminal_row = t.terminal_row
              /\ Drawn(t, c).terminal_col = t.terminal_col + 1
<1> DEFINE m == [t.video_mem EXCEPT ![Cursor(t)] = c]
<1>1. VGA_WIDTH \in Nat \ {0} /\ CELLS \in Nat
  BY TerminalAssumption
<1>2. /\ Cursor(t) \in Nat /\ t.terminal_row * VGA_WIDTH \in Nat
      /\ t.terminal_row \in Nat /\ t.terminal_col \in 0 .. VGA_WIDTH - 1
      /\ Cursor(t) = t.terminal_row * VGA_WIDTH + t.terminal_col
      /\ t.video_mem \in [Cells -> Glyphs]
  BY CursorIsNat
<1>3. m \in [Cells -> Glyphs]
  BY <1>2
<1>4. terminal_putchar(t, t.terminal_col, t.terminal_row, c)
        = [video_mem |-> m, terminal_row |-> t.terminal_row, terminal_col |-> t.terminal_col]
  BY <1>2, TerminalFields DEF terminal_putchar
<1> HIDE DEF m
<1>5. CASE t.terminal_col + 1 >= VGA_WIDTH
  <2> DEFINE put == [video_mem |-> m, terminal_row |-> t.terminal_row,
                     terminal_col |-> t.terminal_col]
  <2>0. Drawn(t, c) = [put EXCEPT !.terminal_col = 0, !.terminal_row = t.terminal_row + 1]
    BY <1>4, <1>5 DEF Drawn
  <2>1. Drawn(t, c) = [video_mem |-> m, terminal_row |-> t.terminal_row + 1, terminal_col |-> 0]
    BY <2>0, MoveCursor
  <2>2. t.terminal_row + 1 \in Nat /\ 0 \in 0 .. VGA_WIDTH - 1
    BY <1>1, <1>2
  <2>3. /\ Drawn(t, c) \in Terminals /\ Drawn(t, c).video_mem = m
        /\ Cursor(Drawn(t, c)) = (t.terminal_row + 1) * VGA_WIDTH + 0
    BY <1>3, <2>1, <2>2, MakeTerminal
  <2>4. (t.terminal_row + 1) * VGA_WIDTH = t.terminal_row * VGA_WIDTH + VGA_WIDTH
    BY <1>1, <1>2, RowStep
  <2>5. t.terminal_col = VGA_WIDTH - 1
    BY <1>1, <1>2, <1>5
  <2>6. QED
    BY <1>1, <1>2, <1>5, <2>3, <2>4, <2>5 DEF m
<1>6. CASE ~ (t.terminal_col + 1 >= VGA_WIDTH)
  <2>1. Drawn(t, c) = [video_mem |-> m, terminal_row |-> t.terminal_row,
                       terminal_col |-> t.terminal_col + 1]
    BY <1>4, <1>6 DEF Drawn
  <2>2. t.terminal_col + 1 \in 0 .. VGA_WIDTH - 1
    BY <1>1, <1>2, <1>6
  <2>3. /\ Drawn(t, c) \in Terminals /\ Drawn(t, c).video_mem = m
        /\ Cursor(Drawn(t, c)) = t.terminal_row * VGA_WIDTH + (t.terminal_col + 1)
        /\ Drawn(t, c).terminal_row = t.terminal_row
        /\ Drawn(t, c).terminal_col = t.terminal_col + 1
    BY <1>2, <1>3, <2>1, <2>2, MakeTerminal
  <2>4. QED
    BY <1>1, <1>2, <2>3 DEF m
<1>7. QED
  BY <1>5, <1>6

(* terminal_backspace behind the first cell: the cursor moves back by one  *)
(* cell and leaves a blank there.                                          *)
LEMMA BackspaceEffect ==
  ASSUME NEW t \in Terminals, Cursor(t) <= CELLS, Cursor(t) # 0
  PROVE  /\ terminal_backspace(t) \in Terminals
         /\ Cursor(terminal_backspace(t)) = Cursor(t) - 1
         /\ terminal_backspace(t).video_mem = [t.video_mem EXCEPT ![Cursor(t) - 1] = SPACE]
<1> DEFINE m == [t.video_mem EXCEPT ![Cursor(t) - 1] = SPACE]
<1>1. VGA_WIDTH \in Nat \ {0} /\ CELLS \in Nat /\ SPACE \in Glyphs
  BY TerminalAssumption
<1>2. /\ Cursor(t) \in Nat /\ t.terminal_row * VGA_WIDTH \in Nat
      /\ t.terminal_row \in Nat /\ t.terminal_col \in 0 .. VGA_WIDTH - 1
      /\ Cursor(t) = t.terminal_row * VGA_WIDTH + t.terminal_col
      /\ t.video_mem \in [Cells -> Glyphs]
  BY CursorIsNat
<1>3. m \in [Cells -> Glyphs]
  BY <1>1, <1>2
<1>4. ~ (t.terminal_row = 0 /\ t.terminal_col = 0)
  BY <1>1, <1>2
<1>5. CASE t.terminal_col = 0
  <2> DEFINE up == [video_mem |-> t.video_mem, terminal_row |-> t.terminal_row - 1,
                    terminal_col |-> VGA_WIDTH - 1]
  <2>1. [t EXCEPT !.terminal_row = @ - 1, !.terminal_col = VGA_WIDTH - 1] = up
    BY MoveTerminal, Zenon
  <2>2. t.terminal_row - 1 \in Nat /\ VGA_WIDTH - 1 \in 0 .. VGA_WIDTH - 1
    BY <1>1, <1>2, <1>4, <1>5
  <2>3. (t.terminal_row - 1) * VGA_WIDTH = t.terminal_row * VGA_WIDTH - VGA_WIDTH
    BY <1>1, <1>2, RowStep
  <2>4. up.terminal_row * VGA_WIDTH + up.terminal_col = Cursor(t) - 1
    BY <1>1, <1>2, <1>5, <2>3
  <2>5. terminal_putchar(up, up.terminal_col, up.terminal_row, SPACE)
          = [video_mem |-> m, terminal_row |-> t.terminal_row - 1, terminal_col |-> VGA_WIDTH - 1]
    BY <2>4 DEF terminal_putchar
  <2>6. terminal_backspace(t) = terminal_putchar(up, up.terminal_col, up.terminal_row, SPACE)
    BY <1>4, <1>5, <2>1 DEF terminal_backspace
  <2> HIDE DEF up, m
  <2>7. /\ terminal_backspace(t) \in Terminals /\ terminal_backspace(t).video_mem = m
        /\ Cursor(terminal_backspace(t)) = (t.terminal_row - 1) * VGA_WIDTH + (VGA_WIDTH - 1)
    BY <1>3, <2>2, <2>5, <2>6, MakeTerminal
  <2>8. QED
    BY <1>1, <1>2, <1>5, <2>3, <2>7 DEF m
<1>6. CASE t.terminal_col # 0
  <2> DEFINE back == [video_mem |-> t.video_mem, terminal_row |-> t.terminal_row,
                      terminal_col |-> t.terminal_col - 1]
             blank == Drawn(back, SPACE)
  <2>1. [t EXCEPT !.terminal_col = @ - 1] = back
    BY TerminalFields
  <2>2. t.terminal_col - 1 \in 0 .. VGA_WIDTH - 1
    BY <1>1, <1>2, <1>6
  <2>3. /\ back \in Terminals /\ back.video_mem = t.video_mem
        /\ back.terminal_row = t.terminal_row /\ back.terminal_col = t.terminal_col - 1
        /\ Cursor(back) = t.terminal_row * VGA_WIDTH + (t.terminal_col - 1)
    BY <1>2, <2>2, MakeTerminal
  <2>4. terminal_backspace(t) = [blank EXCEPT !.terminal_col = @ - 1]
    BY <1>6, <2>1 DEF terminal_backspace
  <2> HIDE DEF back
  <2>5. Cursor(back) = Cursor(t) - 1 /\ Cursor(back) < CELLS
    BY <1>1, <1>2, <2>3
  <2>6. back.terminal_col + 1 < VGA_WIDTH
    BY <1>1, <1>2, <2>3
  <2>7. /\ blank \in Terminals /\ blank.video_mem = m
        /\ blank.terminal_row = t.terminal_row /\ blank.terminal_col = t.terminal_col
    <3>1. /\ blank \in Terminals
          /\ blank.video_mem = [back.video_mem EXCEPT ![Cursor(back)] = SPACE]
          /\ blank.terminal_row = back.terminal_row
          /\ blank.terminal_col = back.terminal_col + 1
      BY <1>1, <2>3, <2>5, <2>6, DrawnEffect
    <3>2. QED
      BY <1>2, <2>3, <2>5, <3>1
  <2> HIDE DEF blank, m
  <2>8. [blank EXCEPT !.terminal_col = @ - 1]
          = [video_mem |-> m, terminal_row |-> t.terminal_row, terminal_col |-> t.terminal_col - 1]
    BY <2>7, TerminalFields
  <2>9. /\ terminal_backspace(t) \in Terminals /\ terminal_backspace(t).video_mem = m
        /\ Cursor(terminal_backspace(t)) = t.terminal_row * VGA_WIDTH + (t.terminal_col - 1)
    BY <1>2, <1>3, <2>2, <2>4, <2>8, MakeTerminal
  <2>10. QED
    BY <1>1, <1>2, <2>9 DEF m
<1>7. QED
  BY <1>5, <1>6

(* terminal_backspace at the first cell does nothing.                      *)
LEMMA BackspaceAtStart ==
  ASSUME NEW t \in Terminals, Cursor(t) = 0
  PROVE  terminal_backspace(t) = t
<1>1. VGA_WIDTH \in Nat \ {0}
  BY TerminalAssumption
<1>2. /\ t.terminal_row * VGA_WIDTH \in Nat
      /\ t.terminal_row \in Nat /\ t.terminal_col \in 0 .. VGA_WIDTH - 1
      /\ 0 = t.terminal_row * VGA_WIDTH + t.terminal_col
  BY CursorIsNat
<1>3. t.terminal_col = 0 /\ t.terminal_row * VGA_WIDTH = 0
  BY <1>2
<1>4. t.terminal_row = 0
  BY <1>1, <1>2, <1>3
<1>5. QED
  BY <1>3, <1>4 DEF terminal_backspace

(* A new line moves the cursor to the next multiple of the width.          *)
LEMMA NewLineEffect ==
  ASSUME NEW t \in Terminals
  PROVE  /\ terminal_writechar(t, NEWLINE) \in Terminals
         /\ terminal_writechar(t, NEWLINE).video_mem = t.video_mem
         /\ Cursor(terminal_writechar(t, NEWLINE)) = (t.terminal_row + 1) * VGA_WIDTH
         /\ (t.terminal_row + 1) * VGA_WIDTH > Cursor(t)
         /\ t.terminal_row = Cursor(t) \div VGA_WIDTH
<1> DEFINE n == terminal_writechar(t, NEWLINE)
<1>1. VGA_WIDTH \in Nat \ {0}
  BY TerminalAssumption
<1>2. /\ Cursor(t) \in Nat /\ t.terminal_row * VGA_WIDTH \in Nat
      /\ t.terminal_row \in Nat /\ t.terminal_col \in 0 .. VGA_WIDTH - 1
      /\ Cursor(t) = t.terminal_row * VGA_WIDTH + t.terminal_col
      /\ t.video_mem \in [Cells -> Glyphs]
  BY CursorIsNat
<1>4. [t EXCEPT !.terminal_row = t.terminal_row + 1, !.terminal_col = 0]
        = [video_mem |-> t.video_mem, terminal_row |-> t.terminal_row + 1, terminal_col |-> 0]
  BY MoveTerminal, Zenon
<1>5. n = [video_mem |-> t.video_mem, terminal_row |-> t.terminal_row + 1, terminal_col |-> 0]
  BY <1>4 DEF terminal_writechar
<1>6. t.terminal_row + 1 \in Nat /\ 0 \in 0 .. VGA_WIDTH - 1
  BY <1>1, <1>2
<1> HIDE DEF n
<1>7. /\ n \in Terminals /\ n.video_mem = t.video_mem
      /\ Cursor(n) = (t.terminal_row + 1) * VGA_WIDTH + 0
  BY <1>2, <1>5, <1>6, MakeTerminal
<1>8. (t.terminal_row + 1) * VGA_WIDTH = t.terminal_row * VGA_WIDTH + VGA_WIDTH
  BY <1>1, <1>2, RowStep
<1>9. t.terminal_row = Cursor(t) \div VGA_WIDTH
  <2> DEFINE r == t.terminal_row
             c == t.terminal_col
             k == Cursor(t)
  <2>1. r \in Nat /\ c \in 0 .. VGA_WIDTH - 1 /\ k \in Nat /\ k = r * VGA_WIDTH + c
    BY <1>2
  <2> HIDE DEF r, c, k
  <2>2. r = k \div VGA_WIDTH
    BY ONLY <1>1, <2>1, DivUnique
  <2>3. QED
    BY <2>2 DEF r, k
<1>10. QED
  BY <1>1, <1>2, <1>7, <1>8, <1>9 DEF n

-----------------------------------------------------------------------------
(* A terminal in order: its types, and a screen that is blank from the     *)
(* cursor on.                                                              *)
InOrder(t) ==
  /\ t \in Terminals /\ Cursor(t) <= CELLS
  /\ \A k \in OnScreen : k >= Cursor(t) => t.video_mem[k] = SPACE

(* The text before the cursor of a terminal.                               *)
TextOf(t) == [k \in 1 .. Cursor(t) |-> t.video_mem[k - 1]]

LEMMA TInvInOrder ==
  /\ TInv <=> InOrder(terminal)
  /\ TInv' <=> InOrder(terminal')
  /\ Text = TextOf(terminal) /\ Text' = TextOf(terminal')
BY DEF TInv, InOrder, TerminalTypeOK, BlankAhead, Terminals, Text, TextOf, Cursor

LEMMA TextIsSeq ==
  ASSUME NEW t, InOrder(t)
  PROVE  /\ TextOf(t) \in Seq(Glyphs) /\ Len(TextOf(t)) = Cursor(t)
         /\ \A k \in 1 .. Cursor(t) : TextOf(t)[k] = t.video_mem[k - 1]
         /\ Cursor(t) \in Nat
<1>1. t \in Terminals /\ Cursor(t) <= CELLS /\ CELLS \in Nat
  BY TerminalAssumption DEF InOrder
<1>2. Cursor(t) \in Nat /\ t.video_mem \in [Cells -> Glyphs]
  BY <1>1, CursorIsNat
<1>3. \A k \in 1 .. Cursor(t) : k - 1 \in Cells
  BY <1>1, <1>2 DEF Cells
<1>4. TextOf(t) \in [1 .. Cursor(t) -> Glyphs]
  BY <1>2, <1>3 DEF TextOf
<1>5. QED
  BY <1>2, <1>4 DEF TextOf

(* terminal_initialize starts with a blank screen and no text.             *)
LEMMA BlankStart ==
  /\ InOrder(terminal_initialize) /\ Cursor(terminal_initialize) = 0
  /\ TextOf(terminal_initialize) = << >>
<1> DEFINE m == [k \in Cells |-> IF k \in OnScreen THEN SPACE ELSE BEHIND]
           t == terminal_initialize
<1>1. VGA_WIDTH \in Nat \ {0} /\ CELLS \in Nat /\ SPACE \in Glyphs /\ BEHIND \in Glyphs
  BY TerminalAssumption
<1>2. m \in [Cells -> Glyphs] /\ \A k \in OnScreen : k \in Cells
  BY <1>1, ScreenHasCells
<1>3. t = [video_mem |-> m, terminal_row |-> 0, terminal_col |-> 0]
  BY DEF terminal_initialize
<1>4. \A k \in OnScreen : m[k] = SPACE
  BY <1>2
<1> HIDE DEF m, t
<1>5. 0 \in 0 .. VGA_WIDTH - 1 /\ 0 * VGA_WIDTH + 0 = 0
  BY <1>1
<1>6. t \in Terminals /\ t.video_mem = m /\ Cursor(t) = 0
  BY <1>2, <1>3, <1>5, MakeTerminal
<1>7. InOrder(t)
  BY <1>1, <1>4, <1>6 DEF InOrder
<1>8. TextOf(t) = << >>
  BY <1>6, <1>7, TextIsSeq
<1>9. QED
  BY <1>6, <1>7, <1>8 DEF t

(* A drawn glyph joins the end of the text.                                *)
LEMMA GlyphStep ==
  ASSUME NEW t, InOrder(t), Cursor(t) < CELLS, NEW c \in Glyphs,
         NEW u, u = terminal_writechar(t, c)
  PROVE  /\ InOrder(u) /\ Cursor(u) = Cursor(t) + 1
         /\ TextOf(u) = Append(TextOf(t), c)
<1>1. c # NEWLINE /\ c # BACKSPACE /\ CELLS \in Nat
  BY TerminalAssumption
<1>2. u = Drawn(t, c) /\ t \in Terminals
  BY <1>1 DEF terminal_writechar, InOrder
<1>3. /\ u \in Terminals /\ Cursor(u) = Cursor(t) + 1
      /\ u.video_mem = [t.video_mem EXCEPT ![Cursor(t)] = c]
  BY <1>2, DrawnEffect
<1>4. Cursor(t) \in Nat /\ t.video_mem \in [Cells -> Glyphs]
  BY <1>2, CursorIsNat
<1>5. InOrder(u)
  <2>1. \A k \in OnScreen : k >= Cursor(u) => u.video_mem[k] = SPACE
    BY <1>3, <1>4, ScreenHasCells DEF InOrder
  <2>2. QED
    BY <1>1, <1>3, <1>4, <2>1 DEF InOrder
<1>6. /\ TextOf(t) \in Seq(Glyphs) /\ Len(TextOf(t)) = Cursor(t)
      /\ \A k \in 1 .. Cursor(t) : TextOf(t)[k] = t.video_mem[k - 1]
  BY TextIsSeq
<1>7. /\ TextOf(u) \in Seq(Glyphs) /\ Len(TextOf(u)) = Cursor(t) + 1
      /\ \A k \in 1 .. Cursor(t) + 1 : TextOf(u)[k] = u.video_mem[k - 1]
  BY <1>3, <1>5, TextIsSeq
<1>8. ASSUME NEW k \in 1 .. Cursor(t) + 1
      PROVE  TextOf(u)[k] = IF k = Cursor(t) + 1 THEN c ELSE TextOf(t)[k]
  <2>1. TextOf(u)[k] = u.video_mem[k - 1]
    BY <1>7
  <2>2. CASE k = Cursor(t) + 1
    <3>1. k - 1 = Cursor(t) /\ Cursor(t) \in Cells
      BY <1>1, <1>4, <2>2 DEF Cells
    <3>2. u.video_mem[k - 1] = c
      BY <1>3, <1>4, <3>1
    <3>3. QED
      BY <2>1, <2>2, <3>2
  <2>3. CASE k # Cursor(t) + 1
    <3>1. k - 1 \in Cells /\ k - 1 # Cursor(t) /\ k \in 1 .. Cursor(t)
      BY <1>1, <1>4, <2>3 DEF Cells
    <3>2. u.video_mem[k - 1] = t.video_mem[k - 1]
      BY <1>3, <1>4, <3>1
    <3>3. QED
      BY <1>6, <2>1, <2>3, <3>1, <3>2
  <2>4. QED
    BY <2>2, <2>3
<1>9. /\ Append(TextOf(t), c) \in Seq(Glyphs) /\ Len(Append(TextOf(t), c)) = Cursor(t) + 1
      /\ \A k \in 1 .. Cursor(t) + 1 :
           Append(TextOf(t), c)[k] = IF k = Cursor(t) + 1 THEN c ELSE TextOf(t)[k]
  BY <1>4, <1>6
<1>10. TextOf(u) = Append(TextOf(t), c)
  BY <1>7, <1>8, <1>9, SeqEqual
<1>11. QED
  BY <1>3, <1>5, <1>10

(* terminal_backspace takes the last cell off the text.                    *)
LEMMA EraseStep ==
  ASSUME NEW t, InOrder(t), NEW u, u = terminal_writechar(t, BACKSPACE)
  PROVE  /\ InOrder(u) /\ Cursor(u) <= Cursor(t)
         /\ TextOf(u) = Screen!Erased(TextOf(t))
<1>1. u = terminal_backspace(t) /\ t \in Terminals /\ Cursor(t) <= CELLS /\ CELLS \in Nat
  BY TerminalAssumption DEF terminal_writechar, NEWLINE, BACKSPACE, InOrder
<1>2. Cursor(t) \in Nat /\ t.video_mem \in [Cells -> Glyphs]
  BY <1>1, CursorIsNat
<1>3. /\ TextOf(t) \in Seq(Glyphs) /\ Len(TextOf(t)) = Cursor(t)
      /\ \A k \in 1 .. Cursor(t) : TextOf(t)[k] = t.video_mem[k - 1]
  BY TextIsSeq
<1>4. CASE Cursor(t) = 0
  <2>1. TextOf(t) = << >> /\ u = t
    BY <1>1, <1>3, <1>4, BackspaceAtStart
  <2>2. QED
    BY <1>2, <2>1 DEF Screen!Erased
<1>5. CASE Cursor(t) # 0
  <2>1. /\ u \in Terminals /\ Cursor(u) = Cursor(t) - 1
        /\ u.video_mem = [t.video_mem EXCEPT ![Cursor(t) - 1] = SPACE]
    BY <1>1, <1>5, BackspaceEffect
  <2>2. InOrder(u)
    <3>1. \A k \in OnScreen : k >= Cursor(u) => u.video_mem[k] = SPACE
      BY <1>2, <1>5, <2>1, ScreenHasCells DEF InOrder
    <3>2. QED
      BY <1>1, <1>2, <1>5, <2>1, <3>1 DEF InOrder
  <2>3. /\ TextOf(u) \in Seq(Glyphs) /\ Len(TextOf(u)) = Cursor(t) - 1
        /\ \A k \in 1 .. Cursor(t) - 1 : TextOf(u)[k] = u.video_mem[k - 1]
    BY <2>1, <2>2, TextIsSeq
  <2>4. ASSUME NEW k \in 1 .. Cursor(t) - 1
        PROVE  TextOf(u)[k] = TextOf(t)[k]
    <3>1. k - 1 \in Cells /\ k - 1 # Cursor(t) - 1 /\ k \in 1 .. Cursor(t)
      BY <1>1, <1>2 DEF Cells
    <3>2. u.video_mem[k - 1] = t.video_mem[k - 1]
      BY <1>2, <2>1, <3>1
    <3>3. QED
      BY <1>3, <2>3, <3>1, <3>2
  <2>5. /\ SubSeq(TextOf(t), 1, Cursor(t) - 1) \in Seq(Glyphs)
        /\ Len(SubSeq(TextOf(t), 1, Cursor(t) - 1)) = Cursor(t) - 1
        /\ \A k \in 1 .. Cursor(t) - 1 :
             SubSeq(TextOf(t), 1, Cursor(t) - 1)[k] = TextOf(t)[k]
    BY <1>2, <1>3, <1>5
  <2>6. TextOf(u) = SubSeq(TextOf(t), 1, Cursor(t) - 1)
    BY <2>3, <2>4, <2>5, SeqEqual
  <2>7. TextOf(t) # << >>
    BY <1>3, <1>5
  <2>8. Cursor(u) <= Cursor(t)
    BY <1>2, <2>1
  <2>9. QED
    BY <1>3, <2>2, <2>6, <2>7, <2>8 DEF Screen!Erased
<1>6. QED
  BY <1>4, <1>5

(* A new line fills the line up: the cells it skips are blank.             *)
LEMMA NewLineStep ==
  ASSUME NEW t, InOrder(t), (t.terminal_row + 1) * VGA_WIDTH <= VGA_WIDTH * VGA_HEIGHT,
         NEW u, u = terminal_writechar(t, NEWLINE)
  PROVE  /\ InOrder(u) /\ Cursor(u) = (t.terminal_row + 1) * VGA_WIDTH
         /\ TextOf(u) = Screen!NewLined(TextOf(t))
<1> DEFINE end == (t.terminal_row + 1) * VGA_WIDTH
<1>1. /\ VGA_WIDTH * VGA_HEIGHT \in Nat /\ CELLS \in Nat /\ CELLS >= VGA_WIDTH * VGA_HEIGHT
      /\ \A k \in OnScreen : k \in Cells /\ k \in Nat
  BY ScreenHasCells
<1>2. t \in Terminals /\ Cursor(t) <= CELLS
      /\ \A k \in OnScreen : k >= Cursor(t) => t.video_mem[k] = SPACE
  BY DEF InOrder
<1>3. /\ u \in Terminals /\ u.video_mem = t.video_mem
      /\ Cursor(u) = end /\ end > Cursor(t)
      /\ t.terminal_row = Cursor(t) \div VGA_WIDTH
  BY <1>2, NewLineEffect
<1>4. Cursor(t) \in Nat /\ Cursor(u) \in Nat
  BY <1>2, <1>3, CursorIsNat
<1>5. end <= VGA_WIDTH * VGA_HEIGHT
  OBVIOUS
<1>6. /\ TextOf(t) \in Seq(Glyphs) /\ Len(TextOf(t)) = Cursor(t)
      /\ \A k \in 1 .. Cursor(t) : TextOf(t)[k] = t.video_mem[k - 1]
  BY TextIsSeq
<1>7. Screen!NewLined(TextOf(t))
        = [k \in 1 .. end |-> IF k <= Cursor(t) THEN TextOf(t)[k] ELSE SPACE]
  BY <1>3, <1>6 DEF Screen!NewLined
<1> HIDE DEF end
<1>8. InOrder(u)
  <2>1. \A k \in OnScreen : k >= Cursor(u) => u.video_mem[k] = SPACE
    BY <1>1, <1>2, <1>3, <1>4
  <2>2. QED
    BY <1>1, <1>3, <1>4, <1>5, <2>1 DEF InOrder
<1>9. ASSUME NEW k \in 1 .. end
      PROVE  t.video_mem[k - 1] = IF k <= Cursor(t) THEN TextOf(t)[k] ELSE SPACE
  <2>1. CASE k <= Cursor(t)
    BY <1>3, <1>4, <1>6, <2>1
  <2>2. CASE ~ (k <= Cursor(t))
    <3>1. k - 1 \in OnScreen /\ k - 1 >= Cursor(t)
      BY <1>1, <1>3, <1>4, <1>5, <2>2, ScreenHasCells
    <3>2. QED
      BY <1>2, <2>2, <3>1
  <2>3. QED
    BY <2>1, <2>2
<1>10. TextOf(u) = [k \in 1 .. end |-> t.video_mem[k - 1]]
  BY <1>3 DEF TextOf
<1>11. TextOf(u) = Screen!NewLined(TextOf(t))
  BY <1>7, <1>9, <1>10
<1>12. QED
  BY <1>3, <1>8, <1>11 DEF end

(* Each call keeps the screen in order, and does to the text what the      *)
(* abstract screen does.                                                   *)
LEMMA NextInv ==
  ASSUME TInv, [Next]_terminal
  PROVE  TInv' /\ [Screen!Next]_Text
<1>1. ASSUME NEW c \in Glyphs, PutGlyph(c)
      PROVE  TInv' /\ Screen!Next
  <2>1. /\ InOrder(terminal') /\ Text' = Append(Text, c)
        /\ Len(Text) = Cursor(terminal) /\ Cursor(terminal) < CELLS
    BY <1>1, GlyphStep, TInvInOrder, TextIsSeq DEF PutGlyph
  <2>2. Screen!Put(c)
    BY <2>1 DEF Screen!Put, Screen!Added
  <2>3. QED
    BY <2>1, <2>2, TInvInOrder DEF Screen!Next
<1>2. CASE PutBackspace
  <2>1. InOrder(terminal') /\ Text' = Screen!Erased(Text)
    BY <1>2, EraseStep, TInvInOrder DEF PutBackspace
  <2>2. QED
    BY <2>1, TInvInOrder DEF Screen!Next, Screen!Erase
<1>3. CASE PutNewLine
  <2>1. InOrder(terminal') /\ Text' = Screen!NewLined(Text)
    BY <1>3, NewLineStep, TInvInOrder DEF PutNewLine
  <2>2. QED
    BY <2>1, TInvInOrder DEF Screen!Next, Screen!NewLine
<1>4. CASE UNCHANGED terminal
  BY <1>4, TInvInOrder
<1>5. QED
  BY <1>1, <1>2, <1>3, <1>4 DEF Next

-----------------------------------------------------------------------------
(* TInv, the types of the cells and the cursor and the blank screen ahead  *)
(* of it, holds however long terminal_writechar is called.                 *)
THEOREM TerminalInvariant == Spec => []TInv
<1>1. Init => TInv
  BY BlankStart, TInvInOrder DEF Init
<1>2. TInv /\ [Next]_terminal => TInv'
  BY NextInv
<1>3. QED
  BY <1>1, <1>2, PTL DEF Spec

(* On a screen of any size, no sequence of glyphs, new lines and erases    *)
(* leaves a character on the screen at or behind the cursor: what          *)
(* terminal_backspace takes away is really gone.                           *)
THEOREM ScreenIsBlankAhead == Spec => []BlankAhead
<1>1. TInv => BlankAhead
  BY DEF TInv
<1>2. QED
  BY <1>1, TerminalInvariant, PTL

(* terminal_writechar implements the abstract screen for every width,      *)
(* height and character set: the cells before the cursor are exactly the   *)
(* text written, filled up at new lines and shortened by erases, also when *)
(* the erase goes back over the end of a line.                             *)
THEOREM TerminalImplementsTextScreen == Spec => ImplementsTextScreen
<1>1. Init => Screen!Init
  BY BlankStart, TInvInOrder DEF Init, Screen!Init
<1>2. TInv /\ [Next]_terminal => [Screen!Next]_Text
  BY NextInv
<1>3. QED
  BY <1>1, <1>2, TerminalInvariant, PTL DEF Spec, ImplementsTextScreen, Screen!Spec

-----------------------------------------------------------------------------
(* The disk.                                                               *)
(* What fat16_resolve has made when it stands at each of its steps.        *)
Unsearched ==
  phase \in {"terminal_initialize", "fs_init", "disk_search_and_init", "fat16_init_private"}

Entered ==
  /\ disk.filesystem = NULL /\ disk.fs_private = "fat_private" /\ "fat_private" \in live

MountInv ==
  /\ disk \in [filesystem : {NULL, "fat16"}, fs_private : {NULL, "fat_private"}, total : Int]
  /\ Unsearched => disk = NoDisk /\ live = {}
  /\ phase \in {"read_header", "fat16_get_root_directory", "out"} => Entered
  /\ phase = "read_header" /\ volume.fault # "diskSteamerNew" => Streams \subseteq live
  /\ phase = "fat16_get_root_directory" => Streams \subseteq live
  /\ phase = "read_header" => "stream" \notin live
  /\ MountedOrClean

(* A call of kernel_main before or in the search for disks.                *)
Searching == StartTerminal \/ fs_init \/ disk_search_and_init \/ fat16_resolve

(* What runs after the search leaves the disk alone and does not go back   *)
(* to it; a key stroke changes nothing of either.                          *)
LEMMA OnlyBootMounts ==
  ASSUME SystemNext
  PROVE  \/ Searching
         \/ UNCHANGED <<phase, volume, disk, live>>
         \/ /\ UNCHANGED <<volume, disk, live>>
            /\ ~ Unsearched /\ ~ Unsearched' /\ phase \notin Resolving /\ phase' \notin Resolving
<1>1. CASE KernelCall
  <2>1. CASE isr80h_register_commands \/ keyboard_init \/ process_load_switch \/ panic
    BY <2>1 DEF isr80h_register_commands, keyboard_init, process_load_switch, panic, Call,
                kernel_main, Unsearched, Resolving
  <2>2. QED
    BY <1>1, <2>1 DEF KernelCall, BootCalls, Searching
<1>2. CASE task_run_first_ever_task
  BY <1>2 DEF task_run_first_ever_task, Call, kernel_main, Unsearched, Resolving
<1>3. CASE Halted
  BY <1>3 DEF Halted, systemVars, bootVars
<1>4. CASE Instruction
  <2>1. CASE int_putchar \/ int_getkey
    BY <2>1 DEF int_putchar, int_getkey, Int80, Enter, Unsearched, Resolving
  <2>2. CASE \/ call_getkey \/ push_eax \/ mov_eax_3 \/ add_esp_4 \/ jmp_loop \/ mov_eax_2
             \/ cmp_eax_0 \/ je_getkey \/ mov_message_al \/ ret
    BY <2>2 DEF call_getkey, push_eax, mov_eax_3, add_esp_4, jmp_loop, mov_eax_2, cmp_eax_0,
                je_getkey, mov_message_al, ret, Pushes, Computes, bootVars
  <2>3. QED
    BY <1>4, <2>1, <2>2 DEF Instruction
<1>5. CASE KeyboardInterrupt \/ TimerInterrupt
  BY <1>5 DEF KeyboardInterrupt, TimerInterrupt, Interrupt, Enter, Unsearched, Resolving
<1>6. CASE interrupt_handler \/ isr80h_handler \/ Leave
  BY <1>6 DEF interrupt_handler, isr80h_handler, Leave, Unsearched, Resolving
<1>7. CASE \E scancode \in Scancodes : KeyStroke(scancode)
  BY <1>7 DEF KeyStroke, bootVars
<1>8. QED
  BY <1>1, <1>2, <1>3, <1>4, <1>5, <1>6, <1>7 DEF SystemNext

LEMMA NoDiskFields ==
  /\ NoDisk \in [filesystem : {NULL, "fat16"}, fs_private : {NULL, "fat_private"}, total : Int]
  /\ NoDisk.filesystem = NULL /\ NoDisk.fs_private = NULL
BY DEF NoDisk

LEMMA SearchStep ==
  ASSUME MountInv, Searching
  PROVE  MountInv'
<1> USE BootAssumption, NoDiskFields
<1>1. CASE StartTerminal \/ fs_init
  <2>1. /\ Unsearched /\ Unsearched' /\ UNCHANGED <<disk, live>>
        /\ phase' \notin {"read_header", "fat16_get_root_directory", "out"}
    BY <1>1 DEF StartTerminal, fs_init, Call, kernel_main, Unsearched
  <2>2. QED
    BY <2>1 DEF MountInv, MountedOrClean, Resolving
<1>2. CASE disk_search_and_init
  <2>1. /\ Unsearched /\ disk' = NoDisk /\ live' = live
        /\ phase' \in {"fat16_init_private", "isr80h_register_commands"}
    BY <1>2 DEF disk_search_and_init, fs_resolve, Resolve, kernel_main, Unsearched
  <2>2. QED
    BY <2>1 DEF MountInv, MountedOrClean
<1>3. CASE fat16_init_private
  <2>1. /\ phase = "fat16_init_private" /\ phase' = "read_header" /\ volume' = volume
        /\ disk' = [disk EXCEPT !.fs_private = "fat_private"]
        /\ live' = live \cup
             ({"fat_private"} \cup (IF volume.fault = "diskSteamerNew" THEN {} ELSE Streams))
    BY <1>3 DEF fat16_init_private, Resolve, Allocate
  <2>2. disk = NoDisk /\ live = {}
    BY <2>1 DEF MountInv, Unsearched
  <2>3. /\ disk'.filesystem = NULL /\ disk'.fs_private = "fat_private"
        /\ disk' \in [filesystem : {NULL, "fat16"}, fs_private : {NULL, "fat_private"}, total : Int]
    BY <2>1, <2>2 DEF NoDisk
  <2>4. "fat_private" \in live' /\ "stream" \notin live'
    BY <2>1, <2>2 DEF Streams
  <2>5. volume'.fault # "diskSteamerNew" => Streams \subseteq live'
    BY <2>1
  <2>6. QED
    BY <2>1, <2>3, <2>4, <2>5 DEF MountInv, MountedOrClean, Entered, Unsearched, Resolving, Streams
<1>4. CASE NoStream \/ HeaderRefused \/ HeaderKnown \/ RootDirectoryFails
  <2>1. /\ phase \in {"read_header", "fat16_get_root_directory"}
        /\ phase' \in {"fat16_get_root_directory", "out"}
        /\ UNCHANGED disk /\ live \subseteq live'
        /\ phase' = "fat16_get_root_directory" =>
             phase = "read_header" /\ volume.fault # "diskSteamerNew"
    BY <1>4 DEF NoStream, HeaderRefused, HeaderKnown, RootDirectoryFails, Resolve, Allocate
  <2>2. Entered /\ Entered'
    BY <2>1 DEF MountInv, Entered
  <2>3. phase' = "fat16_get_root_directory" => Streams \subseteq live'
    BY <2>1 DEF MountInv
  <2>4. QED
    BY <2>1, <2>2, <2>3 DEF MountInv, MountedOrClean, Entered, Unsearched, Resolving, Streams
<1>5. CASE RootDirectoryRead
  <2>1. /\ phase = "fat16_get_root_directory" /\ phase' = "isr80h_register_commands"
        /\ live' = (live \cup {"root_directory"}) \ {"stream"}
        /\ disk' = [disk EXCEPT !.filesystem = "fat16", !.total = TotalItems]
    BY <1>5 DEF RootDirectoryRead, Resolve, kernel_main
  <2>2. Entered /\ Streams \subseteq live /\ TotalItems \in Int
    BY <2>1 DEF MountInv, TotalItems
  <2>3. /\ disk'.filesystem = "fat16" /\ disk'.fs_private = "fat_private"
        /\ disk' \in [filesystem : {NULL, "fat16"}, fs_private : {NULL, "fat_private"}, total : Int]
    BY <2>1, <2>2 DEF MountInv, Entered
  <2>4. Mounted \subseteq live' /\ "stream" \notin live'
    BY <2>1, <2>2 DEF Entered, Mounted, Streams
  <2>5. "fat_private" \in live'
    BY <2>4 DEF Mounted
  <2>6. QED
    BY <2>1, <2>3, <2>4, <2>5 DEF MountInv, MountedOrClean, Unsearched, Mounted, Streams
<1>6. CASE out
  <2>1. /\ phase = "out" /\ phase' = "isr80h_register_commands"
        /\ live' = live \ {"fat_private", "stream"}
        /\ disk' = [disk EXCEPT !.fs_private = NULL]
    BY <1>6 DEF out, Resolve, kernel_main
  <2>2. Entered
    BY <2>1 DEF MountInv
  <2>3. /\ disk'.filesystem = NULL /\ disk'.fs_private = NULL
        /\ disk' \in [filesystem : {NULL, "fat16"}, fs_private : {NULL, "fat_private"}, total : Int]
    BY <2>1, <2>2 DEF MountInv, Entered
  <2>4. QED
    BY <2>1, <2>3 DEF MountInv, MountedOrClean, Unsearched
<1>7. QED
  BY <1>1, <1>2, <1>3, <1>4, <1>5, <1>6 DEF Searching, fat16_resolve

(* By whichever exit fat16_resolve returns, and whatever runs after it,    *)
(* the disk has private data exactly when it has a file system, and all    *)
(* that data points to is allocated; in between it never points to freed   *)
(* memory, and the stream of the header is closed.                         *)
THEOREM DiskIsMountedOrClean == SystemSpec => []MountedOrClean
<1>1. SystemInit => MountInv
  BY NoDiskFields DEF SystemInit, BootInit, MountInv, MountedOrClean
<1>2. MountInv /\ [SystemNext]_systemVars => MountInv'
  <2> SUFFICES ASSUME MountInv, [SystemNext]_systemVars PROVE MountInv'
    OBVIOUS
  <2>1. CASE Searching
    BY <2>1, SearchStep
  <2>2. CASE UNCHANGED <<phase, volume, disk, live>>
    BY <2>2 DEF MountInv, MountedOrClean, Unsearched, Entered
  <2>3. CASE /\ UNCHANGED <<volume, disk, live>>
             /\ ~ Unsearched /\ ~ Unsearched' /\ phase \notin Resolving /\ phase' \notin Resolving
    BY <2>3 DEF MountInv, MountedOrClean, Resolving
  <2>4. CASE UNCHANGED systemVars
    BY <2>2, <2>4 DEF systemVars, bootVars
  <2>5. QED
    BY <2>1, <2>2, <2>3, <2>4, OnlyBootMounts
<1>3. MountInv => MountedOrClean
  BY DEF MountInv
<1>4. QED
  BY <1>1, <1>2, <1>3, PTL DEF SystemSpec

-----------------------------------------------------------------------------
(* The running system.  The lemmas on the ring buffer are those of         *)
(* KeyboardProofs, for a user who types at most a bufferful ahead.         *)
KP == INSTANCE KeyboardProofs WITH
  MaxUnread <- BUFFER_SIZE, MinErase <- 1, popped <- temp_res

Keys == Keyboard!Keys

RegisterSet ==
  [ip : 0 .. 12, eax : Keys \cup {0, SYSTEM_COMMAND2_GETKEY, SYSTEM_COMMAND3_PUTCHAR},
   zf : BOOLEAN, esp : 0 .. STACK_START]

(* Types of the program's memory and of what an entry saves.               *)
TrapTypes ==
  /\ cpu \in RegisterSet /\ frame \in RegisterSet
  /\ user_stack \in [0 .. STACK_START -> Keys \cup {0, 2}] /\ user_stack[STACK_START] = 0
  /\ saved_esp \in 0 .. STACK_START
  /\ vector \in {0, TIMER, KEYBOARD, SYSTEM_CALL} /\ in_service \in BOOLEAN

Starting == phase \in DOMAIN kernel_main \cup Resolving

(* Before the program runs nothing has entered the kernel and no key has   *)
(* been pushed; once the commands are entered in their table they stay.    *)
BootInv ==
  /\ Starting \/ Started \/ phase = "panic"
  /\ DOMAIN isr80h_commands = 0 .. MAX_COMMANDS - 1
  /\ phase \in {"keyboard_init", "process_load_switch", "task_run_first_ever_task"} \/ Started
       => /\ isr80h_commands[SYSTEM_COMMAND2_GETKEY] = "getkey"
          /\ isr80h_commands[SYSTEM_COMMAND3_PUTCHAR] = "putchar"
  /\ ~ Started => cpu = NoFrame /\ frame = NoFrame /\ head = 0 /\ tail = 0

(* What holds of the registers at each instruction: the stack pointer, the *)
(* word it points to, and what eax and the zero flag are about to be used  *)
(* for.                                                                    *)
Runs(r) ==
  /\ r.ip \in 1 .. 12
  /\ r.esp = IF r.ip \in {1, 2, 6} THEN 2 ELSE 1
  /\ r.ip \in 7 .. 12 => user_stack[1] = 2
  /\ r.ip \in {3, 4} => user_stack[1] \in Keys
  /\ r.ip \in {2, 11, 12} => r.eax \in Keys
  /\ r.ip \in {9, 10} => r.eax \in Keys \cup {0}
  /\ r.ip = 10 => (r.zf <=> r.eax = 0)
  /\ r.ip = 4 => r.eax = SYSTEM_COMMAND3_PUTCHAR
  /\ r.ip = 8 => r.eax = SYSTEM_COMMAND2_GETKEY

InSystemCall == phase \in {"handler", "return"} /\ vector = SYSTEM_CALL

(* A system call of the program: its number, where it returns to, and the  *)
(* argument of putchar until it is written.                                *)
Calls(r) ==
  /\ r.esp = 1
  /\ \/ r.eax = SYSTEM_COMMAND2_GETKEY /\ r.ip = 9 /\ user_stack[1] = 2
     \/ r.eax = SYSTEM_COMMAND3_PUTCHAR /\ r.ip = 5 /\ (phase = "handler" => user_stack[1] \in Keys)

ProgramInv == Started => IF InSystemCall THEN Calls(frame) ELSE Runs(Registers)

(* There is a cell for every key on its way to the screen.                 *)
Room == phase # "panic" => Cursor(terminal) + Len(Pending) + Len(port) <= CELLS

ScreenInv ==
  /\ TerminalTypeOK
  /\ phase # "terminal_initialize" => BlankAhead
  /\ Starting => Cursor(terminal) = 0
  /\ Room

(* The inductive invariant of the system.                                  *)
SystemInv == TrapTypes /\ BootInv /\ ProgramInv /\ ScreenInv /\ KP!KInv

(* The assumptions of the keyboard's module, as its lemmas need them.      *)
LEMMA KeyboardFacts ==
  /\ BUFFER_SIZE \in Nat \ {0}
  /\ INT_MOD \in Nat /\ BUFFER_SIZE < INT_MOD
  /\ INT_MOD % BUFFER_SIZE = 0
  /\ TABLE_SIZE \in Nat \ {0} /\ TABLE_SIZE < KEY_RELEASED
  /\ KP!Chars \subseteq Nat /\ PastTable # {}
  /\ Scancodes \subseteq Nat
  /\ KEY_RELEASED \in Nat /\ PORT_BOUND \in Nat \ {0}
  /\ 1 \in Nat \ {0}
  /\ KP!FitsBuffer
<1>1. KP!Chars \subseteq Nat
  <2>1. KP!Chars = Keyboard!Chars
    BY DEF Keyboard!Chars, KP!Chars
  <2>2. Keyboard!Chars \subseteq 0 .. 255
    BY SystemAssumption
  <2>3. QED
    BY <2>1, <2>2
<1>2. KP!FitsBuffer
  BY SystemAssumption DEF KP!FitsBuffer
<1>3. QED
  BY <1>1, <1>2, SystemAssumption

(* The keys fit a char, and are drawn or erase.                            *)
LEMMA KeyFacts ==
  /\ KP!Keys = Keys /\ Unread = KP!Contents
  /\ Keys \subseteq 0 .. 255 /\ 0 \notin Keys /\ Keys \subseteq Glyphs \cup {BACKSPACE}
<1>1. KP!Keys = Keys
  BY DEF Keys, KP!Keys, Keyboard!Keys, KP!Chars, Keyboard!Chars
<1>2. Unread = KP!Contents
  BY DEF Unread, KP!Contents, KP!Unread
<1>3. QED
  BY <1>1, <1>2, SystemAssumption DEF Keys, Keyboard!Keys

(* The unread keys are keys.                                               *)
LEMMA UnreadIsSeq ==
  ASSUME KP!KInv
  PROVE  Unread \in Seq(Keys) /\ Len(Unread) = KP!Unread
<1>1. /\ KP!Contents \in Seq(Keys \cup {0}) /\ Len(KP!Contents) = KP!Unread
      /\ \A k \in 1 .. KP!Unread : KP!Contents[k] = buffer[KP!At(k - 1)]
  BY KeyboardFacts, KeyFacts, KP!ContentsSeq
<1>2. /\ KP!Unread \in Nat /\ KP!Unread <= BUFFER_SIZE
  BY KeyboardFacts, KP!TailPlace
<1>3. ASSUME NEW k \in 1 .. KP!Unread
      PROVE  KP!Contents[k] \in Keys
  <2>1. k - 1 \in KP!Slots /\ k - 1 < KP!Unread
    BY <1>2, KeyboardFacts DEF KP!Slots
  <2>2. buffer[KP!At(k - 1)] # 0
    BY <2>1, KeyboardFacts, KP!Filled
  <2>3. KP!Contents[k] \in Keys \cup {0}
    BY <1>1, <1>2
  <2>4. QED
    BY <1>1, <2>2, <2>3
<1>4. KP!Contents \in Seq(Keys)
  BY <1>1, <1>2, <1>3
<1>5. QED
  BY <1>1, <1>4, KeyFacts

(* The steps of the ring buffer within the system.                         *)
LEMMA BufferRests ==
  ASSUME KP!KInv, UNCHANGED <<buffer, head, tail>>,
         port' \in Seq(Scancodes), Len(port') <= PORT_BOUND, temp_res' \in Keys \cup {0}
  PROVE  KP!KInv' /\ Unread' = Unread
<1>1. KP!KInv'
  BY KeyboardFacts, KeyFacts, KP!OtherInv
<1>2. QED
  BY <1>1 DEF Unread

(* What is at the port, and what the handler leaves there.                 *)
LEMMA PortFacts ==
  ASSUME KP!KInv
  PROVE  /\ port \in Seq(Scancodes) /\ Len(port) <= PORT_BOUND /\ Len(port) \in Nat
         /\ temp_res \in Keys \cup {0}
         /\ Keyboard!AfterHandler \in Seq(Scancodes)
         /\ Len(Keyboard!AfterHandler) \in Nat /\ Len(Keyboard!AfterHandler) <= Len(port)
         /\ port # << >> => Len(Keyboard!AfterHandler) < Len(port)
<1>1. port \in Seq(Scancodes) /\ Len(port) <= PORT_BOUND /\ temp_res \in Keys \cup {0}
  BY KeyFacts DEF KP!KInv, KP!TypeOK
<1>2. QED
  BY <1>1 DEF Keyboard!AfterHandler

(* A pushed key is the last unread one.                                    *)
LEMMA PushStep ==
  ASSUME KP!KInv, NEW c \in Keys, Keyboard!InterruptPushes(c)
  PROVE  /\ KP!KInv' /\ Unread' = Append(Unread, c)
         /\ Len(port') \in Nat /\ Len(port') + 1 <= Len(port) /\ temp_res' = temp_res
<1>1. KP!InterruptPushes(c)
  BY DEF Keyboard!InterruptPushes, KP!InterruptPushes, Keyboard!CharOf, KP!CharOf,
         Keyboard!classic_keyboard_scancode_to_char, KP!classic_keyboard_scancode_to_char,
         Keyboard!Unread, KP!Unread, Keyboard!keyboard_push, KP!keyboard_push,
         Keyboard!keyboard_get_tail_index, KP!keyboard_get_tail_index,
         Keyboard!AfterHandler, KP!AfterHandler
<1>2. KP!KInv'
  BY <1>1, KeyboardFacts, KeyFacts, KP!PushInv
<1>3. KP!Contents' = Append(KP!Contents, c)
  BY <1>1, KeyboardFacts, KeyFacts, KP!PushAppends
<1>4. Unread' = KP!Contents'
  BY DEF Unread, KP!Contents, KP!Unread
<1>5. port # << >> /\ port' = Keyboard!AfterHandler /\ temp_res' = temp_res
  BY DEF Keyboard!InterruptPushes
<1>6. QED
  BY <1>2, <1>3, <1>4, <1>5, KeyFacts, PortFacts

(* A code without a key leaves the unread keys alone.                      *)
LEMMA IgnoreStep ==
  ASSUME KP!KInv, Keyboard!InterruptIgnored
  PROVE  /\ KP!KInv' /\ Unread' = Unread
         /\ Len(port') \in Nat /\ Len(port') <= Len(port) /\ temp_res' = temp_res
<1>1. port' = Keyboard!AfterHandler /\ UNCHANGED <<buffer, head, tail, temp_res>>
  BY DEF Keyboard!InterruptIgnored
<1>2. /\ port' \in Seq(Scancodes) /\ Len(port') <= PORT_BOUND /\ temp_res' \in Keys \cup {0}
      /\ Len(port') \in Nat /\ Len(port') <= Len(port)
  BY <1>1, PortFacts, KeyboardFacts
<1>3. QED
  BY <1>1, <1>2, BufferRests

(* The oldest unread key is popped.                                        *)
LEMMA PopStep ==
  ASSUME KP!KInv, Keyboard!keyboard_pop
  PROVE  /\ KP!KInv' /\ port' = port
         /\ temp_res' \in Keys /\ Unread # << >>
         /\ temp_res' = Head(Unread) /\ Unread' = Tail(Unread)
<1>1. KP!keyboard_pop
  BY DEF Keyboard!keyboard_pop, KP!keyboard_pop
<1>2. KP!KInv'
  BY <1>1, KeyboardFacts, KP!PopInv
<1>3. /\ KP!Contents # << >> /\ temp_res' = Head(KP!Contents)
      /\ KP!Contents' = Tail(KP!Contents)
  BY <1>1, KeyboardFacts, KP!PopReads
<1>4. Unread' = KP!Contents'
  BY DEF Unread, KP!Contents, KP!Unread
<1>5. Unread \in Seq(Keys)
  BY UnreadIsSeq
<1>6. port' = port
  BY DEF Keyboard!keyboard_pop
<1>7. QED
  BY <1>2, <1>3, <1>4, <1>5, <1>6, KeyFacts

(* With no unread key nothing is popped.                                   *)
LEMMA NothingStep ==
  ASSUME KP!KInv, Keyboard!keyboard_pop_nothing
  PROVE  KP!KInv' /\ port' = port /\ temp_res' = 0 /\ Unread' = Unread
<1>1. port' = port /\ temp_res' = 0 /\ UNCHANGED <<buffer, head, tail>>
  BY DEF Keyboard!keyboard_pop_nothing
<1>2. QED
  BY <1>1, PortFacts, BufferRests

-----------------------------------------------------------------------------
(* Where the boot sequence stands.                                         *)
LEMMA Phases ==
  /\ DOMAIN kernel_main =
       {"terminal_initialize", "fs_init", "disk_search_and_init", "isr80h_register_commands",
        "keyboard_init", "process_load_switch", "task_run_first_ever_task"}
  /\ Resolving = {"fat16_init_private", "read_header", "fat16_get_root_directory", "out"}
  /\ kernel_main["terminal_initialize"] = "fs_init"
  /\ kernel_main["fs_init"] = "disk_search_and_init"
  /\ kernel_main["disk_search_and_init"] = "isr80h_register_commands"
  /\ kernel_main["isr80h_register_commands"] = "keyboard_init"
  /\ kernel_main["keyboard_init"] = "process_load_switch"
  /\ kernel_main["process_load_switch"] = "task_run_first_ever_task"
  /\ kernel_main["task_run_first_ever_task"] = "user"
BY DEF kernel_main, Resolving

LEMMA NoFrameType ==
  /\ NoFrame \in RegisterSet
  /\ NoFrame.ip = 0 /\ NoFrame.eax = 0 /\ NoFrame.esp = 2 /\ NoFrame.zf = FALSE
BY DEF NoFrame, RegisterSet, STACK_START

(* Before the program runs nothing is pending.                             *)
LEMMA NothingPending ==
  ASSUME frame = NoFrame, ~ Started, head = 0, tail = 0
  PROVE  Pending = << >>
<1>1. Carried = << >>
  BY NoFrameType DEF Started, Carried, Registers
<1>2. (0 - 0) % INT_MOD = 0
  BY SystemAssumption
<1>3. Unread = << >>
  BY <1>2 DEF Unread
<1>4. QED
  BY <1>1, <1>3 DEF Pending

(* The keys on their way are keys, and the program carries at most one.    *)
LEMMA CarriedIsSeq ==
  ASSUME TrapTypes, BootInv, ProgramInv, KP!KInv
  PROVE  /\ Carried \in Seq(Keys) /\ Len(Carried) \in {0, 1}
         /\ Unread \in Seq(Keys) /\ Pending \in Seq(Keys)
         /\ Len(Pending) = Len(Carried) + Len(Unread)
         /\ Len(Unread) \in Nat
<1>1. Unread \in Seq(Keys)
  BY UnreadIsSeq
<1>2. \A c \in Keys \cup {0} : NonZero(c) \in Seq(Keys) /\ Len(NonZero(c)) \in {0, 1}
  BY DEF NonZero
<1>3. temp_res \in Keys \cup {0}
  BY PortFacts
<1>4. Carried \in Seq(Keys) /\ Len(Carried) \in {0, 1}
  <2>1. CASE ~ Started
    BY <2>1, NoFrameType DEF BootInv, Started, Carried, Registers
  <2>2. CASE Started /\ InSystemCall
    <3>1. phase = "handler" \/ phase = "return"
      BY <2>2 DEF InSystemCall
    <3>2. vector = SYSTEM_CALL /\ Calls(frame)
      BY <2>2 DEF ProgramInv, InSystemCall
    <3>3. CASE phase = "handler"
      BY <3>2, <3>3 DEF Carried, Calls, SYSTEM_COMMAND2_GETKEY, SYSTEM_COMMAND3_PUTCHAR
    <3>4. CASE phase = "return"
      BY <1>2, <1>3, <3>2, <3>4
         DEF Carried, Calls, SYSTEM_COMMAND2_GETKEY, SYSTEM_COMMAND3_PUTCHAR
    <3>5. QED
      BY <3>1, <3>3, <3>4
  <2>3. CASE Started /\ ~ InSystemCall
    <3>1. Runs(Registers)
      BY <2>3 DEF ProgramInv
    <3>2. Carried = IF Registers.ip \in {2, 9, 10, 11, 12} THEN NonZero(Registers.eax)
                    ELSE IF Registers.ip \in {3, 4} THEN <<user_stack[Registers.esp]>>
                    ELSE << >>
      BY <2>3 DEF Carried, InSystemCall
    <3>3. CASE Registers.ip \in {2, 9, 10, 11, 12}
      BY <1>2, <3>1, <3>2, <3>3 DEF Runs
    <3>4. CASE Registers.ip \in {3, 4}
      BY <3>1, <3>2, <3>4 DEF Runs
    <3>5. CASE ~ (Registers.ip \in {2, 9, 10, 11, 12}) /\ ~ (Registers.ip \in {3, 4})
      BY <3>2, <3>5
    <3>6. QED
      BY <3>3, <3>4, <3>5
  <2>4. QED
    BY <2>1, <2>2, <2>3
<1>5. QED
  BY <1>1, <1>4 DEF Pending

(* The system starts in the invariant.                                     *)
LEMMA SystemInitInv ==
  ASSUME SystemInit
  PROVE  SystemInv /\ Echoing!Init
<1>1. TrapTypes
  <2>1. in_service \in BOOLEAN
    BY Zenon DEF SystemInit
  <2>2. /\ cpu = NoFrame /\ frame = NoFrame /\ vector = 0 /\ saved_esp = 2
        /\ user_stack = [w \in 0 .. 2 |-> 0]
    BY Zenon DEF SystemInit, STACK_START
  <2>3. QED
    BY <2>1, <2>2, NoFrameType DEF TrapTypes, STACK_START
<1>2. BootInv /\ ~ Started /\ Starting
  BY Phases DEF SystemInit, BootInit, BootInv, Starting, Started
<1>3. ProgramInv
  BY <1>2 DEF ProgramInv
<1>4. KP!KInv
  <2>1. KP!Init
    BY DEF SystemInit, KP!Init, KP!Slots
  <2>2. QED
    BY <2>1, KeyboardFacts, KP!InitKInv
<1>5. Pending = << >> /\ port = << >>
  BY <1>2, NothingPending DEF SystemInit
<1>6. TerminalTypeOK /\ Cursor(terminal) = 0 /\ Text = << >>
  <2> DEFINE m == [k \in Cells |-> BEHIND]
  <2>1. m \in [Cells -> Glyphs] /\ 0 \in 0 .. VGA_WIDTH - 1 /\ 0 * VGA_WIDTH + 0 = 0
        /\ CELLS \in Nat
    BY TerminalAssumption
  <2>2. terminal = [video_mem |-> m, terminal_row |-> 0, terminal_col |-> 0]
    BY DEF SystemInit, BootInit
  <2> HIDE DEF m
  <2>3. terminal \in Terminals /\ Cursor(terminal) = 0
    BY <2>1, <2>2, MakeTerminal
  <2>4. Text = << >>
    BY <2>3 DEF Text
  <2>5. QED
    BY <2>1, <2>3, <2>4 DEF TerminalTypeOK, Terminals
<1>7. ScreenInv
  <2>1. Len(Pending) = 0 /\ Len(port) = 0 /\ CELLS \in Nat
    BY <1>5, TerminalAssumption
  <2>2. phase = "terminal_initialize"
    BY DEF SystemInit, BootInit
  <2>3. QED
    BY <1>6, <2>1, <2>2 DEF ScreenInv, Room
<1>8. Echoing!Init
  BY <1>2, <1>5, <1>6 DEF Echoing!Init, Status, BootInv, SystemInit, BootInit
<1>9. QED
  BY <1>1, <1>2, <1>3, <1>4, <1>7, <1>8 DEF SystemInv

-----------------------------------------------------------------------------
(* A step that moves nothing between the keyboard and the screen.          *)
LEMMA QuietStep ==
  ASSUME SystemInv, Started, Started', UNCHANGED <<terminal, port, buffer, head, tail>>,
         temp_res' \in Keys \cup {0}, Carried' = Carried
  PROVE  /\ ScreenInv' /\ KP!KInv'
         /\ UNCHANGED <<Status, Pending, Text>>
<1>1. KP!KInv' /\ Unread' = Unread
  BY PortFacts, BufferRests DEF SystemInv
<1>2. Pending' = Pending
  BY <1>1 DEF Pending
<1>3. Text' = Text /\ Cursor(terminal)' = Cursor(terminal)
      /\ TerminalTypeOK' = TerminalTypeOK /\ BlankAhead' = BlankAhead
  BY DEF Text, Cursor, TerminalTypeOK, BlankAhead
<1>4. Status' = Status /\ phase # "panic" /\ phase # "terminal_initialize" /\ ~ Starting'
  BY Phases DEF Status, Started, Starting
<1>5. ScreenInv'
  BY <1>2, <1>3, <1>4 DEF SystemInv, ScreenInv, Room
<1>6. QED
  BY <1>1, <1>2, <1>3, <1>4, <1>5

(* What holds while the program runs.                                      *)
LEMMA UserFacts ==
  ASSUME SystemInv, phase = "user"
  PROVE  /\ Started /\ Runs(cpu) /\ cpu \in RegisterSet
         /\ user_stack \in [0 .. STACK_START -> Keys \cup {0, 2}]
         /\ user_stack[STACK_START] = 0
         /\ Carried = IF cpu.ip \in {2, 9, 10, 11, 12} THEN NonZero(cpu.eax)
                      ELSE IF cpu.ip \in {3, 4} THEN <<user_stack[cpu.esp]>>
                      ELSE << >>
BY DEF SystemInv, Started, ProgramInv, InSystemCall, Registers, TrapTypes, Carried

(* An instruction that stays in the program.                               *)
LEMMA UserStep ==
  ASSUME SystemInv, phase = "user",
         UNCHANGED <<terminal, bootVars, keyVars, trapVars>>,
         cpu' \in RegisterSet,
         user_stack' \in [0 .. STACK_START -> Keys \cup {0, 2}],
         user_stack'[STACK_START] = 0,
         Runs(cpu)', Carried' = Carried
  PROVE  SystemInv' /\ UNCHANGED <<Status, Pending, Text>>
<1>1. phase' = "user" /\ Started /\ Started' /\ UNCHANGED isr80h_commands
  BY DEF Started, bootVars
<1>2. /\ UNCHANGED <<terminal, port, buffer, head, tail>>
      /\ UNCHANGED <<frame, vector, saved_esp, temp_res, in_service>>
  BY DEF keyVars, trapVars
<1>3. temp_res' \in Keys \cup {0}
  BY <1>2, PortFacts DEF SystemInv
<1>4. ScreenInv' /\ KP!KInv' /\ UNCHANGED <<Status, Pending, Text>>
  BY <1>1, <1>2, <1>3, QuietStep
<1>5. TrapTypes'
  BY <1>2 DEF SystemInv, TrapTypes
<1>6. BootInv'
  BY <1>1 DEF SystemInv, BootInv, Started
<1>7. ProgramInv'
  BY <1>1 DEF ProgramInv, InSystemCall, Registers
<1>8. QED
  BY <1>4, <1>5, <1>6, <1>7 DEF SystemInv

(* The registers after one of them is set, and after two are.              *)
Answers == Keys \cup {0, SYSTEM_COMMAND2_GETKEY, SYSTEM_COMMAND3_PUTCHAR}

(* One register changes at a time.                                         *)
LEMMA SetIp ==
  ASSUME NEW r \in RegisterSet, NEW p \in 0 .. 12, NEW q, q = [r EXCEPT !.ip = p]
  PROVE  q \in RegisterSet /\ q.ip = p /\ q.esp = r.esp /\ q.eax = r.eax /\ q.zf = r.zf
BY DEF RegisterSet

LEMMA SetEax ==
  ASSUME NEW r \in RegisterSet, NEW a \in Answers, NEW q, q = [r EXCEPT !.eax = a]
  PROVE  q \in RegisterSet /\ q.ip = r.ip /\ q.esp = r.esp /\ q.eax = a /\ q.zf = r.zf
BY DEF RegisterSet, Answers

LEMMA SetZf ==
  ASSUME NEW r \in RegisterSet, NEW b \in BOOLEAN, NEW q, q = [r EXCEPT !.zf = b]
  PROVE  q \in RegisterSet /\ q.ip = r.ip /\ q.esp = r.esp /\ q.eax = r.eax /\ q.zf = b
BY DEF RegisterSet

LEMMA SetEsp ==
  ASSUME NEW r \in RegisterSet, NEW e \in 0 .. STACK_START, NEW q, q = [r EXCEPT !.esp = e]
  PROVE  q \in RegisterSet /\ q.ip = r.ip /\ q.esp = e /\ q.eax = r.eax /\ q.zf = r.zf
BY DEF RegisterSet

LEMMA GotoFields ==
  ASSUME cpu \in RegisterSet, NEW p \in 0 .. 12
  PROVE  /\ Goto(p) \in RegisterSet /\ Goto(p).ip = p
         /\ Goto(p).esp = cpu.esp /\ Goto(p).eax = cpu.eax /\ Goto(p).zf = cpu.zf
BY SetIp DEF Goto

(* Every instruction of the program but int leaves what it carries as it   *)
(* is.                                                                     *)
LEMMA ComputesStep ==
  ASSUME SystemInv, phase = "user", Computes(cpu'),
         cpu' \in RegisterSet, Runs(cpu)', Carried' = Carried
  PROVE  SystemInv' /\ UNCHANGED <<Status, Pending, Text>>
<1>1. UNCHANGED <<terminal, bootVars, keyVars, user_stack, trapVars>>
  BY DEF Computes
<1>2. QED
  BY <1>1, UserStep, UserFacts

(* The key carried after an instruction.                                   *)
LEMMA NextCarried ==
  ASSUME phase' = "user"
  PROVE  Carried' = IF cpu'.ip \in {2, 9, 10, 11, 12} THEN NonZero(cpu'.eax)
                    ELSE IF cpu'.ip \in {3, 4} THEN <<user_stack'[cpu'.esp]>>
                    ELSE << >>
BY DEF Carried, Registers, NonZero

LEMMA PushesStep ==
  ASSUME SystemInv, phase = "user", NEW w \in Keys \cup {2}, NEW p \in 0 .. 12,
         cpu.esp = 2, Pushes(w, p)
  PROVE  /\ cpu' \in RegisterSet /\ cpu'.ip = p /\ cpu'.esp = 1 /\ cpu'.eax = cpu.eax
         /\ user_stack' \in [0 .. STACK_START -> Keys \cup {0, 2}]
         /\ user_stack'[STACK_START] = 0 /\ user_stack'[1] = w
         /\ UNCHANGED <<terminal, bootVars, keyVars, trapVars>> /\ phase' = "user"
<1>1. /\ cpu \in RegisterSet
      /\ user_stack \in [0 .. 2 -> Keys \cup {0, 2}] /\ user_stack[2] = 0
  BY UserFacts DEF STACK_START
<1>2. /\ user_stack' = [user_stack EXCEPT ![1] = w]
      /\ cpu' = [cpu EXCEPT !.esp = 1, !.ip = p]
      /\ UNCHANGED <<terminal, bootVars, keyVars, trapVars>>
  BY DEF Pushes
<1>3. cpu' \in RegisterSet /\ cpu'.ip = p /\ cpu'.esp = 1 /\ cpu'.eax = cpu.eax
  <2>1. PICK g : g = [cpu EXCEPT !.esp = 1]
    OBVIOUS
  <2>2. g \in RegisterSet /\ g.ip = cpu.ip /\ g.esp = 1 /\ g.eax = cpu.eax
    BY <1>1, <2>1, SetEsp DEF STACK_START
  <2>3. cpu' = [[cpu EXCEPT !.esp = 1] EXCEPT !.ip = p]
    BY <1>2
  <2>4. cpu' = [g EXCEPT !.ip = p]
    BY <2>1, <2>3
  <2>5. QED
    BY <2>2, <2>4, SetIp
<1>4. phase' = "user"
  BY <1>2 DEF bootVars
<1>5. QED
  BY <1>1, <1>2, <1>3, <1>4 DEF STACK_START

(* An instruction moves the key along, and shows or loses nothing.         *)
LEMMA InstructionStep ==
  ASSUME SystemInv, Instruction, phase' = "user"
  PROVE  SystemInv' /\ UNCHANGED <<Status, Pending, Text>>
<1>0. phase = "user"
  BY DEF Instruction, call_getkey, push_eax, mov_eax_3, int_putchar, add_esp_4, jmp_loop,
         mov_eax_2, int_getkey, cmp_eax_0, je_getkey, mov_message_al, ret, At
<1>1. /\ Runs(cpu) /\ cpu \in RegisterSet
      /\ user_stack \in [0 .. 2 -> Keys \cup {0, 2}] /\ user_stack[2] = 0
      /\ Carried = IF cpu.ip \in {2, 9, 10, 11, 12} THEN NonZero(cpu.eax)
                   ELSE IF cpu.ip \in {3, 4} THEN <<user_stack[cpu.esp]>>
                   ELSE << >>
  BY <1>0, UserFacts DEF STACK_START
<1>2. Carried' = IF cpu'.ip \in {2, 9, 10, 11, 12} THEN NonZero(cpu'.eax)
                 ELSE IF cpu'.ip \in {3, 4} THEN <<user_stack'[cpu'.esp]>>
                 ELSE << >>
  BY NextCarried
<1>3. 0 \notin Keys
  BY KeyFacts
<1>18. /\ 1 \in 0 .. 12 /\ 2 \in 0 .. 12 /\ 4 \in 0 .. 12 /\ 6 \in 0 .. 12 /\ 7 \in 0 .. 12
       /\ 8 \in 0 .. 12 /\ 10 \in 0 .. 12 /\ 11 \in 0 .. 12 /\ 12 \in 0 .. 12
       /\ 2 \in 0 .. STACK_START
       /\ SYSTEM_COMMAND2_GETKEY \in Answers /\ SYSTEM_COMMAND3_PUTCHAR \in Answers
  BY DEF STACK_START, Answers
<1>4. CASE call_getkey
  <2>1. cpu.ip = 1 /\ cpu.esp = 2 /\ Pushes(2, 7)
    BY <1>1, <1>4 DEF call_getkey, At, Runs, GETKEY
  <2>2. /\ cpu' \in RegisterSet /\ cpu'.ip = 7 /\ cpu'.esp = 1 /\ cpu'.eax = cpu.eax
        /\ user_stack' \in [0 .. STACK_START -> Keys \cup {0, 2}]
        /\ user_stack'[STACK_START] = 0 /\ user_stack'[1] = 2
        /\ UNCHANGED <<terminal, bootVars, keyVars, trapVars>>
    BY <1>0, <2>1, PushesStep
  <2>3. Runs(cpu)' /\ Carried' = Carried
    BY <1>1, <1>2, <2>1, <2>2 DEF Runs
  <2>4. QED
    BY <1>0, <2>2, <2>3, UserStep
<1>5. CASE push_eax
  <2>1. cpu.ip = 2 /\ cpu.esp = 2 /\ cpu.eax \in Keys /\ Pushes(cpu.eax, 3)
    BY <1>1, <1>5 DEF push_eax, At, Runs
  <2>2. /\ cpu' \in RegisterSet /\ cpu'.ip = 3 /\ cpu'.esp = 1 /\ cpu'.eax = cpu.eax
        /\ user_stack' \in [0 .. STACK_START -> Keys \cup {0, 2}]
        /\ user_stack'[STACK_START] = 0 /\ user_stack'[1] = cpu.eax
        /\ UNCHANGED <<terminal, bootVars, keyVars, trapVars>>
    BY <1>0, <2>1, PushesStep
  <2>3. Runs(cpu)' /\ Carried' = Carried
    BY <1>1, <1>2, <1>3, <2>1, <2>2 DEF Runs, NonZero
  <2>4. QED
    BY <1>0, <2>2, <2>3, UserStep
<1>6. ASSUME Computes(cpu'), cpu' \in RegisterSet, Runs(cpu)', Carried' = Carried
      PROVE  SystemInv' /\ UNCHANGED <<Status, Pending, Text>>
  BY <1>0, <1>6, ComputesStep
<1>7. ASSUME NEW registers, Computes(registers)
      PROVE  cpu' = registers /\ Computes(cpu') /\ user_stack' = user_stack
  BY <1>7 DEF Computes
<1>8. CASE mov_eax_3
  <2>1. /\ cpu.ip = 3 /\ Computes(cpu') /\ user_stack' = user_stack
        /\ cpu' = [Goto(4) EXCEPT !.eax = SYSTEM_COMMAND3_PUTCHAR]
    BY <1>7, <1>8 DEF mov_eax_3, At
  <2>2. /\ cpu' \in RegisterSet /\ cpu'.ip = 4 /\ cpu'.esp = cpu.esp
        /\ cpu'.eax = SYSTEM_COMMAND3_PUTCHAR
    BY <1>1, <1>18, <2>1, GotoFields, SetEax
  <2>3. Runs(cpu)' /\ Carried' = Carried
    BY <1>1, <1>2, <2>1, <2>2 DEF Runs
  <2>4. QED
    BY <1>6, <2>1, <2>2, <2>3
<1>9. CASE add_esp_4
  <2>1. /\ cpu.ip = 5 /\ Computes(cpu') /\ user_stack' = user_stack
        /\ cpu' = [Goto(6) EXCEPT !.esp = Goto(6).esp + 1]
    BY <1>7, <1>9 DEF add_esp_4, At
  <2>2. Goto(6) \in RegisterSet /\ Goto(6).ip = 6 /\ Goto(6).esp + 1 = 2
    BY <1>1, <1>18, <2>1, GotoFields DEF Runs
  <2>3. cpu' \in RegisterSet /\ cpu'.ip = 6 /\ cpu'.esp = 2
    BY <1>18, <2>1, <2>2, SetEsp
  <2>4. Runs(cpu)' /\ Carried' = Carried
    BY <1>1, <1>2, <2>1, <2>3 DEF Runs
  <2>5. QED
    BY <1>6, <2>1, <2>3, <2>4
<1>10. CASE jmp_loop
  <2>1. cpu.ip = 6 /\ Computes(cpu') /\ user_stack' = user_stack /\ cpu' = Goto(1)
    BY <1>7, <1>10 DEF jmp_loop, At, LOOP
  <2>2. cpu' \in RegisterSet /\ cpu'.ip = 1 /\ cpu'.esp = cpu.esp
    BY <1>1, <1>18, <2>1, GotoFields
  <2>3. Runs(cpu)' /\ Carried' = Carried
    BY <1>1, <1>2, <2>1, <2>2 DEF Runs
  <2>4. QED
    BY <1>6, <2>1, <2>2, <2>3
<1>11. CASE mov_eax_2
  <2>1. /\ cpu.ip = 7 /\ Computes(cpu') /\ user_stack' = user_stack
        /\ cpu' = [Goto(8) EXCEPT !.eax = SYSTEM_COMMAND2_GETKEY]
    BY <1>7, <1>11 DEF mov_eax_2, At
  <2>2. /\ cpu' \in RegisterSet /\ cpu'.ip = 8 /\ cpu'.esp = cpu.esp
        /\ cpu'.eax = SYSTEM_COMMAND2_GETKEY
    BY <1>1, <1>18, <2>1, GotoFields, SetEax
  <2>3. Runs(cpu)' /\ Carried' = Carried
    BY <1>1, <1>2, <2>1, <2>2 DEF Runs
  <2>4. QED
    BY <1>6, <2>1, <2>2, <2>3
<1>12. CASE cmp_eax_0
  <2>1. /\ cpu.ip = 9 /\ Computes(cpu') /\ user_stack' = user_stack
        /\ cpu' = [Goto(10) EXCEPT !.zf = (cpu.eax = 0)]
    BY <1>7, <1>12 DEF cmp_eax_0, At
  <2>2. PICK b \in BOOLEAN : b = (cpu.eax = 0)
    BY Zenon
  <2>3. cpu' = [Goto(10) EXCEPT !.zf = b]
    BY <2>1, <2>2, Zenon
  <2>4. /\ cpu' \in RegisterSet /\ cpu'.ip = 10 /\ cpu'.esp = cpu.esp
        /\ cpu'.eax = cpu.eax /\ cpu'.zf = b
    BY <1>1, <1>18, <2>3, GotoFields, SetZf
  <2>5. cpu'.zf <=> cpu'.eax = 0
    BY <2>2, <2>4, Zenon
  <2>6. Runs(cpu)' /\ Carried' = Carried
    BY <1>1, <1>2, <2>1, <2>4, <2>5 DEF Runs
  <2>7. QED
    BY <1>6, <2>1, <2>4, <2>6
<1>13. CASE je_getkey
  <2>1. /\ cpu.ip = 10 /\ Computes(cpu') /\ user_stack' = user_stack
        /\ cpu' = Goto(IF cpu.zf THEN 7 ELSE 11)
    BY <1>7, <1>13 DEF je_getkey, At, GETKEY
  <2>2. cpu.zf <=> cpu.eax = 0
    BY <1>1, <2>1 DEF Runs
  <2>3. /\ cpu' \in RegisterSet /\ cpu'.esp = cpu.esp /\ cpu'.eax = cpu.eax
        /\ \/ cpu.eax = 0 /\ cpu'.ip = 7
           \/ cpu.eax # 0 /\ cpu'.ip = 11
    <3>1. CASE cpu.zf
      <4>1. cpu' = Goto(7) /\ cpu.eax = 0
        BY <2>1, <2>2, <3>1, Zenon
      <4>2. QED
        BY <1>1, <1>18, <4>1, GotoFields
    <3>2. CASE ~ cpu.zf
      <4>1. cpu' = Goto(11) /\ cpu.eax # 0
        BY <2>1, <2>2, <3>2, Zenon
      <4>2. QED
        BY <1>1, <1>18, <4>1, GotoFields
    <3>3. QED
      BY <3>1, <3>2
  <2>4. Runs(cpu)' /\ Carried' = Carried
    BY <1>1, <1>2, <2>1, <2>3 DEF Runs, NonZero
  <2>5. QED
    BY <1>6, <2>1, <2>3, <2>4
<1>14. CASE mov_message_al
  <2>1. cpu.ip = 11 /\ Computes(cpu') /\ user_stack' = user_stack /\ cpu' = Goto(12)
    BY <1>7, <1>14 DEF mov_message_al, At
  <2>2. cpu' \in RegisterSet /\ cpu'.ip = 12 /\ cpu'.esp = cpu.esp /\ cpu'.eax = cpu.eax
    BY <1>1, <1>18, <2>1, GotoFields
  <2>3. Runs(cpu)' /\ Carried' = Carried
    BY <1>1, <1>2, <2>1, <2>2 DEF Runs
  <2>4. QED
    BY <1>6, <2>1, <2>2, <2>3
<1>15. CASE ret
  <2>1. cpu.ip = 12 /\ cpu.esp = 1 /\ user_stack[1] = 2
    BY <1>1, <1>15 DEF ret, At, Runs
  <2>2. /\ Computes(cpu') /\ user_stack' = user_stack
        /\ cpu' = [Goto(2) EXCEPT !.esp = Goto(2).esp + 1]
    BY <1>7, <1>15, <2>1 DEF ret
  <2>3. /\ Goto(2) \in RegisterSet /\ Goto(2).ip = 2 /\ Goto(2).esp + 1 = 2
        /\ Goto(2).eax = cpu.eax
    BY <1>1, <1>18, <2>1, GotoFields
  <2>4. cpu' \in RegisterSet /\ cpu'.ip = 2 /\ cpu'.esp = 2 /\ cpu'.eax = cpu.eax
    BY <1>18, <2>2, <2>3, SetEsp
  <2>5. Runs(cpu)' /\ Carried' = Carried
    BY <1>1, <1>2, <2>1, <2>2, <2>4 DEF Runs
  <2>6. QED
    BY <1>6, <2>2, <2>4, <2>5
<1>16. ~ (int_putchar \/ int_getkey)
  BY DEF int_putchar, int_getkey, Int80, Enter
<1>17. QED
  BY <1>4, <1>5, <1>8, <1>9, <1>10, <1>11, <1>12, <1>13, <1>14, <1>15, <1>16 DEF Instruction

-----------------------------------------------------------------------------
(* Entering the kernel keeps the registers in the frame.                   *)
LEMMA EnterStep ==
  ASSUME SystemInv, phase = "user", NEW n \in {TIMER, KEYBOARD, SYSTEM_CALL}, NEW p \in 0 .. 12,
         Enter(n, p), in_service' \in BOOLEAN,
         \/ n # SYSTEM_CALL /\ p = cpu.ip
         \/ n = SYSTEM_CALL /\ cpu.ip = 4 /\ p = 5
         \/ n = SYSTEM_CALL /\ cpu.ip = 8 /\ p = 9
  PROVE  SystemInv' /\ UNCHANGED <<Status, Pending, Text>>
<1>1. /\ Started /\ Runs(cpu) /\ cpu \in RegisterSet
      /\ user_stack \in [0 .. STACK_START -> Keys \cup {0, 2}]
      /\ Carried = IF cpu.ip \in {2, 9, 10, 11, 12} THEN NonZero(cpu.eax)
                   ELSE IF cpu.ip \in {3, 4} THEN <<user_stack[cpu.esp]>>
                   ELSE << >>
  BY UserFacts
<1>2. /\ phase' = "handler" /\ vector' = n /\ frame' = [cpu EXCEPT !.ip = p]
      /\ UNCHANGED <<terminal, port, buffer, head, tail, isr80h_commands, cpu, user_stack,
                     saved_esp, temp_res>>
  BY DEF Enter, keyVars, userVars
<1>3. /\ frame' \in RegisterSet /\ frame'.ip = p /\ frame'.esp = cpu.esp
      /\ frame'.eax = cpu.eax /\ frame'.zf = cpu.zf
  BY <1>1, <1>2, SetIp
<1>4. Started' /\ temp_res' \in Keys \cup {0}
  BY <1>2, PortFacts DEF Started, SystemInv
<1>5. Carried' =
        IF n = SYSTEM_CALL
        THEN IF frame'.eax = SYSTEM_COMMAND3_PUTCHAR THEN <<user_stack[frame'.esp]>> ELSE << >>
        ELSE IF frame'.ip \in {2, 9, 10, 11, 12} THEN NonZero(frame'.eax)
        ELSE IF frame'.ip \in {3, 4} THEN <<user_stack[frame'.esp]>>
        ELSE << >>
  BY <1>2 DEF Carried, Registers, NonZero
<1>6. Carried' = Carried
  BY <1>1, <1>3, <1>5 DEF Runs, SYSTEM_COMMAND2_GETKEY, SYSTEM_COMMAND3_PUTCHAR
<1>7. ScreenInv' /\ KP!KInv' /\ UNCHANGED <<Status, Pending, Text>>
  BY <1>1, <1>2, <1>4, <1>6, QuietStep
<1>8. TrapTypes'
  BY <1>2, <1>3 DEF SystemInv, TrapTypes
<1>9. BootInv'
  BY <1>1, <1>2, <1>4 DEF SystemInv, BootInv
<1>10. ProgramInv'
  <2>1. CASE n = SYSTEM_CALL
    BY <1>1, <1>2, <1>3, <2>1 DEF ProgramInv, InSystemCall, Calls, Runs
  <2>2. CASE n # SYSTEM_CALL
    <3>1. Registers' = frame' /\ ~ InSystemCall'
      BY <1>2, <2>2 DEF Registers, InSystemCall
    <3>2. Runs(frame)'
      BY <1>1, <1>2, <1>3, <2>2 DEF Runs
    <3>3. Runs(Registers)'
      BY <3>1, <3>2 DEF Runs
    <3>4. QED
      BY <3>1, <3>3 DEF ProgramInv
  <2>3. QED
    BY <2>1, <2>2
<1>11. QED
  BY <1>7, <1>8, <1>9, <1>10 DEF SystemInv

(* An interrupt saves the program's registers as they are.                 *)
LEMMA InterruptStep ==
  ASSUME SystemInv, KeyboardInterrupt \/ TimerInterrupt
  PROVE  SystemInv' /\ UNCHANGED <<Status, Pending, Text>>
<1>1. PICK n \in {TIMER, KEYBOARD} : Interrupt(n)
  BY DEF KeyboardInterrupt, TimerInterrupt
<1>2. phase = "user" /\ Enter(n, cpu.ip) /\ n # SYSTEM_CALL
  BY <1>1 DEF Interrupt, TIMER, KEYBOARD, SYSTEM_CALL
<1>3. in_service' \in BOOLEAN
  BY <1>1, Zenon DEF Interrupt
<1>4. cpu.ip \in 0 .. 12
  BY <1>2, UserFacts DEF Runs
<1>5. QED
  BY <1>2, <1>3, <1>4, EnterStep

(* int 0x80 saves them with the number and the argument of the call.       *)
LEMMA SystemCallStep ==
  ASSUME SystemInv, int_putchar \/ int_getkey
  PROVE  SystemInv' /\ UNCHANGED <<Status, Pending, Text>>
<1>1. /\ phase = "user" /\ cpu.ip \in {4, 8} /\ Enter(SYSTEM_CALL, cpu.ip + 1)
      /\ UNCHANGED in_service
  BY DEF int_putchar, int_getkey, Int80, At
<1>2. in_service' \in BOOLEAN
  BY <1>1 DEF SystemInv, TrapTypes
<1>3. CASE cpu.ip = 4
  <2>1. Enter(SYSTEM_CALL, 5)
    BY <1>1, <1>3
  <2>2. QED
    BY <1>1, <1>2, <1>3, <2>1, EnterStep
<1>4. CASE cpu.ip = 8
  <2>1. Enter(SYSTEM_CALL, 9)
    BY <1>1, <1>4
  <2>2. QED
    BY <1>1, <1>2, <1>4, <2>1, EnterStep
<1>5. QED
  BY <1>1, <1>3, <1>4

(* Leaving the kernel: the program gets its registers back, and the answer *)
(* of a system call.                                                       *)
LEMMA LeaveStep ==
  ASSUME SystemInv, Leave
  PROVE  SystemInv' /\ UNCHANGED <<Status, Pending, Text>>
<1>1. /\ phase = "return" /\ phase' = "user" /\ frame' = NoFrame /\ vector' = 0
      /\ cpu' = IF vector = SYSTEM_CALL THEN [frame EXCEPT !.eax = temp_res] ELSE frame
      /\ UNCHANGED <<terminal, port, buffer, head, tail, isr80h_commands, user_stack,
                     saved_esp, temp_res, in_service>>
  BY DEF Leave, keyVars
<1>2. Started /\ Started' /\ temp_res \in Keys \cup {0} /\ frame \in RegisterSet
  BY <1>1, PortFacts DEF Started, SystemInv, TrapTypes
<1>3. Carried' = IF cpu'.ip \in {2, 9, 10, 11, 12} THEN NonZero(cpu'.eax)
                 ELSE IF cpu'.ip \in {3, 4} THEN <<user_stack'[cpu'.esp]>>
                 ELSE << >>
  BY <1>1, NextCarried
<1>4. cpu' \in RegisterSet /\ Runs(cpu)' /\ Carried' = Carried
  <2>1. CASE vector = SYSTEM_CALL
    <3>1. Calls(frame)
      BY <1>1, <1>2, <2>1 DEF SystemInv, ProgramInv, InSystemCall
    <3>2. Carried = IF frame.eax = SYSTEM_COMMAND2_GETKEY THEN NonZero(temp_res) ELSE << >>
      BY <1>1, <2>1 DEF Carried, NonZero
    <3>3. /\ cpu' \in RegisterSet /\ cpu'.ip = frame.ip /\ cpu'.esp = frame.esp
          /\ cpu'.eax = temp_res
      <4>1. cpu' = [frame EXCEPT !.eax = temp_res] /\ temp_res \in Answers
        BY <1>1, <1>2, <2>1 DEF Answers
      <4>2. QED
        BY <1>2, <4>1, SetEax
    <3>4. Runs(cpu)'
      BY <1>1, <1>2, <3>1, <3>3 DEF Runs, Calls
    <3>5. Carried' = Carried
      BY <1>3, <3>1, <3>2, <3>3 DEF Calls, SYSTEM_COMMAND2_GETKEY, SYSTEM_COMMAND3_PUTCHAR
    <3>6. QED
      BY <3>3, <3>4, <3>5
  <2>2. CASE vector # SYSTEM_CALL
    <3>1. cpu' = frame /\ Registers = frame
      BY <1>1, <2>2 DEF Registers
    <3>2. Runs(frame)
      BY <1>1, <1>2, <2>2, <3>1 DEF SystemInv, ProgramInv, InSystemCall
    <3>3. Carried = IF frame.ip \in {2, 9, 10, 11, 12} THEN NonZero(frame.eax)
                    ELSE IF frame.ip \in {3, 4} THEN <<user_stack[frame.esp]>>
                    ELSE << >>
      BY <1>1, <2>2, <3>1 DEF Carried
    <3>4. Runs(cpu)'
      BY <1>1, <3>1, <3>2 DEF Runs
    <3>5. QED
      BY <1>1, <1>2, <1>3, <3>1, <3>3, <3>4
  <2>3. QED
    BY <2>1, <2>2
<1>5. ScreenInv' /\ KP!KInv' /\ UNCHANGED <<Status, Pending, Text>>
  BY <1>1, <1>2, <1>4, QuietStep
<1>6. TrapTypes'
  BY <1>1, <1>4, NoFrameType DEF SystemInv, TrapTypes
<1>7. BootInv'
  BY <1>1, <1>2 DEF SystemInv, BootInv
<1>8. ProgramInv'
  BY <1>1, <1>4 DEF ProgramInv, InSystemCall, Registers
<1>9. QED
  BY <1>5, <1>6, <1>7, <1>8 DEF SystemInv

-----------------------------------------------------------------------------
(* The screen stays as it is, and no more keys are on their way to it.     *)
LEMMA ScreenKept ==
  ASSUME SystemInv, Started, Started', terminal' = terminal,
         Len(Pending') \in Nat, Len(port') \in Nat,
         Len(Pending') + Len(port') <= Len(Pending) + Len(port)
  PROVE  ScreenInv' /\ Text' = Text /\ Status' = Status /\ Status = "running"
<1>1. /\ Text' = Text /\ Cursor(terminal)' = Cursor(terminal)
      /\ TerminalTypeOK' = TerminalTypeOK /\ BlankAhead' = BlankAhead
  BY DEF Text, Cursor, TerminalTypeOK, BlankAhead
<1>2. /\ Status = "running" /\ Status' = "running" /\ phase # "panic"
      /\ phase # "terminal_initialize" /\ ~ Starting'
  BY Phases DEF Status, Started, Starting
<1>3. Cursor(terminal) \in Nat /\ Len(Pending) \in Nat /\ Len(port) \in Nat /\ CELLS \in Nat
  BY CarriedIsSeq, PortFacts, CursorIsNat, TerminalAssumption
     DEF SystemInv, ScreenInv, TerminalTypeOK, Terminals
<1>4. Cursor(terminal) + Len(Pending) + Len(port) <= CELLS
  BY <1>2 DEF SystemInv, ScreenInv, Room
<1>5. Cursor(terminal) + Len(Pending') + Len(port') <= CELLS
  BY <1>3, <1>4
<1>6. QED
  BY <1>1, <1>2, <1>5 DEF SystemInv, ScreenInv, Room

(* The callback of an interrupt accepts a key, or changes nothing the user *)
(* can see.                                                                *)
LEMMA HandlerStep ==
  ASSUME SystemInv, interrupt_handler
  PROVE  SystemInv' /\ [Echoing!Next]_<<Status, Pending, Text>>
<1>1. /\ phase = "handler" /\ phase' = "return" /\ vector # SYSTEM_CALL
      /\ UNCHANGED <<terminal, isr80h_commands, cpu, user_stack, frame, vector>>
  BY DEF interrupt_handler, userVars
<1>2. Started /\ Started'
  BY <1>1 DEF Started
<1>3. /\ saved_esp' \in {saved_esp, frame.esp}
      /\ \/ \E c \in Keys : Keyboard!InterruptPushes(c)
         \/ Keyboard!InterruptIgnored
         \/ UNCHANGED <<port, buffer, head, tail, temp_res>>
  BY DEF interrupt_handler, task_save_state, keyVars, Keys
<1>4. in_service' \in BOOLEAN
  BY Zenon DEF interrupt_handler
<1>5. TrapTypes'
  <2>1. saved_esp' \in 0 .. STACK_START
    BY <1>3 DEF SystemInv, TrapTypes, RegisterSet
  <2>2. QED
    BY <1>1, <1>4, <2>1 DEF SystemInv, TrapTypes
<1>6. BootInv'
  BY <1>1, <1>2 DEF SystemInv, BootInv
<1>7. ProgramInv'
  <2>1. Registers = frame /\ Registers' = frame' /\ ~ InSystemCall /\ ~ InSystemCall'
    BY <1>1 DEF Registers, InSystemCall
  <2>2. Runs(frame)
    BY <1>2, <2>1 DEF SystemInv, ProgramInv
  <2>3. Runs(frame)'
    BY <1>1, <2>2 DEF Runs
  <2>4. Runs(Registers)'
    BY <2>1, <2>3 DEF Runs
  <2>5. QED
    BY <2>1, <2>4 DEF ProgramInv
<1>8. Carried' = Carried
  BY <1>1 DEF Carried, Registers, NonZero
<1>9. /\ Carried \in Seq(Keys) /\ Unread \in Seq(Keys) /\ Pending \in Seq(Keys)
      /\ Pending = Carried \o Unread
      /\ Len(port) \in Nat /\ temp_res \in Keys \cup {0} /\ KP!KInv
  BY CarriedIsSeq, PortFacts DEF SystemInv, Pending
<1>10. ASSUME NEW c \in Keys, Keyboard!InterruptPushes(c)
       PROVE  SystemInv' /\ Echoing!Next
  <2>1. /\ KP!KInv' /\ Unread' = Append(Unread, c)
        /\ Len(port') \in Nat /\ Len(port') + 1 <= Len(port)
    BY <1>9, <1>10, PushStep
  <2>2. Pending' = Append(Pending, c)
    <3>1. Pending' = Carried \o Append(Unread, c)
      BY <1>8, <2>1 DEF Pending
    <3>2. Carried \o Append(Unread, c) = Append(Carried \o Unread, c)
      BY <1>9
    <3>3. QED
      BY <1>9, <3>1, <3>2
  <2>3. Len(Pending') = Len(Pending) + 1 /\ Len(Pending') \in Nat
    BY <1>9, <2>2
  <2>4. Len(Pending) \in Nat
    BY <1>9
  <2>5. ScreenInv' /\ Text' = Text /\ Status' = Status /\ Status = "running"
    BY <1>1, <1>2, <1>9, <2>1, <2>3, <2>4, ScreenKept
  <2>6. Echoing!Accept(c)
    BY <2>2, <2>5 DEF Echoing!Accept
  <2>7. Echoing!Next
    BY <2>6 DEF Echoing!Next, Keys
  <2>8. QED
    BY <1>5, <1>6, <1>7, <2>1, <2>5, <2>7 DEF SystemInv
<1>11. CASE Keyboard!InterruptIgnored
  <2>1. /\ KP!KInv' /\ Unread' = Unread /\ Len(port') \in Nat /\ Len(port') <= Len(port)
    BY <1>9, <1>11, IgnoreStep
  <2>2. Pending' = Pending
    BY <1>8, <2>1 DEF Pending
  <2>3. Len(Pending) \in Nat
    BY <1>9
  <2>4. ScreenInv' /\ Text' = Text /\ Status' = Status
    BY <1>1, <1>2, <1>9, <2>1, <2>2, <2>3, ScreenKept
  <2>5. QED
    BY <1>5, <1>6, <1>7, <2>1, <2>2, <2>4 DEF SystemInv
<1>12. CASE UNCHANGED <<port, buffer, head, tail, temp_res>>
  <2>1. ScreenInv' /\ KP!KInv' /\ UNCHANGED <<Status, Pending, Text>>
    BY <1>1, <1>2, <1>8, <1>9, <1>12, QuietStep
  <2>2. QED
    BY <1>5, <1>6, <1>7, <2>1 DEF SystemInv
<1>13. QED
  BY <1>3, <1>10, <1>11, <1>12

(* What getkey and putchar share.                                          *)
LEMMA CommandFacts ==
  ASSUME SystemInv, isr80h_handler
  PROVE  /\ phase = "handler" /\ phase' = "return" /\ vector = SYSTEM_CALL
         /\ Started /\ Started' /\ Calls(frame) /\ saved_esp' = frame.esp
         /\ UNCHANGED <<isr80h_commands, cpu, user_stack, frame, vector, in_service>>
         /\ TrapTypes' /\ BootInv' /\ ProgramInv'
         /\ \/ frame.eax = SYSTEM_COMMAND2_GETKEY /\ isr80h_command2_getkey
            \/ frame.eax = SYSTEM_COMMAND3_PUTCHAR /\ isr80h_command3_putchar
<1>1. /\ phase = "handler" /\ phase' = "return" /\ vector = SYSTEM_CALL
      /\ saved_esp' = frame.esp /\ isr80h_handle_command(frame.eax)
      /\ UNCHANGED <<isr80h_commands, cpu, user_stack, frame, vector, in_service>>
  BY DEF isr80h_handler, task_save_state, userVars
<1>2. Started /\ Started' /\ InSystemCall /\ InSystemCall'
  BY <1>1 DEF Started, InSystemCall
<1>3. Calls(frame)
  BY <1>2 DEF SystemInv, ProgramInv
<1>4. /\ DOMAIN isr80h_commands = 0 .. MAX_COMMANDS - 1
      /\ isr80h_commands[SYSTEM_COMMAND2_GETKEY] = "getkey"
      /\ isr80h_commands[SYSTEM_COMMAND3_PUTCHAR] = "putchar"
      /\ SYSTEM_COMMAND2_GETKEY \in 0 .. MAX_COMMANDS - 1
      /\ SYSTEM_COMMAND3_PUTCHAR \in 0 .. MAX_COMMANDS - 1
  BY <1>2, BootAssumption DEF SystemInv, BootInv, SYSTEM_COMMAND2_GETKEY, SYSTEM_COMMAND3_PUTCHAR
<1>5. \/ frame.eax = SYSTEM_COMMAND2_GETKEY /\ isr80h_command2_getkey
      \/ frame.eax = SYSTEM_COMMAND3_PUTCHAR /\ isr80h_command3_putchar
  <2>1. CASE frame.eax = SYSTEM_COMMAND2_GETKEY
    BY <1>1, <1>4, <2>1 DEF isr80h_handle_command
  <2>2. CASE frame.eax = SYSTEM_COMMAND3_PUTCHAR
    BY <1>1, <1>4, <2>2 DEF isr80h_handle_command
  <2>3. QED
    BY <1>3, <2>1, <2>2 DEF Calls
<1>6. TrapTypes'
  BY <1>1 DEF SystemInv, TrapTypes, RegisterSet
<1>7. BootInv'
  BY <1>1, <1>2 DEF SystemInv, BootInv
<1>8. ProgramInv'
  BY <1>1, <1>2, <1>3 DEF ProgramInv, Calls
<1>9. QED
  BY <1>1, <1>2, <1>3, <1>5, <1>6, <1>7, <1>8

(* getkey takes the oldest unread key over to the program.                 *)
LEMMA GetkeyStep ==
  ASSUME SystemInv, isr80h_handler, frame.eax = SYSTEM_COMMAND2_GETKEY, isr80h_command2_getkey
  PROVE  SystemInv' /\ UNCHANGED <<Status, Pending, Text>>
<1>1. /\ phase = "handler" /\ phase' = "return" /\ vector = SYSTEM_CALL
      /\ Started /\ Started' /\ UNCHANGED <<frame, vector>>
      /\ TrapTypes' /\ BootInv' /\ ProgramInv'
  BY CommandFacts
<1>2. Carried = << >> /\ Carried' = NonZero(temp_res')
  BY <1>1 DEF Carried, NonZero, SYSTEM_COMMAND2_GETKEY, SYSTEM_COMMAND3_PUTCHAR
<1>3. /\ Unread \in Seq(Keys) /\ Pending = Unread /\ KP!KInv /\ Len(port) \in Nat
      /\ Len(Pending) \in Nat
  <2>1. Unread \in Seq(Keys) /\ KP!KInv /\ Len(port) \in Nat
    BY CarriedIsSeq, PortFacts DEF SystemInv
  <2>2. Pending = Unread
    BY <1>2, <2>1 DEF Pending
  <2>3. QED
    BY <2>1, <2>2
<1>4. Keyboard!keyboard_pop \/ Keyboard!keyboard_pop_nothing
  BY DEF isr80h_command2_getkey
<1>5. KP!KInv' /\ port' = port /\ Pending' = Pending
  <2>1. CASE Keyboard!keyboard_pop
    <3>1. /\ KP!KInv' /\ port' = port /\ temp_res' \in Keys /\ Unread # << >>
          /\ temp_res' = Head(Unread) /\ Unread' = Tail(Unread)
      BY <1>3, <2>1, PopStep
    <3>2. Pending' = <<Head(Unread)>> \o Tail(Unread)
      BY <1>2, <3>1, KeyFacts DEF Pending, NonZero
    <3>3. <<Head(Unread)>> \o Tail(Unread) = Unread
      BY <1>3, <3>1
    <3>4. QED
      BY <1>3, <3>1, <3>2, <3>3
  <2>2. CASE Keyboard!keyboard_pop_nothing
    <3>1. KP!KInv' /\ port' = port /\ temp_res' = 0 /\ Unread' = Unread
      BY <1>3, <2>2, NothingStep
    <3>2. Carried' = << >>
      BY <1>2, <3>1 DEF NonZero
    <3>3. QED
      BY <1>3, <1>2, <3>1, <3>2 DEF Pending
  <2>3. QED
    BY <1>4, <2>1, <2>2
<1>6. terminal' = terminal
  BY DEF isr80h_command2_getkey
<1>7. ScreenInv' /\ Text' = Text /\ Status' = Status
  BY <1>1, <1>3, <1>5, <1>6, ScreenKept
<1>8. QED
  BY <1>1, <1>5, <1>7 DEF SystemInv

(* What the abstract system shows for a key.                               *)
LEMMA ShownText ==
  ASSUME NEW s, NEW c
  PROVE  /\ c = BACKSPACE => Echoing!Shown(s, c) = Screen!Erased(s)
         /\ c = NEWLINE => Echoing!Shown(s, c) = Screen!NewLined(s)
         /\ c \in Glyphs => Echoing!Shown(s, c) = Append(s, c)
<1>1. NEWLINE # BACKSPACE /\ (c \in Glyphs => c # NEWLINE /\ c # BACKSPACE)
  BY TerminalAssumption DEF NEWLINE, BACKSPACE
<1>2. QED
  BY <1>1 DEF Echoing!Shown, Echoing!Screen!Erased, Echoing!Screen!NewLined, Echoing!Screen!Added,
              Screen!Erased, Screen!NewLined

(* putchar shows the key the program carries.                              *)
LEMMA PutcharStep ==
  ASSUME SystemInv, isr80h_handler, frame.eax = SYSTEM_COMMAND3_PUTCHAR, isr80h_command3_putchar
  PROVE  SystemInv' /\ Echoing!Show
<1> DEFINE key == user_stack[1]
<1>1. /\ phase = "handler" /\ phase' = "return" /\ vector = SYSTEM_CALL
      /\ Started /\ Started' /\ Calls(frame) /\ saved_esp' = frame.esp
      /\ UNCHANGED <<frame, vector>>
      /\ TrapTypes' /\ BootInv' /\ ProgramInv'
  BY CommandFacts
<1>2. frame.esp = 1 /\ key \in Keys
  BY <1>1 DEF Calls, SYSTEM_COMMAND2_GETKEY, SYSTEM_COMMAND3_PUTCHAR
<1>3. Carried = <<key>> /\ Carried' = << >>
  BY <1>1, <1>2 DEF Carried, SYSTEM_COMMAND2_GETKEY, SYSTEM_COMMAND3_PUTCHAR
<1>4. /\ terminal' = terminal_writechar(terminal, key)
      /\ temp_res' = 0 /\ UNCHANGED <<port, buffer, head, tail>>
  <2>1. key % 256 = key
    <3>1. key \in 0 .. 255
      BY <1>2, KeyFacts
    <3> HIDE DEF key
    <3>2. QED
      BY <3>1
  <2>2. terminal' = terminal_writechar(terminal, user_stack[1 + 0] % 256)
    BY <1>1, <1>2 DEF isr80h_command3_putchar, task_get_stack_item
  <2>3. QED
    BY <2>1, <2>2 DEF isr80h_command3_putchar, keyVars
<1> HIDE DEF key
<1>5. Unread \in Seq(Keys) /\ KP!KInv /\ Len(port) \in Nat
  BY CarriedIsSeq, PortFacts DEF SystemInv
<1>6. KP!KInv' /\ Unread' = Unread
  BY <1>4, <1>5, PortFacts, BufferRests
<1>7. /\ Pending = <<key>> \o Unread /\ Pending' = Unread
  BY <1>3, <1>5, <1>6 DEF Pending
<1>8. /\ Pending # << >> /\ Head(Pending) = key /\ Pending' = Tail(Pending)
      /\ Len(Pending) = Len(Pending') + 1 /\ Len(Pending') \in Nat
  BY <1>2, <1>5, <1>7
<1>9. /\ phase # "panic" /\ phase # "terminal_initialize" /\ phase' # "terminal_initialize"
      /\ ~ Starting' /\ Status = "running" /\ Status' = "running"
  BY <1>1, Phases DEF Starting, Status, Started
<1>10. /\ InOrder(terminal) /\ Cursor(terminal) \in Nat /\ CELLS \in Nat
       /\ Cursor(terminal) + Len(Pending) + Len(port) <= CELLS
  <2>1. TInv /\ Cursor(terminal) + Len(Pending) + Len(port) <= CELLS
    BY <1>9 DEF SystemInv, ScreenInv, Room, TInv
  <2>2. QED
    BY <2>1, TInvInOrder, TextIsSeq, TerminalAssumption
<1>11. /\ InOrder(terminal') /\ Cursor(terminal') <= Cursor(terminal) + 1
       /\ TextOf(terminal') = Echoing!Shown(TextOf(terminal), key)
  <2>1. CASE key \in Glyphs
    <3>1. Cursor(terminal) < CELLS
      BY <1>5, <1>8, <1>10
    <3>2. /\ InOrder(terminal') /\ Cursor(terminal') = Cursor(terminal) + 1
          /\ TextOf(terminal') = Append(TextOf(terminal), key)
      BY <1>4, <1>10, <2>1, <3>1, GlyphStep
    <3>3. QED
      BY <1>10, <2>1, <3>2, ShownText
  <2>2. CASE key = BACKSPACE
    <3>1. /\ InOrder(terminal') /\ Cursor(terminal') <= Cursor(terminal)
          /\ TextOf(terminal') = Screen!Erased(TextOf(terminal))
      BY <1>4, <1>10, <2>2, EraseStep
    <3>2. Cursor(terminal') \in Nat
      BY <3>1, TextIsSeq
    <3>3. QED
      BY <1>10, <2>2, <3>1, <3>2, ShownText
  <2>3. QED
    BY <1>2, <2>1, <2>2, KeyFacts
<1>12. ScreenInv'
  <2>1. Cursor(terminal') \in Nat /\ Cursor(terminal)' = Cursor(terminal')
    BY <1>11, TextIsSeq DEF Cursor
  <2>2. Cursor(terminal') + Len(Pending') + Len(port') <= CELLS
    BY <1>4, <1>5, <1>8, <1>10, <1>11, <2>1
  <2>3. TInv'
    BY <1>11, TInvInOrder
  <2>4. QED
    BY <1>9, <2>1, <2>2, <2>3 DEF ScreenInv, Room, TInv
<1>13. Text' = Echoing!Shown(Text, key)
  BY <1>11, TInvInOrder
<1>14. Echoing!Show
  BY <1>8, <1>9, <1>13 DEF Echoing!Show
<1>15. QED
  BY <1>1, <1>6, <1>12, <1>14 DEF SystemInv

(* A code at the port is not a key yet.                                    *)
LEMMA StrokeStep ==
  ASSUME SystemInv, NEW scancode \in Scancodes, KeyStroke(scancode)
  PROVE  SystemInv' /\ UNCHANGED <<Status, Pending, Text>>
<1>1. /\ Cursor(terminal) + Len(Pending) + Len(port) < CELLS
      /\ Len(port) < PORT_BOUND /\ port' = Append(port, scancode)
      /\ UNCHANGED <<buffer, head, tail, temp_res, terminal, phase, isr80h_commands,
                     cpu, user_stack, frame, vector, saved_esp, in_service>>
  BY DEF KeyStroke, Keyboard!KeyStroke, bootVars, userVars
<1>2. port \in Seq(Scancodes) /\ Len(port) \in Nat /\ temp_res \in Keys \cup {0} /\ KP!KInv
  BY PortFacts DEF SystemInv
<1>3. port' \in Seq(Scancodes) /\ Len(port') = Len(port) + 1 /\ Len(port') <= PORT_BOUND
  BY <1>1, <1>2, KeyboardFacts
<1>4. KP!KInv' /\ Unread' = Unread
  BY <1>1, <1>2, <1>3, BufferRests
<1>5. Carried' = Carried /\ Status' = Status /\ Starting' = Starting /\ Started' = Started
  BY <1>1 DEF Carried, Registers, NonZero, Status, Starting, Started
<1>6. Pending' = Pending
  BY <1>4, <1>5 DEF Pending
<1>7. /\ Text' = Text /\ Cursor(terminal)' = Cursor(terminal)
      /\ TerminalTypeOK' = TerminalTypeOK /\ BlankAhead' = BlankAhead
  BY <1>1 DEF Text, Cursor, TerminalTypeOK, BlankAhead
<1>8. Cursor(terminal) \in Nat /\ Len(Pending) \in Nat /\ CELLS \in Nat
  BY CarriedIsSeq, CursorIsNat, TerminalAssumption
     DEF SystemInv, ScreenInv, TerminalTypeOK, Terminals
<1>9. ScreenInv'
  <2>1. Cursor(terminal) + Len(Pending) + Len(port') <= CELLS
    BY <1>1, <1>2, <1>3, <1>8
  <2>2. QED
    BY <1>1, <1>5, <1>6, <1>7, <2>1 DEF SystemInv, ScreenInv, Room
<1>10. TrapTypes' /\ BootInv'
  BY <1>1, <1>5 DEF SystemInv, TrapTypes, BootInv
<1>11. ProgramInv'
  BY <1>1, <1>5 DEF SystemInv, ProgramInv, InSystemCall, Calls, Runs, Registers
<1>12. QED
  BY <1>4, <1>5, <1>6, <1>7, <1>9, <1>10, <1>11 DEF SystemInv

-----------------------------------------------------------------------------
(* A set of numbers has a least one: the loops are unrolled by it.         *)
LEMMA LeastOf ==
  ASSUME NEW S, S \subseteq Nat, S # {}
  PROVE  \E x \in S : \A y \in S : x <= y
<1> DEFINE R == OpToRel(<, Nat)
<1>1. IsWellFoundedOn(R, Nat)
  BY NatLessThanWellFounded
<1> HIDE DEF R
<1>2. PICK x \in S : \A y \in S : ~ (<<y, x>> \in R)
  BY <1>1, WFMin
<1>3. ASSUME NEW y \in S PROVE x <= y
  <2>1. <<y, x>> \in Nat \X Nat
    OBVIOUS
  <2>2. ~ (y < x)
    BY <1>2, <2>1 DEF R, OpToRel
  <2>3. QED
    BY <2>2
<1>4. QED
  BY <1>3

(* The loop of print, over the terminals it goes through.                  *)
PrintLoop(t, str, n, f) ==
  [k \in 0 .. n |-> IF k = 0 THEN t ELSE terminal_writechar(f[k - 1], str[k])]

(* There is a terminal for every prefix of the string.                     *)
LEMMA PrintExists ==
  ASSUME NEW t, NEW str, NEW n \in Nat
  PROVE  \E f : f = PrintLoop(t, str, n, f)
<1> DEFINE Loop(f, m) ==
             [k \in 0 .. m |-> IF k = 0 THEN t ELSE terminal_writechar(f[k - 1], str[k])]
           bad == {m \in Nat : ~ \E f : f = Loop(f, m)}
<1>1. ASSUME bad # {}
      PROVE  FALSE
  <2>1. PICK m \in bad : \A y \in bad : m <= y
    <3>1. bad \subseteq Nat
      OBVIOUS
    <3> HIDE DEF bad
    <3>2. QED
      BY <1>1, <3>1, LeastOf
  <2>2. m \in Nat /\ ~ \E f : f = Loop(f, m)
    OBVIOUS
  <2>3. CASE m = 0
    <3> DEFINE g == [k \in 0 .. 0 |-> t]
    <3>1. g = Loop(g, 0)
      OBVIOUS
    <3>2. QED
      BY <2>2, <2>3, <3>1
  <2>4. CASE m # 0
    <3>1. m - 1 \in Nat /\ ~ (m <= m - 1)
      BY <2>2, <2>4
    <3>2. m - 1 \notin bad
      BY <2>1, <3>1
    <3>3. PICK f : f = Loop(f, m - 1)
      BY <3>1, <3>2
    <3> DEFINE last == terminal_writechar(f[m - 1], str[m])
               g == [k \in 0 .. m |-> IF k = m THEN last ELSE f[k]]
    <3>4. ASSUME NEW k \in 0 .. m
          PROVE  g[k] = IF k = 0 THEN t ELSE terminal_writechar(g[k - 1], str[k])
      <4>1. CASE k = m
        <5>1. g[k - 1] = f[k - 1]
          BY <2>2, <2>4, <4>1
        <5>2. QED
          BY <2>4, <4>1, <5>1
      <4>2. CASE k # m
        <5>1. k \in 0 .. m - 1
          BY <2>2, <4>2
        <5>2. f[k] = IF k = 0 THEN t ELSE terminal_writechar(f[k - 1], str[k])
          BY <3>3, <5>1
        <5>3. k # 0 => g[k - 1] = f[k - 1]
          BY <2>2, <5>1
        <5>4. QED
          BY <4>2, <5>2, <5>3
      <4>3. QED
        BY <4>1, <4>2
    <3>5. g = Loop(g, m)
      <4>1. g = [k \in 0 .. m |-> g[k]]
        OBVIOUS
      <4> HIDE DEF g
      <4>2. QED
        BY <3>4, <4>1
    <3>6. QED
      BY <2>2, <3>5
  <2>5. QED
    BY <2>3, <2>4
<1>2. n \notin bad
  BY <1>1
<1>3. PICK f : f = Loop(f, n)
  BY <1>2
<1>4. QED
  BY <1>3 DEF PrintLoop

(* The message of panic is one line: until its end the cursor counts the   *)
(* characters written.                                                     *)
LEMMA MessageStep ==
  ASSUME NEW t, NEW k \in 1 .. Len(PanicMessage), InOrder(t), Cursor(t) = k - 1,
         NEW u, u = terminal_writechar(t, PanicMessage[k])
  PROVE  /\ InOrder(u) /\ (k < Len(PanicMessage) => Cursor(u) = k)
         /\ TextOf(u) = Echoing!Shown(TextOf(t), PanicMessage[k])
<1> DEFINE c == PanicMessage[k]
<1>1. /\ Len(PanicMessage) \in Nat /\ Len(PanicMessage) <= VGA_WIDTH
      /\ c \in Glyphs \cup {NEWLINE} /\ (k < Len(PanicMessage) => c # NEWLINE)
  BY SystemAssumption
<1>2. /\ VGA_WIDTH \in Nat \ {0} /\ VGA_HEIGHT \in Nat \ {0}
      /\ VGA_WIDTH * VGA_HEIGHT \in Nat /\ CELLS \in Nat /\ CELLS >= VGA_WIDTH * VGA_HEIGHT
  BY TerminalAssumption, ScreenHasCells
<1>3. VGA_WIDTH <= VGA_WIDTH * VGA_HEIGHT
  <2>1. 1 * VGA_WIDTH <= VGA_HEIGHT * VGA_WIDTH
    BY <1>2, RowGrows
  <2>2. VGA_HEIGHT * VGA_WIDTH = VGA_WIDTH * VGA_HEIGHT /\ 1 * VGA_WIDTH = VGA_WIDTH
    BY <1>2
  <2>3. QED
    BY <2>1, <2>2
<1>4. Cursor(t) < VGA_WIDTH /\ Cursor(t) \in Nat
  BY <1>1, <1>2
<1> HIDE DEF c
<1>5. CASE c \in Glyphs
  <2>1. Cursor(t) < CELLS
    BY <1>2, <1>3, <1>4
  <2>2. u = terminal_writechar(t, c)
    BY DEF c
  <2>3. /\ InOrder(u) /\ Cursor(u) = Cursor(t) + 1
        /\ TextOf(u) = Append(TextOf(t), c)
    BY <1>5, <2>1, <2>2, GlyphStep
  <2>4. TextOf(u) = Echoing!Shown(TextOf(t), c)
    BY <1>5, <2>3, ShownText
  <2>5. QED
    BY <1>1, <2>3, <2>4 DEF c
<1>6. CASE c = NEWLINE
  <2>1. t \in Terminals
    BY DEF InOrder
  <2>2. t.terminal_row = 0
    <3>1. /\ t.terminal_row \in Nat /\ t.terminal_col \in 0 .. VGA_WIDTH - 1
          /\ Cursor(t) = t.terminal_row * VGA_WIDTH + t.terminal_col
      BY <2>1, CursorIsNat
    <3>2. PICK r \in Nat : r = t.terminal_row
      BY <3>1
    <3>3. CASE r >= 1
      <4>1. 1 * VGA_WIDTH <= r * VGA_WIDTH /\ r * VGA_WIDTH \in Nat
        BY <1>2, <3>2, <3>3, RowGrows
      <4> DEFINE start == r * VGA_WIDTH
      <4>2. start \in Nat /\ VGA_WIDTH <= start /\ Cursor(t) = start + t.terminal_col
        BY <1>2, <3>1, <3>2, <4>1
      <4> HIDE DEF start
      <4>3. QED
        BY <1>2, <1>4, <3>1, <4>2
    <3>4. QED
      BY <3>2, <3>3
  <2>3. (t.terminal_row + 1) * VGA_WIDTH <= VGA_WIDTH * VGA_HEIGHT
    BY <1>2, <1>3, <2>2
  <2>4. u = terminal_writechar(t, NEWLINE)
    BY <1>6 DEF c
  <2>5. InOrder(u) /\ TextOf(u) = Screen!NewLined(TextOf(t))
    BY <2>3, <2>4, NewLineStep
  <2>6. TextOf(u) = Echoing!Shown(TextOf(t), c)
    BY <1>6, <2>5, ShownText
  <2>7. QED
    BY <1>1, <1>6, <2>5, <2>6 DEF c
<1>7. QED
  BY <1>1, <1>5, <1>6

(* On a blank screen print shows panic's message.                          *)
LEMMA PanicPrints ==
  ASSUME NEW t, InOrder(t), Cursor(t) = 0, NEW u, u = print(t, PanicMessage)
  PROVE  InOrder(u) /\ TextOf(u) = Echoing!Report(PanicMessage)
<1> DEFINE n == Len(PanicMessage)
           Loop(g) == [k \in 0 .. n |->
                         IF k = 0 THEN t ELSE terminal_writechar(g[k - 1], PanicMessage[k])]
<1>1. n \in Nat /\ n \in 0 .. n /\ 0 \in 0 .. n
  BY SystemAssumption
<1>2. PICK f : f = Loop(f) /\ u = f[n]
  <2>1. u = (CHOOSE g : g = PrintLoop(t, PanicMessage, n, g))[n]
    BY DEF print, PrintLoop
  <2>2. \E g : g = PrintLoop(t, PanicMessage, n, g)
    BY <1>1, PrintExists
  <2>3. PICK g : g = PrintLoop(t, PanicMessage, n, g) /\ u = g[n]
    BY <2>1, <2>2, Zenon
  <2>4. QED
    BY <2>3 DEF PrintLoop
<1>3. f[0] = t
  BY <1>1, <1>2
<1>4. ASSUME NEW k \in 1 .. n
      PROVE  f[k] = terminal_writechar(f[k - 1], PanicMessage[k])
  BY <1>1, <1>2, <1>4
<1> DEFINE Good(k) == InOrder(f[k]) /\ (k < n => Cursor(f[k]) = k)
           bad == {k \in 0 .. n : ~ Good(k)}
<1>5. ASSUME NEW k \in 1 .. n, Good(k - 1)
      PROVE  Good(k) /\ TextOf(f[k]) = Echoing!Shown(TextOf(f[k - 1]), PanicMessage[k])
  <2>1. InOrder(f[k - 1]) /\ Cursor(f[k - 1]) = k - 1
    BY <1>1, <1>5
  <2>2. f[k] = terminal_writechar(f[k - 1], PanicMessage[k])
    BY <1>4
  <2> HIDE DEF Loop
  <2>3. QED
    BY <2>1, <2>2, MessageStep
<1>6. ASSUME NEW k \in 0 .. n
      PROVE  Good(k)
  <2>1. SUFFICES ASSUME bad # {} PROVE FALSE
    OBVIOUS
  <2>2. PICK m \in bad : \A y \in bad : m <= y
    <3>1. bad \subseteq Nat
      BY <1>1
    <3> HIDE DEF bad
    <3>2. QED
      BY <2>1, <3>1, LeastOf
  <2>3. Good(0)
    BY <1>3
  <2>4. m \in 1 .. n /\ m - 1 \in 0 .. n /\ ~ (m <= m - 1) /\ ~ Good(m)
    <3>1. m \in 0 .. n /\ ~ Good(m)
      OBVIOUS
    <3> HIDE DEF Good
    <3>2. m # 0
      BY <2>3, <3>1
    <3>3. QED
      BY <1>1, <3>1, <3>2
  <2>5. Good(m - 1)
    BY <2>2, <2>4
  <2> HIDE DEF Good
  <2>6. QED
    BY <1>5, <2>4, <2>5
<1> HIDE DEF Good, bad
<1> DEFINE Shows(g) == [k \in 0 .. n |->
                          IF k = 0 THEN << >> ELSE Echoing!Shown(g[k - 1], PanicMessage[k])]
           h == [k \in 0 .. n |-> TextOf(f[k])]
<1>7. TextOf(t) = << >>
  BY DEF TextOf
<1>8. ASSUME NEW k \in 1 .. n
      PROVE  TextOf(f[k]) = Echoing!Shown(TextOf(f[k - 1]), PanicMessage[k])
  <2>1. k - 1 \in 0 .. n
    BY <1>1
  <2>2. QED
    BY <1>5, <1>6, <2>1
<1> HIDE DEF Loop
<1>9. h = Shows(h)
  <2>1. ASSUME NEW k \in 0 .. n
        PROVE  h[k] = IF k = 0 THEN << >> ELSE Echoing!Shown(h[k - 1], PanicMessage[k])
    <3>1. CASE k = 0
      BY <1>3, <1>7, <3>1
    <3>2. CASE k # 0
      <4>1. k \in 1 .. n /\ k - 1 \in 0 .. n
        BY <1>1, <3>2
      <4>2. h[k - 1] = TextOf(f[k - 1])
        BY <4>1
      <4>3. QED
        BY <1>8, <3>2, <4>1, <4>2
    <3>3. QED
      BY <3>1, <3>2
  <2>2. h = [k \in 0 .. n |-> h[k]]
    OBVIOUS
  <2> HIDE DEF h
  <2>3. QED
    BY <2>1, <2>2
<1> DEFINE s == CHOOSE g : g = Shows(g)
<1>10. s = Shows(s)
  <2> HIDE DEF Shows, h
  <2>1. QED
    BY <1>9, Zenon
<1>11. Echoing!Report(PanicMessage) = s[n]
  BY DEF Echoing!Report
<1> HIDE DEF s
<1>12. ASSUME NEW k \in 0 .. n
       PROVE  s[k] = h[k]
  <2> DEFINE wrong == {j \in 0 .. n : s[j] # h[j]}
  <2>1. SUFFICES ASSUME wrong # {} PROVE FALSE
    OBVIOUS
  <2>2. PICK m \in wrong : \A y \in wrong : m <= y
    <3>1. wrong \subseteq Nat
      BY <1>1
    <3> HIDE DEF wrong
    <3>2. QED
      BY <2>1, <3>1, LeastOf
  <2>3. m \in 0 .. n /\ s[m] # h[m]
    OBVIOUS
  <2> HIDE DEF h
  <2>4. s[0] = << >> /\ h[0] = << >>
    BY <1>1, <1>9, <1>10
  <2>5. m \in 1 .. n /\ m - 1 \in 0 .. n /\ ~ (m <= m - 1)
    BY <1>1, <2>3, <2>4
  <2>6. s[m - 1] = h[m - 1]
    BY <2>2, <2>5
  <2>7. /\ s[m] = Echoing!Shown(s[m - 1], PanicMessage[m])
        /\ h[m] = Echoing!Shown(h[m - 1], PanicMessage[m])
    BY <1>9, <1>10, <2>3, <2>5
  <2>8. QED
    BY <2>3, <2>6, <2>7
<1>13. h[n] = TextOf(u)
  BY <1>1, <1>2
<1>14. InOrder(u)
  BY <1>1, <1>2, <1>6 DEF Good
<1>15. QED
  BY <1>1, <1>11, <1>12, <1>13, <1>14

-----------------------------------------------------------------------------
(* What holds before the program runs.                                     *)
LEMMA StartingFacts ==
  ASSUME SystemInv, Starting
  PROVE  /\ ~ Started /\ phase # "panic" /\ Pending = << >> /\ Text = << >>
         /\ Status = "starting" /\ Cursor(terminal) = 0
         /\ Len(port) \in Nat /\ CELLS \in Nat /\ Len(port) <= CELLS
         /\ phase # "terminal_initialize" => InOrder(terminal)
<1>1. ~ Started /\ phase # "panic"
  BY Phases DEF Starting, Started
<1>2. Pending = << >>
  BY <1>1, NothingPending DEF SystemInv, BootInv
<1>3. Cursor(terminal) = 0 /\ Len(port) \in Nat /\ CELLS \in Nat
  BY PortFacts, TerminalAssumption DEF SystemInv, ScreenInv
<1>4. Cursor(terminal) + Len(Pending) + Len(port) <= CELLS
  BY <1>1 DEF SystemInv, ScreenInv, Room
<1>5. Len(Pending) = 0
  BY <1>2
<1>6. Text = << >>
  BY <1>3 DEF Text
<1>7. phase # "terminal_initialize" => InOrder(terminal)
  BY TInvInOrder DEF SystemInv, ScreenInv, TInv
<1>8. QED
  BY <1>1, <1>2, <1>3, <1>4, <1>5, <1>6, <1>7 DEF Status

(* A call of kernel_main that leaves the screen blank.                     *)
LEMMA BootQuiet ==
  ASSUME SystemInv, Starting, Starting', phase' # "terminal_initialize",
         UNCHANGED <<keyVars, userVars, trapVars>>,
         InOrder(terminal'), Cursor(terminal') = 0,
         DOMAIN isr80h_commands' = 0 .. MAX_COMMANDS - 1,
         phase' \in {"keyboard_init", "process_load_switch", "task_run_first_ever_task"}
           => /\ isr80h_commands'[SYSTEM_COMMAND2_GETKEY] = "getkey"
              /\ isr80h_commands'[SYSTEM_COMMAND3_PUTCHAR] = "putchar"
  PROVE  SystemInv' /\ UNCHANGED <<Status, Pending, Text>>
<1>1. /\ UNCHANGED <<port, buffer, head, tail, cpu, user_stack>>
      /\ UNCHANGED <<frame, vector, saved_esp, temp_res, in_service>>
  BY DEF keyVars, userVars, trapVars
<1>2. ~ Started' /\ phase' # "panic"
  BY Phases DEF Starting, Started
<1>3. /\ ~ Started /\ Pending = << >> /\ Text = << >> /\ Status = "starting"
      /\ Len(port) \in Nat /\ CELLS \in Nat /\ Len(port) <= CELLS
  BY StartingFacts
<1>4. TrapTypes'
  BY <1>1 DEF SystemInv, TrapTypes
<1>5. BootInv'
  BY <1>1, <1>2, <1>3 DEF SystemInv, BootInv
<1>6. ProgramInv'
  BY <1>2 DEF ProgramInv
<1>7. KP!KInv'
  BY <1>1, PortFacts, BufferRests DEF SystemInv
<1>8. Pending' = << >>
  <2>1. Carried' = << >>
    BY <1>2, <1>5, NoFrameType DEF BootInv, NoFrame, Started, Carried, Registers
  <2>2. head' = 0 /\ tail' = 0 /\ (0 - 0) % INT_MOD = 0
    BY <1>2, <1>5, SystemAssumption DEF BootInv
  <2>3. Unread' = << >>
    BY <2>2 DEF Unread
  <2>4. QED
    BY <2>1, <2>3 DEF Pending
<1>9. Text' = << >> /\ Status' = "starting"
  BY <1>2 DEF Text, Cursor, Status
<1>10. ScreenInv'
  <2>1. Cursor(terminal)' = 0
    BY DEF Cursor
  <2>2. Len(Pending') = 0 /\ Len(port') = Len(port)
    BY <1>1, <1>8
  <2>3. Cursor(terminal)' + Len(Pending') + Len(port') <= CELLS
    BY <1>3, <2>1, <2>2
  <2>4. TInv'
    BY TInvInOrder
  <2>5. QED
    BY <2>1, <2>3, <2>4 DEF ScreenInv, Room, TInv
<1>11. QED
  BY <1>3, <1>4, <1>5, <1>6, <1>7, <1>8, <1>9, <1>10 DEF SystemInv

(* The four numbers are entered in the table.                              *)
LEMMA RegisterStep ==
  ASSUME BootInv, isr80h_register_commands
  PROVE  /\ DOMAIN isr80h_commands' = 0 .. MAX_COMMANDS - 1
         /\ isr80h_commands'[SYSTEM_COMMAND2_GETKEY] = "getkey"
         /\ isr80h_commands'[SYSTEM_COMMAND3_PUTCHAR] = "putchar"
<1>1. /\ DOMAIN isr80h_commands = 0 .. MAX_COMMANDS - 1
      /\ 2 \in 0 .. MAX_COMMANDS - 1 /\ 3 \in 0 .. MAX_COMMANDS - 1
  BY BootAssumption DEF BootInv, SYSTEM_COMMAND3_PUTCHAR
<1>2. isr80h_commands' = [[[[isr80h_commands EXCEPT ![0] = "sum"] EXCEPT ![1] = "print"]
                           EXCEPT ![2] = "getkey"] EXCEPT ![3] = "putchar"]
  BY DEF isr80h_register_commands, isr80h_register_command, SYSTEM_COMMAND0_SUM,
         SYSTEM_COMMAND1_PRINT, SYSTEM_COMMAND2_GETKEY, SYSTEM_COMMAND3_PUTCHAR
<1>3. QED
  BY <1>1, <1>2 DEF SYSTEM_COMMAND2_GETKEY, SYSTEM_COMMAND3_PUTCHAR

(* A call of kernel_main changes nothing the user sees, or panic reports   *)
(* that the system does not start.                                         *)
LEMMA KernelCallStep ==
  ASSUME SystemInv, KernelCall
  PROVE  SystemInv' /\ [Echoing!Next]_<<Status, Pending, Text>>
<1>1. BootCalls /\ UNCHANGED <<keyVars, userVars, trapVars>>
  BY DEF KernelCall
<1>2. DOMAIN isr80h_commands = 0 .. MAX_COMMANDS - 1
  BY DEF SystemInv, BootInv
<1>3. CASE StartTerminal
  <2>1. /\ phase = "terminal_initialize" /\ phase' = "fs_init"
        /\ terminal' = terminal_initialize /\ isr80h_commands' = isr80h_commands
    BY <1>3, Phases DEF StartTerminal, Call
  <2>2. Starting /\ Starting'
    BY <2>1, Phases DEF Starting
  <2>3. InOrder(terminal') /\ Cursor(terminal') = 0
    BY <2>1, BlankStart
  <2>4. QED
    BY <1>1, <1>2, <2>1, <2>2, <2>3, BootQuiet
<1>4. CASE fs_init \/ disk_search_and_init \/ fat16_resolve
  <2>1. /\ phase \in {"fs_init", "disk_search_and_init"} \cup Resolving
        /\ phase' \in {"disk_search_and_init", "isr80h_register_commands"} \cup Resolving
        /\ terminal' = terminal /\ isr80h_commands' = isr80h_commands
    <3>1. CASE fs_init \/ disk_search_and_init
      BY <3>1, Phases DEF fs_init, disk_search_and_init, fs_resolve, Call, Resolve
    <3>2. CASE fat16_resolve
      BY <3>2, Phases DEF fat16_resolve, fat16_init_private, NoStream, HeaderRefused, HeaderKnown,
                          RootDirectoryFails, RootDirectoryRead, out, Resolve
    <3>3. QED
      BY <1>4, <3>1, <3>2
  <2>2. Starting /\ Starting' /\ phase # "terminal_initialize"
    BY <2>1, Phases DEF Starting
  <2>3. InOrder(terminal') /\ Cursor(terminal') = 0
    BY <2>1, <2>2, StartingFacts
  <2>4. phase' \notin {"terminal_initialize", "keyboard_init", "process_load_switch",
                       "task_run_first_ever_task"}
    BY <2>1, Phases
  <2>5. DOMAIN isr80h_commands' = 0 .. MAX_COMMANDS - 1
    BY <1>2, <2>1
  <2>6. QED
    BY <1>1, <2>2, <2>3, <2>4, <2>5, BootQuiet
<1>5. CASE isr80h_register_commands
  <2>1. /\ phase = "isr80h_register_commands" /\ phase' = "keyboard_init"
        /\ terminal' = terminal
    BY <1>5, Phases DEF isr80h_register_commands, Call
  <2>2. Starting /\ Starting' /\ phase # "terminal_initialize"
    BY <2>1, Phases DEF Starting
  <2>3. InOrder(terminal') /\ Cursor(terminal') = 0
    BY <2>1, <2>2, StartingFacts
  <2>4. /\ DOMAIN isr80h_commands' = 0 .. MAX_COMMANDS - 1
        /\ isr80h_commands'[SYSTEM_COMMAND2_GETKEY] = "getkey"
        /\ isr80h_commands'[SYSTEM_COMMAND3_PUTCHAR] = "putchar"
    BY <1>5, RegisterStep DEF SystemInv
  <2>5. QED
    BY <1>1, <2>1, <2>2, <2>3, <2>4, BootQuiet
<1>6. CASE keyboard_init \/ process_load_switch
  <2>1. /\ phase \in {"keyboard_init", "process_load_switch"}
        /\ phase' \in {"process_load_switch", "task_run_first_ever_task"}
        /\ terminal' = terminal /\ isr80h_commands' = isr80h_commands
    BY <1>6, Phases DEF keyboard_init, process_load_switch, Call
  <2>2. Starting /\ Starting' /\ phase # "terminal_initialize"
    BY <2>1, Phases DEF Starting
  <2>3. InOrder(terminal') /\ Cursor(terminal') = 0
    BY <2>1, <2>2, StartingFacts
  <2>4. /\ isr80h_commands[SYSTEM_COMMAND2_GETKEY] = "getkey"
        /\ isr80h_commands[SYSTEM_COMMAND3_PUTCHAR] = "putchar"
    BY <2>1 DEF SystemInv, BootInv
  <2>5. QED
    BY <1>1, <1>2, <2>1, <2>2, <2>3, <2>4, BootQuiet
<1>7. CASE panic
  <2>1. /\ phase = "process_load_switch" /\ phase' = "panic"
        /\ terminal' = print(terminal, PanicMessage) /\ isr80h_commands' = isr80h_commands
    BY <1>7 DEF panic
  <2>2. Starting /\ ~ Starting' /\ ~ Started'
    BY <2>1, Phases DEF Starting, Started
  <2>3. /\ InOrder(terminal) /\ Cursor(terminal) = 0 /\ Status = "starting" /\ ~ Started
        /\ Pending = << >>
    BY <2>1, <2>2, StartingFacts
  <2>4. InOrder(terminal') /\ TextOf(terminal') = Echoing!Report(PanicMessage)
    BY <2>1, <2>3, PanicPrints
  <2>5. /\ UNCHANGED <<port, buffer, head, tail, cpu, user_stack>>
        /\ UNCHANGED <<frame, vector, saved_esp, temp_res, in_service>>
    BY <1>1 DEF keyVars, userVars, trapVars
  <2>6. TrapTypes'
    BY <2>5 DEF SystemInv, TrapTypes
  <2>7. BootInv'
    BY <2>1, <2>2, <2>3, <2>5 DEF SystemInv, BootInv
  <2>8. ProgramInv'
    BY <2>2 DEF ProgramInv
  <2>9. KP!KInv' /\ Unread' = Unread
    BY <2>5, PortFacts, BufferRests DEF SystemInv
  <2>10. Carried' = Carried
    BY <2>1, <2>5 DEF Carried, Registers, NonZero
  <2>11. Pending' = Pending
    BY <2>9, <2>10 DEF Pending
  <2>12. ScreenInv'
    BY <2>1, <2>2, <2>4, TInvInOrder DEF ScreenInv, Room, TInv
  <2>13. Status' = "failed" /\ Text' = Echoing!Report(PanicMessage)
    BY <2>1, <2>4, TInvInOrder DEF Status
  <2>14. Echoing!Fail
    BY <2>3, <2>11, <2>13 DEF Echoing!Fail
  <2>15. QED
    BY <2>6, <2>7, <2>8, <2>9, <2>12, <2>14 DEF SystemInv, Echoing!Next
<1>8. QED
  BY <1>1, <1>3, <1>4, <1>5, <1>6, <1>7 DEF BootCalls

(* The first task begins at the program's loop with an empty stack.        *)
LEMMA FirstTaskStep ==
  ASSUME SystemInv, task_run_first_ever_task
  PROVE  SystemInv' /\ Echoing!Start
<1>1. /\ phase = "task_run_first_ever_task" /\ phase' = "user"
      /\ cpu' = [cpu EXCEPT !.ip = LOOP]
      /\ UNCHANGED <<terminal, isr80h_commands, port, buffer, head, tail, user_stack>>
      /\ UNCHANGED <<frame, vector, saved_esp, temp_res, in_service>>
  BY Phases DEF task_run_first_ever_task, Call, keyVars, trapVars
<1>2. Starting /\ ~ Starting' /\ Started' /\ phase # "terminal_initialize"
  BY <1>1, Phases DEF Starting, Started
<1>3. /\ ~ Started /\ Pending = << >> /\ Status = "starting" /\ phase # "panic"
      /\ Len(port) \in Nat /\ CELLS \in Nat /\ Len(port) <= CELLS
      /\ Cursor(terminal) = 0 /\ InOrder(terminal)
  BY <1>2, StartingFacts
<1>4. cpu = NoFrame /\ head = 0 /\ tail = 0
  BY <1>3 DEF SystemInv, BootInv
<1>5. cpu' \in RegisterSet /\ cpu'.ip = 1 /\ cpu'.esp = 2
  BY <1>1, <1>4, NoFrameType DEF RegisterSet, LOOP
<1>6. TrapTypes'
  BY <1>1, <1>5 DEF SystemInv, TrapTypes
<1>7. BootInv'
  BY <1>1, <1>2 DEF SystemInv, BootInv
<1>8. ProgramInv'
  <2>1. Runs(cpu)'
    BY <1>5 DEF Runs
  <2>2. QED
    BY <1>1, <2>1 DEF ProgramInv, InSystemCall, Registers, Runs
<1>9. KP!KInv' /\ Unread' = Unread
  BY <1>1, PortFacts, BufferRests DEF SystemInv
<1>10. Pending' = << >>
  <2>1. Carried' = << >>
    BY <1>1, <1>5 DEF Carried, Registers
  <2>2. (0 - 0) % INT_MOD = 0
    BY SystemAssumption
  <2>3. Unread' = << >>
    BY <1>1, <1>4, <2>2 DEF Unread
  <2>4. QED
    BY <2>1, <2>3 DEF Pending
<1>11. /\ Text' = Text /\ Cursor(terminal)' = Cursor(terminal)
       /\ TerminalTypeOK' = TerminalTypeOK /\ BlankAhead' = BlankAhead
  BY <1>1 DEF Text, Cursor, TerminalTypeOK, BlankAhead
<1>12. ScreenInv'
  <2>1. Len(Pending') = 0 /\ Len(port') = Len(port)
    BY <1>1, <1>10
  <2>2. Cursor(terminal)' + Len(Pending') + Len(port') <= CELLS
    BY <1>3, <1>11, <2>1
  <2>3. QED
    BY <1>2, <1>11, <2>2 DEF SystemInv, ScreenInv, Room
<1>13. Status' = "running"
  BY <1>1 DEF Status, Started
<1>14. Echoing!Start
  BY <1>3, <1>10, <1>11, <1>13 DEF Echoing!Start
<1>15. QED
  BY <1>6, <1>7, <1>8, <1>9, <1>12, <1>14 DEF SystemInv

(* Nothing changes, in panic's endless loop too.                           *)
LEMMA SystemStutters ==
  ASSUME SystemInv, UNCHANGED systemVars
  PROVE  SystemInv' /\ UNCHANGED <<Status, Pending, Text>>
<1>1. /\ UNCHANGED <<terminal, phase, isr80h_commands, port, buffer, head, tail>>
      /\ UNCHANGED <<cpu, user_stack, frame, vector, saved_esp, temp_res, in_service>>
  BY DEF systemVars, bootVars, keyVars, userVars, trapVars
<1>2. KP!KInv' /\ Unread' = Unread
  BY <1>1, PortFacts, BufferRests DEF SystemInv
<1>3. Carried' = Carried /\ Status' = Status /\ Starting' = Starting /\ Started' = Started
  BY <1>1 DEF Carried, Registers, NonZero, Status, Starting, Started
<1>4. Pending' = Pending
  BY <1>2, <1>3 DEF Pending
<1>5. /\ Text' = Text /\ Cursor(terminal)' = Cursor(terminal)
      /\ TerminalTypeOK' = TerminalTypeOK /\ BlankAhead' = BlankAhead
  BY <1>1 DEF Text, Cursor, TerminalTypeOK, BlankAhead
<1>6. ScreenInv'
  BY <1>1, <1>3, <1>4, <1>5 DEF SystemInv, ScreenInv, Room
<1>7. TrapTypes' /\ BootInv'
  BY <1>1, <1>3 DEF SystemInv, TrapTypes, BootInv
<1>8. ProgramInv'
  BY <1>1, <1>3 DEF SystemInv, ProgramInv, InSystemCall, Calls, Runs, Registers
<1>9. QED
  BY <1>2, <1>3, <1>4, <1>5, <1>6, <1>7, <1>8 DEF SystemInv

-----------------------------------------------------------------------------
(* One step of the system, by its actor.                                   *)
LEMMA SystemNextInv ==
  ASSUME SystemInv, [SystemNext]_systemVars
  PROVE  SystemInv' /\ [Echoing!Next]_<<Status, Pending, Text>>
<1>1. CASE KernelCall
  BY <1>1, KernelCallStep
<1>2. CASE task_run_first_ever_task
  BY <1>2, FirstTaskStep DEF Echoing!Next
<1>3. CASE Instruction
  <2>1. CASE int_putchar \/ int_getkey
    BY <2>1, SystemCallStep
  <2>2. CASE ~ (int_putchar \/ int_getkey)
    <3>1. phase' = "user"
      BY <1>3, <2>2
         DEF Instruction, call_getkey, push_eax, mov_eax_3, add_esp_4, jmp_loop, mov_eax_2,
             cmp_eax_0, je_getkey, mov_message_al, ret, At, Computes, Pushes, bootVars
    <3>2. QED
      BY <1>3, <3>1, InstructionStep
  <2>3. QED
    BY <2>1, <2>2
<1>4. CASE KeyboardInterrupt \/ TimerInterrupt
  BY <1>4, InterruptStep
<1>5. CASE interrupt_handler
  BY <1>5, HandlerStep
<1>6. CASE isr80h_handler
  <2>1. \/ frame.eax = SYSTEM_COMMAND2_GETKEY /\ isr80h_command2_getkey
        \/ frame.eax = SYSTEM_COMMAND3_PUTCHAR /\ isr80h_command3_putchar
    BY <1>6, CommandFacts
  <2>2. CASE frame.eax = SYSTEM_COMMAND2_GETKEY /\ isr80h_command2_getkey
    BY <1>6, <2>2, GetkeyStep
  <2>3. CASE frame.eax = SYSTEM_COMMAND3_PUTCHAR /\ isr80h_command3_putchar
    BY <1>6, <2>3, PutcharStep DEF Echoing!Next
  <2>4. QED
    BY <2>1, <2>2, <2>3
<1>7. CASE Leave
  BY <1>7, LeaveStep
<1>8. CASE \E scancode \in Scancodes : KeyStroke(scancode)
  BY <1>8, StrokeStep
<1>9. CASE Halted \/ UNCHANGED systemVars
  BY <1>9, SystemStutters DEF Halted
<1>10. QED
  BY <1>1, <1>2, <1>3, <1>4, <1>5, <1>6, <1>7, <1>8, <1>9 DEF SystemNext

(* The invariant holds in every state of the system.                       *)
LEMMA SystemInvariant == SystemSpec => []SystemInv
<1>1. SystemInit => SystemInv
  BY SystemInitInv
<1>2. SystemInv /\ [SystemNext]_systemVars => SystemInv'
  BY SystemNextInv
<1>3. QED
  BY <1>1, <1>2, PTL DEF SystemSpec

(* The registers, the program's stack and what the kernel keeps of them    *)
(* have their types, whatever the wrappers, task_save_state and the        *)
(* handlers saved and restored.                                            *)
THEOREM SystemTypes == SystemSpec => []SystemTypeOK
<1>1. SystemInv => SystemTypeOK
  <2> SUFFICES ASSUME SystemInv PROVE SystemTypeOK
    OBVIOUS
  <2>1. TerminalTypeOK /\ temp_res \in Keyboard!Keys \cup {0}
    BY PortFacts DEF SystemInv, ScreenInv, Keys
  <2>2. phase \in DOMAIN kernel_main \cup Resolving \cup {"user", "handler", "return", "panic"}
    BY DEF SystemInv, BootInv, Starting, Started
  <2>3. /\ cpu \in RegisterSet /\ frame \in RegisterSet
        /\ DOMAIN user_stack = 0 .. STACK_START /\ user_stack[STACK_START] = 0
        /\ saved_esp \in 0 .. STACK_START
        /\ vector \in {0, TIMER, KEYBOARD, SYSTEM_CALL} /\ in_service \in BOOLEAN
    BY DEF SystemInv, TrapTypes
  <2>4. ASSUME NEW r \in RegisterSet
        PROVE  /\ r.ip \in 0 .. 12 /\ r.esp \in 0 .. STACK_START /\ r.zf \in BOOLEAN
               /\ r.eax \in Keyboard!Keys \cup {0, SYSTEM_COMMAND2_GETKEY, SYSTEM_COMMAND3_PUTCHAR}
    BY <2>4 DEF RegisterSet, Keys
  <2>5. \A r \in {cpu, frame} :
          /\ r.ip \in 0 .. 12 /\ r.esp \in 0 .. STACK_START /\ r.zf \in BOOLEAN
          /\ r.eax \in Keyboard!Keys \cup {0, SYSTEM_COMMAND2_GETKEY, SYSTEM_COMMAND3_PUTCHAR}
    BY <2>3, <2>4, Zenon
  <2>6. QED
    BY <2>1, <2>2, <2>3, <2>5, Zenon DEF SystemTypeOK
<1>2. QED
  BY <1>1, SystemInvariant, PTL

(* Once terminal_initialize has run, the screen is blank from the cursor   *)
(* on, whatever keys isr80h_command3_putchar has shown and after panic.    *)
THEOREM ScreenStaysInOrder == SystemSpec => []ScreenInOrder
<1>1. SystemInv => ScreenInOrder
  BY DEF SystemInv, ScreenInv, ScreenInOrder
<1>2. QED
  BY <1>1, SystemInvariant, PTL

(* The kernel, its interrupts and the program blank implement the echo:    *)
(* every key keyboard_push stored is shown by putchar, in order and once,  *)
(* wherever interrupt_handler and isr80h_handler fall between the          *)
(* program's instructions; a start that fails shows panic's message.       *)
THEOREM SystemImplementsEcho == SystemSpec => ImplementsEcho
<1>1. SystemInit => Echoing!Init
  BY SystemInitInv
<1>2. SystemInv /\ [SystemNext]_systemVars => [Echoing!Next]_<<Status, Pending, Text>>
  BY SystemNextInv
<1>3. QED
  BY <1>1, <1>2, SystemInvariant, PTL
     DEF SystemSpec, ImplementsEcho, Echoing!Spec, Echoing!vars
=============================================================================
