----------------------------- MODULE TextScreen -----------------------------
(***************************************************************************)
(* What the terminal promises: the text printed so far, cell by cell from  *)
(* the top left corner of the screen.  A glyph is added behind it, a new   *)
(* line fills the line up with blanks, and an erase takes the last cell    *)
(* away, across the ends of lines.                                         *)
(***************************************************************************)
EXTENDS Integers, Sequences

CONSTANTS
  Glyphs,    \* what a cell can show
  Width,     \* cells of a line
  Capacity   \* cells there is memory for

CONSTANT Space

VARIABLE text

Added(t, c) == Append(t, c)
Erased(t) == IF t = << >> THEN t ELSE SubSeq(t, 1, Len(t) - 1)
NewLined(t) ==
  [k \in 1 .. (Len(t) \div Width + 1) * Width |-> IF k <= Len(t) THEN t[k] ELSE Space]

Init == text = << >>

Put(c) == Len(text) < Capacity /\ text' = Added(text, c)
Erase == text' = Erased(text)
NewLine == text' = NewLined(text)

Next == (\E c \in Glyphs : Put(c)) \/ Erase \/ NewLine

Spec == Init /\ [][Next]_text
=============================================================================
