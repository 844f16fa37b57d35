-------------------------------- MODULE Echo --------------------------------
(***************************************************************************)
(* What the running system promises its user: it starts, or reports why    *)
(* not; the keys it accepts are shown on the screen one by one, in the     *)
(* order they were accepted and each exactly once.                         *)
(***************************************************************************)
EXTENDS Integers, Sequences

CONSTANTS
  Keys,        \* what can be accepted
  Width,       \* cells of a line of the screen
  Capacity,    \* cells there is memory for
  Glyphs,
  Space,
  Message,     \* the report of a failed start
  EraseKey,    \* the key that takes the last cell away
  LineFeed     \* the character that ends a line

VARIABLES
  status,      \* "starting", "running" or "failed"
  pending,     \* the keys accepted and not shown, the oldest first
  text         \* what the screen shows before its cursor

vars == <<status, pending, text>>

Screen == INSTANCE TextScreen

Shown(t, c) ==
  IF c = EraseKey THEN Screen!Erased(t)
  ELSE IF c = LineFeed THEN Screen!NewLined(t)
  ELSE Screen!Added(t, c)

(* What a blank screen shows after str.                                    *)
Report(str) ==
  LET shown[k \in 0 .. Len(str)] == IF k = 0 THEN << >> ELSE Shown(shown[k - 1], str[k])
  IN  shown[Len(str)]

Init == status = "starting" /\ pending = << >> /\ text = << >>

Start == status = "starting" /\ status' = "running" /\ UNCHANGED <<pending, text>>

Fail ==
  /\ status = "starting" /\ status' = "failed"
  /\ text' = Report(Message)
  /\ UNCHANGED pending

Accept(c) ==
  /\ status = "running"
  /\ pending' = Append(pending, c)
  /\ UNCHANGED <<status, text>>

Show ==
  /\ status = "running" /\ pending # << >>
  /\ text' = Shown(text, Head(pending))
  /\ pending' = Tail(pending)
  /\ UNCHANGED status

Next == Start \/ Fail \/ (\E c \in Keys : Accept(c)) \/ Show

Spec == Init /\ [][Next]_vars
=============================================================================
