----------------------------- MODULE OpenFiles ------------------------------
(***************************************************************************)
(* What file.h offers its callers: handles on files.  A handle stands for  *)
(* one file and one position in it from the call that opened it to the one *)
(* that closes it, whatever happens to other handles in between.           *)
(***************************************************************************)
EXTENDS Integers

CONSTANTS
  Handles,       \* positive numbers
  SizeOf,        \* the size of each file that can be opened
  Offsets,       \* what callers pass to a seek
  POS_MOD,       \* positions wrap at this number
  NOTHING        \* no file

Files == DOMAIN SizeOf

VARIABLES
  open,          \* the file and the position behind each open handle
  answer         \* the call, its value and the file it came from

vars == <<open, answer>>

Answer(call, val, file) == [call |-> call, val |-> val, file |-> file]
Errors == {Answer(c, -e, NOTHING) : c \in {"fread", "fseek", "fstat", "fclose"}, e \in 1 .. 8}

Init == open = << >> /\ answer = Answer("none", 0, NOTHING)

Open(h, f) ==
  /\ h \notin DOMAIN open
  /\ open' = [g \in DOMAIN open \cup {h} |->
                IF g = h THEN [file |-> f, pos |-> 0] ELSE open[g]]
  /\ answer' = Answer("fopen", h, NOTHING)

OpenFails == answer' = Answer("fopen", 0, NOTHING) /\ UNCHANGED open

Fails == answer' \in Errors /\ UNCHANGED open

Read(h) ==
  /\ answer' = Answer("fread", open[h].pos, open[h].file)
  /\ UNCHANGED open

Stat(h) ==
  /\ answer' = Answer("fstat", SizeOf[open[h].file], NOTHING)
  /\ UNCHANGED open

(* An offset beyond the file is refused; a relative one is added.          *)
Seek(h, offset) ==
  /\ offset % POS_MOD < SizeOf[open[h].file]
  /\ \E p \in {offset % POS_MOD, (open[h].pos + offset) % POS_MOD} :
       open' = [open EXCEPT ![h].pos = p]
  /\ answer' = Answer("fseek", 0, NOTHING)

Close(h) ==
  /\ open' = [g \in DOMAIN open \ {h} |-> open[g]]
  /\ answer' = Answer("fclose", 0, NOTHING)

Next ==
  \/ \E h \in Handles, f \in Files : Open(h, f)
  \/ OpenFails
  \/ Fails
  \/ \E h \in DOMAIN open :
       Read(h) \/ Stat(h) \/ Close(h) \/ (\E offset \in Offsets : Seek(h, offset))

Spec == Init /\ [][Next]_vars
=============================================================================
