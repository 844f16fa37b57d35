------------------------------ MODULE KeyQueue ------------------------------
(***************************************************************************)
(* What the keyboard promises the running program: the keys typed and not  *)
(* yet read form a queue of bounded length, read in the order they were    *)
(* typed.  Reading an empty queue answers 0.                               *)
(***************************************************************************)
EXTENDS Integers, Sequences

CONSTANTS
  Keys,      \* what a key press can put in the queue
  Capacity   \* the largest number of unread keys

VARIABLES
  queue,     \* the keys typed and not read, the oldest first
  answer     \* what the last read returned

vars == <<queue, answer>>

Init == queue = << >> /\ answer = 0

Press(c) ==
  /\ Len(queue) < Capacity
  /\ queue' = Append(queue, c)
  /\ UNCHANGED answer

Read ==
  /\ queue # << >>
  /\ answer' = Head(queue)
  /\ queue' = Tail(queue)

ReadNothing ==
  /\ queue = << >>
  /\ answer' = 0
  /\ UNCHANGED queue

(* The youngest unread key is taken back.                                  *)
Erase ==
  /\ queue # << >>
  /\ queue' = SubSeq(queue, 1, Len(queue) - 1)
  /\ UNCHANGED answer

Next == (\E c \in Keys : Press(c)) \/ Read \/ ReadNothing \/ Erase

Spec == Init /\ [][Next]_vars
=============================================================================
