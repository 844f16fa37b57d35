-------------------------- MODULE MCKeyboardBuffer --------------------------
(* A keyboard whose table has three entries: one without a character and   *)
(* two with one.                                                           *)
EXTENDS KeyboardBuffer

MCScanSetOne == [s \in 0 .. 2 |-> s]
=============================================================================
