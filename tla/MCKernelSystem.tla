--------------------------- MODULE MCKernelSystem ---------------------------
(* A keyboard with a glyph and the backspace key, a screen of one line of  *)
(* two cells with memory for one more behind it, and a report of a glyph   *)
(* and a new line.                                                         *)
EXTENDS KernelSystem, TLC

MCScanSetOne == 0 :> 0 @@ 1 :> 65 @@ 2 :> BACKSPACE
MCPanicMessage == <<65, NEWLINE>>
=============================================================================
