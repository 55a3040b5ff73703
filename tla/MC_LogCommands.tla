--------------------------- MODULE MC_LogCommands ---------------------------
(* TLC instance of LogCommands: a two-slot log (so that an append meets a  *)
(* full log), three appends in all, a two-slot command queue, and a 3-bit  *)
(* int so that the argument 9 = 2^3 + 1 reaches the log as 1, the way     *)
(* 2^32 + 1 does with a 32-bit int; -1 is an index never appended.        *)
EXTENDS LogCommands

MC_IntWidth == 3
MC_SqlArgs == {-1, 1, 2, 9}
MC_Terms == {IntCast(a) : a \in MC_SqlArgs}
=============================================================================
