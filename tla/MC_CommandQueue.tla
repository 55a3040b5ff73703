--------------------------- MODULE MC_CommandQueue ---------------------------
(* TLC instance of CommandQueue: two SQL backends, three commands and a    *)
(* two-slot queue, so that the queue fills, the full check refuses, both   *)
(* buffers wrap around, and the status buffer evicts; two clock values, so *)
(* that two commands share a second or not.                                *)
EXTENDS CommandQueue

CONSTANTS b1, b2, c1, c2, c3, zero

MC_Producers == {b1, b2}
MC_OneProducer == {b1}
MC_Commands == {c1, c2, c3}
MC_MaxCommands == 2
MC_MaxTime == 1
=============================================================================
