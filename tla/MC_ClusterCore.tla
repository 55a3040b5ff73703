--------------------------- MODULE MC_ClusterCore ---------------------------
(* Two members listed in id order, this node is 1; one backend, which can  *)
(* remove a node both before and after loading an engine of its own; two   *)
(* elections.                                                              *)
EXTENDS ClusterCore

CONSTANTS b1

MC_Members == {1, 2}
MC_Order == <<1, 2>>
MC_Backends == {b1}
=============================================================================
