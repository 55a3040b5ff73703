----------------------------- MODULE MC_KVStore -----------------------------
(* TLC instance of KVStore: two processes (the apply callback and a SQL    *)
(* backend), two keys so that a tombstone of one key sits beside the live  *)
(* entry of another, a two-slot array so that tombstones fill it.        *)
EXTENDS KVStore

CONSTANTS apply_cb, backend, k1, k2, v1, v2

MC_Procs == {apply_cb, backend}
MC_Keys == {k1, k2}
MC_Values == {v1}
MC_LogIndexes == {0}
MC_StoreCapacity == 2
MC_MaxVersion == 2
=============================================================================
