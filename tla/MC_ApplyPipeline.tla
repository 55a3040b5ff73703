-------------------------- MODULE MC_ApplyPipeline --------------------------
(* TLC instance of ApplyPipeline: the callback thread and one SQL backend, *)
(* two keys and two values, a two-slot store.  The commit stream puts k1,  *)
(* runs SQL, updates k1 to a new value, puts k2, deletes k1 and puts it    *)
(* again (which finds the store full of a tombstone and k2 until a         *)
(* compaction), deletes k2, and ends with a second delete of k2, which     *)
(* finds no live entry and raises ERROR.                                   *)
EXTENDS ApplyPipeline

CONSTANTS apply_cb, backend, k1, k2, v1, v2

MC_Procs == {apply_cb, backend}
MC_Keys == {k1, k2}
MC_Values == {v1, v2}
MC_LogIndexes == {0}
MC_StoreCapacity == 2
MC_MaxVersion == 4
MC_Stream == << PutOp(k1, v1), SqlOp, PutOp(k1, v2), PutOp(k2, v1),
                DeleteOp(k1), PutOp(k1, v1), DeleteOp(k2), DeleteOp(k2) >>
MC_BothPaths == {"callback", "queue"}
MC_CallbackPath == {"callback"}
MC_QueuePath == {"queue"}
MC_ApplyQueueSize == 1
MC_MaxRestarts == 1
=============================================================================
