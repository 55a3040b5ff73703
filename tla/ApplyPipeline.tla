--------------------------- MODULE ApplyPipeline ---------------------------
(***************************************************************************)
(* The apply pipeline of pgraft: the consensus engine hands each committed *)
(* entry to one of the two entry points the extension exports, and the     *)
(* entry reaches the key/value store of KVStore or the SQL executor.       *)
(*                                                                         *)
(*  - pgraft_go_apply_callback (pgraft_go_apply.c) calls                   *)
(*    pgraft_apply_entry_to_postgres (pgraft_apply.c): a JSON payload      *)
(*    goes to pgraft_apply_kv_operation, which calls pgraft_kv_put_local   *)
(*    or pgraft_kv_delete_local (pgraft_kv.c, log index 0); any other      *)
(*    payload is run through SPI; on success the index is recorded in      *)
(*    worker_state->last_applied_index by pgraft_record_applied_index.     *)
(*  - pgraft_enqueue_for_apply_from_go (pgraft_go_callbacks.c) calls       *)
(*    pgraft_enqueue_apply_entry (pgraft_util.c), which puts the entry on  *)
(*    the apply queue.  Nothing in the extension calls                     *)
(*    pgraft_dequeue_apply_entry, so that queue is only ever filled.       *)
(*                                                                         *)
(* The callback runs on a thread of the engine inside the background       *)
(* worker; it is the process ApplyProc of KVStore, and its put or delete   *)
(* is followed by its own save (SaveOpen, SaveWrite, SaveClose) before it  *)
(* returns.  Other processes (SQL backends) may compact the store and save *)
(* it meanwhile.                                                           *)
(*                                                                         *)
(* An elog(ERROR) on this path has no handler to return to and becomes     *)
(* FATAL: the worker exits and the postmaster starts it again, keeping     *)
(* shared memory.  The engine is not part of this repository; it is       *)
(* modelled by the contract of the specification (sections 4.2 and 4.4):   *)
(* it delivers committed entries in index order, delivers an entry again   *)
(* when the entry point returns -1, and after a restart resumes after the  *)
(* store's last_applied_index.                                             *)
(***************************************************************************)
EXTENDS KVStore

CONSTANTS
  ApplyProc,       \* the engine's thread running the commit callback
  Stream,          \* the committed entries, in index order (index = position)
  Paths,           \* the entry points the engine calls: "callback", "queue"
  ApplyQueueSize,  \* MAX_APPLY_ENTRIES
  MaxRestarts      \* bound on worker restarts and crashes

(* Payloads, abstracted to what the pipeline tells apart.                  *)
PutOp(k, v)  == [type |-> "kv_put", key |-> k, value |-> v]
DeleteOp(k)  == [type |-> "kv_delete", key |-> k]
SqlOp        == [type |-> "sql"]
Payload == {PutOp(k, v) : k \in Keys, v \in Values}
             \cup {DeleteOp(k) : k \in Keys} \cup {SqlOp}

ASSUME ApplyAssumption ==
  /\ ApplyProc \in Procs
  /\ Stream \in Seq(Payload)
  /\ Paths \subseteq {"callback", "queue"}
  /\ ApplyQueueSize \in Nat \ {0}
  /\ MaxRestarts \in Nat
  /\ 0 \in LogIndexes

VARIABLES
  applied_index,  \* worker_state->last_applied_index
  next,           \* the engine: index of the next entry it hands over
  apc,            \* the callback: "idle", or "saving" its mutation
  cur,            \* the index the callback is applying
  apply_queue,    \* the apply queue from apply_head, apply_count entries
  effects,        \* history: indices whose effect reached local state
  restarts        \* worker restarts and crashes so far

apvars == <<applied_index, next, apc, cur, apply_queue, effects, restarts>>
vars == <<kvvars, apvars>>

----------------------------------------------------------------------------
Init ==
  /\ KVInit
  /\ applied_index = 0
  /\ next = 1
  /\ apc = "idle"
  /\ cur = 0
  /\ apply_queue = << >>
  /\ effects = << >>
  /\ restarts = 0

(* The engine hands entry next to pgraft_go_apply_callback.               *)
Handing(i) ==
  /\ "callback" \in Paths
  /\ apc = "idle"
  /\ i = next
  /\ i <= Len(Stream)

(* The mutation is done; the store is being saved, then the index is       *)
(* recorded.                                                               *)
Mutated(i) ==
  /\ apc' = "saving"
  /\ cur' = i
  /\ effects' = Append(effects, i)
  /\ UNCHANGED <<applied_index, next, apply_queue, restarts>>

(* Faulty variant of the put below: the entry is appended as if new, the  *)
(* way an insert that does not look for the key first would do.            *)
ApplyPutAppend(i) ==
  LET op == Stream[i] IN
  /\ Handing(i)
  /\ op.type = "kv_put"
  /\ PutAppendAlways(ApplyProc, op.key, op.value, 0)
  /\ Mutated(i)

(* pgraft_apply_kv_operation, PUT: pgraft_kv_put_local(key, value), which  *)
(* is pgraft_kv_put(key, value, 0), updating or creating the entry.        *)
ApplyPut(i) ==
  LET op == Stream[i] IN
  /\ Handing(i)
  /\ op.type = "kv_put"
  /\ \/ PutUpdate(ApplyProc, op.key, op.value, 0)
     \/ PutCreate(ApplyProc, op.key, op.value, 0)
  /\ Mutated(i)

(* pgraft_apply_kv_operation, DELETE: pgraft_kv_delete_local(key).         *)
ApplyDelete(i) ==
  LET op == Stream[i] IN
  /\ Handing(i)
  /\ op.type = "kv_delete"
  /\ Delete(ApplyProc, op.key, 0)
  /\ Mutated(i)

(* pgraft_apply_entry_to_postgres, SQL payload: parsed and run by          *)
(* SPI_execute.  Only success is a step: a parse or SPI failure returns -1 *)
(* with nothing changed, and the engine hands the same entry over again.   *)
ApplySql(i) ==
  /\ Handing(i)
  /\ Stream[i].type = "sql"
  /\ apc' = "saving"
  /\ cur' = i
  /\ effects' = Append(effects, i)
  /\ UNCHANGED <<kvvars, applied_index, next, apply_queue, restarts>>

(* The engine restarts and resumes after the store's last_applied_index.   *)
Resume(lai) == next' = lai + 1

(* An elog(ERROR) on the KV path: a put that finds no live entry and a     *)
(* full store, or a delete that finds no live entry (pgraft_kv_delete      *)
(* returns -1 and pgraft_apply_kv_operation raises ERROR).  The worker     *)
(* exits; shared memory, the store and applied_index stay.                 *)
ApplyFatal(i) ==
  LET op == Stream[i] IN
  /\ Handing(i)
  /\ op.type \in {"kv_put", "kv_delete"}
  /\ FindEntry(op.key) = 0
  /\ op.type = "kv_put" => Len(entries) >= StoreCapacity
  /\ restarts < MaxRestarts
  /\ restarts' = restarts + 1
  /\ Resume(last_applied_index)
  /\ UNCHANGED <<kvvars, applied_index, apc, cur, apply_queue, effects>>

(* Back from pgraft_kv_put/pgraft_kv_delete after their save, or from      *)
(* SPI: pgraft_record_applied_index(raft_index) assigns the index, the     *)
(* callback returns 0 and the engine moves on.                             *)
RecordApplied ==
  /\ apc = "saving"
  /\ pc[ApplyProc] = "idle"
  /\ applied_index' = cur
  /\ next' = cur + 1
  /\ apc' = "idle"
  /\ UNCHANGED <<kvvars, cur, apply_queue, effects, restarts>>

(* Faulty variant of the enqueue below, without the check on apply_count. *)
EnqueueNoFullCheck(i) ==
  /\ "queue" \in Paths
  /\ apc = "idle"
  /\ i = next
  /\ i <= Len(Stream)
  /\ apply_queue' = Append(apply_queue, i)
  /\ next' = i + 1
  /\ UNCHANGED <<kvvars, applied_index, apc, cur, effects, restarts>>

(* pgraft_enqueue_apply_entry: refused while apply_count is at             *)
(* MAX_APPLY_ENTRIES (-1, the engine tries again); otherwise the entry is  *)
(* copied into the slot at apply_tail and 0 returned.                      *)
Enqueue(i) ==
  /\ "queue" \in Paths
  /\ apc = "idle"
  /\ i = next
  /\ i <= Len(Stream)
  /\ Len(apply_queue) < ApplyQueueSize
  /\ apply_queue' = Append(apply_queue, i)
  /\ next' = i + 1
  /\ UNCHANGED <<kvvars, applied_index, apc, cur, effects, restarts>>

(* A backend crash: the postmaster re-creates shared memory (worker state, *)
(* apply queue and store), the store is loaded from its file, and the      *)
(* engine resumes after the loaded last_applied_index.                     *)
Crash ==
  /\ restarts < MaxRestarts
  /\ CrashRestart
  /\ restarts' = restarts + 1
  /\ applied_index' = 0
  /\ apply_queue' = << >>
  /\ apc' = "idle"
  /\ cur' = 0
  /\ Resume(last_applied_index')
  /\ UNCHANGED effects

(* A SQL backend compacting the store, and the saves of every process.     *)
Backend(p) ==
  /\ p # ApplyProc
  /\ Compact(p)
  /\ UNCHANGED apvars

Saving(p) ==
  /\ SaveStep(p)
  /\ UNCHANGED apvars

(* The steps of the engine and of the callback.                            *)
ApplyStep ==
  \/ \E i \in 1 .. Len(Stream) :
       ApplyPut(i) \/ ApplyDelete(i) \/ ApplySql(i) \/ ApplyFatal(i)
       \/ Enqueue(i)
  \/ RecordApplied

Next ==
  \/ ApplyStep
  \/ \E p \in Procs : Backend(p) \/ Saving(p)
  \/ Crash

Spec == Init /\ [][Next]_vars

(* The engine and the callback are never starved: the worker thread runs   *)
(* them, and each save of the callback runs to its end.                    *)
FairSpec == Spec /\ WF_vars(ApplyStep) /\ WF_vars(Saving(ApplyProc))

----------------------------------------------------------------------------
ApplyTypeOK ==
  /\ KVTypeOK
  /\ applied_index \in 0 .. Len(Stream)
  /\ next \in 1 .. Len(Stream) + 1
  /\ apc \in {"idle", "saving"}
  /\ cur \in 0 .. Len(Stream)
  /\ apply_queue \in Seq(1 .. Len(Stream))
  /\ Len(apply_queue) <= ApplyQueueSize
  /\ effects \in Seq(1 .. Len(Stream))
  /\ restarts \in 0 .. MaxRestarts

(* The value of key k the committed entries 1 .. m leave: the value of the *)
(* last put of k, "absent" when the last of them is a delete, "untouched"  *)
(* when none of them is about k.                                           *)
Expected(m, k) ==
  LET about == {j \in 1 .. m : Stream[j].type # "sql" /\ Stream[j].key = k}
      last  == CHOOSE j \in about : \A l \in about : l <= j
  IN IF about = {} THEN "untouched"
     ELSE IF Stream[last].type = "kv_put" THEN Stream[last].value
     ELSE "absent"

(* The value a get of k returns from the store.                            *)
LiveValue(k) ==
  IF FindEntry(k) = 0 THEN "absent" ELSE entries[FindEntry(k)].value

(* The entries the callback has taken effect for since the engine resumed. *)
Done == IF apc = "saving" THEN cur ELSE next - 1

(* What the store serves agrees with the commit stream (spec 4.2, 6: only *)
(* the apply pipeline mutates the store, in commit order): every key some  *)
(* entry up to the last one applied is about holds the value the stream    *)
(* gives it, through concurrent compaction, torn saves, crashes that       *)
(* reload an older or empty snapshot and replay from the start, and worker *)
(* restarts after an ERROR.  Entries handed to the apply queue are never   *)
(* applied, so the claim is made while the queue is empty.                 *)
TouchedKeysAgree ==
  apply_queue = << >> =>
    \A k \in Keys :
      Expected(Done, k) = "untouched" \/ Expected(Done, k) = LiveValue(k)

(* The entries of the stream up to m that are about key k, and the       *)
(* highest index that has taken effect.                                    *)
CountAbout(m, k) ==
  Cardinality({j \in 1 .. m : Stream[j].type # "sql" /\ Stream[j].key = k})

HighestEffect ==
  IF effects = << >> THEN 0
  ELSE CHOOSE x \in {effects[j] : j \in 1 .. Len(effects)} :
         \A j \in 1 .. Len(effects) : effects[j] <= x

(* Every committed entry takes effect on local state at most once (spec 1, *)
(* 4.2: a redelivered index at or below the last applied one is a no-op), *)
(* so the version the store reports for a key, which every put and delete *)
(* of its entry bumps, never exceeds the number of entries about the key   *)
(* up to the highest one applied.  pgraft_apply_entry_to_postgres never    *)
(* compares the index with the recorded one, and pgraft_kv_put_local       *)
(* stores log index 0, so the engine resumes from 1 after a reload and an  *)
(* entry whose effect the reloaded snapshot already holds is applied again.*)
AtMostOnce ==
  \A k \in Keys :
    FindEntry(k) # 0 => entries[FindEntry(k)].version <= CountAbout(HighestEffect, k)

(* Every entry the engine hands to the apply queue is eventually applied   *)
(* (spec 2.3, 2.5: the apply pipeline consumes the apply queue).           *)
EnqueuedEventuallyApplied ==
  \A i \in 1 .. Len(Stream) :
    (\E j \in 1 .. Len(apply_queue) : apply_queue[j] = i)
      ~> (\E j \in 1 .. Len(effects) : effects[j] = i)

=============================================================================
