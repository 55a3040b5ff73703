# TLA+ models of pgraft

This directory holds TLA+ models of pgraft, the PostgreSQL extension in `src/`.
pgraft runs a Raft consensus engine (a Go library loaded with `dlopen`) next to
PostgreSQL and applies committed entries to a key/value store or through SPI.
The directory has TLC configurations that check the models on small instances,
and TLAPS proofs of their main invariants for every value of the constants.

## The system

All shared state lives in PostgreSQL shared memory. Three kinds of process touch it:

* **SQL backends** (`pgraft_sql.c`, `pgraft_kv_sql.c`). They check their
  arguments and put commands on the command queue (`pgraft_queue_log_command`,
  `pgraft_queue_kv_command`). The KV writes first check that this node is leader.
  The backends also read the log, the store and the cluster state.
* **The background worker** (`pgraft_main`, `pgraft.c`). Every 100 ms it:
  * ticks the engine;
  * on every 5th turn, copies leader, term and nodes from the engine into
    shared memory and into a state file;
  * takes one command from the queue;
  * records it in the status buffer and runs it: log append, commit or apply
    on the shadow log; add or remove a node; KV put or delete handed to the
    engine's `append_log`; shutdown;
  * updates the command's status record, which it finds by timestamp.
* **The engine's commit callback** (`pgraft_go_apply_callback`). It calls
  `pgraft_apply_entry_to_postgres`:
  * a JSON payload becomes `pgraft_kv_put_local` or `pgraft_kv_delete_local`;
  * any other payload is parsed and run through SPI;
  * on success, the index is recorded in `worker_state->last_applied_index`.

Each shared structure and its guard:

| structure | source | guard |
|---|---|---|
| command queue, status buffer, apply queue | `pgraft_util.c`, `WorkerState` | **none** |
| shadow log (entries, last_index, commit_index, last_applied) | `pgraft_log.c` | spinlock |
| key/value store (entries with version and tombstone, last_applied_index) | `pgraft_kv.c` | spinlock; snapshot file opened before and closed after the locked `fwrite`, after each mutation |
| cluster state (node array, leader, term) | `pgraft_core.c` | spinlock |

## Modules

| module | models | state | actions |
|---|---|---|---|
| `LogTracker` | `pgraft_log.c` | `log` (index ↦ term, committed, applied), `log_size`, `last_index`, `commit_index`, `last_applied` | `AppendEntry`, `CommitEntry`, `ApplyEntry`; also `CleanupOldEntries` and `Reset`, whose C functions have no caller (only `LogTrackerProofs` covers them). Readers: `EntryFound` and `GetEntry` (`pgraft_log_get_entry`), `Statistics` (`pgraft_log_get_statistics`) |
| `LogCommands` | the SQL log functions of `pgraft_sql.c`, `pgraft_queue_log_command`, the worker's `pgraft_log_*_system` (`pgraft.c`); extends `LogTracker` | the shadow log; `queue`, the log commands waiting in the command queue | backend: `SqlLogAppend`, `SqlLogCommit`, `SqlLogApply` (through `QueueLogCommand`); worker: `WorkerLogCommand` (through `LogAppendSystem`, `LogCommitSystem`, `LogApplySystem`) |
| `KVStore` | `pgraft_kv.c` | `entries` (the first `num_entries` slots: key, value, version, log_index, deleted), `rest` (the slots above, as memset and compaction leave them), `last_applied_index`, `file` (the snapshot: missing, or present with a body and a tail), per process `pc`, `handle` (its open FILE still names the file at the path) and `buffered` (the tail waiting in its FILE's buffer) | `PutUpdate`, `PutCreate`, `Delete`, `Compact`, `ResetClear` (gathered in `KVOperation`), `ResetUnlink`, `SaveOpen`, `SaveWrite`, `SaveClose`, `CrashRestart` |
| `CommandQueue` | `pgraft_util.c` queue and status buffer; dispatch in `pgraft.c` | the two rings with their head, tail and count; per-producer pc and loaded count; the worker's pc, copy and loaded count; the clock; history of accepted, rejected and dequeued commands | producer: `Submit`, `WriteSlot`, `AdvanceTail`, `LoadCount`, `StoreCount`; worker: `Dequeue`, `WorkerLoadCount`, `WorkerStoreCount`, `Dispatch`; `Tick`. Reader: `QueueStatus` (`pgraft_get_queue_status`) |
| `ApplyPipeline` | `pgraft_apply.c`, `pgraft_go_apply.c`, `pgraft_go_callbacks.c`, the apply queue of `pgraft_util.c`; extends `KVStore` | the store of `KVStore`; `applied_index` (`worker_state->last_applied_index`); the engine's `next`; the callback's `apc` and `cur`; `apply_queue`; history `effects`; `restarts` | callback: `ApplyPut`, `ApplyDelete`, `ApplySql`, `ApplyFatal`, `RecordApplied`; queue: `Enqueue`; backend: `Backend` (compaction), `Saving`; `Crash` |
| `ClusterCore` | `pgraft_core.c`; the refresh `pgraft_update_shared_memory_from_go` of `pgraft.c`; `pgraft_remove_node`, `pgraft_init` (`pgraft_sql.c`); `pgraft_kv_queue_operation`; library loading in `pgraft_go.c` | the cluster structure (`initialized`, `node_id`, `leader_id`, `current_term`, `state`, `nodes`); `wnode` (`worker_state->node_id`); the worker's `wpc` and the values it read; per backend `bpc`, `btarget` and `bengine` (its own engine: none, loaded, running); the engine's `eng_leader` and `eng_term`; history `removed_ok` | worker: `WorkerStart`, `RefreshReadLeader`, `RefreshReadTerm`, `RefreshNodes`, `RefreshPublish`; backend: `SqlRemoveCore`, `SqlRemovePeer`, `SqlInit`, `KvWriteSql` (`KvQueueOperation`); engine: `EngineElect` |
| `LogTrackerProofs` | proofs about `LogTracker` | | |
| `LogCommandsProofs` | proofs about `LogCommands` | | |
| `ClusterCoreProofs` | proofs about `ClusterCore` | | |
| `CommandQueueProofs` | proofs about `CommandQueue` | | |
| `KVStoreProofs` | proofs about `KVStore` | | |
| `ApplyPipelineProofs` | proofs about `ApplyPipeline` | | |

The `MC_*` modules give the constants values for TLC.

How the modules correspond to the code:

* **Lock-protected operations.** Each operation guarded by a spinlock is one
  atomic action. Its guard comes from the code's early returns: full, not
  found, not committed.
* **Array lookups.** The log's linear lookups by index are a test of
  `DOMAIN log`. The store keeps the array order, because "the first live
  entry with the key" and compaction's order depend on it.
* **Compaction.** The loop of `pgraft_kv_compact` moves live entry `i` to
  slot `j`, where `j` counts the live entries before it. `Rank(es, i)`, the
  number of live entries up to `i`, is that counter once `i` has been moved,
  so `Compacted(es)` puts the live entry of rank `j` at slot `j`. TLC checked
  this form against `SelectSeq(es, LAMBDA e : ~e.deleted)` on every array of
  up to 4 entries, and the two agree. It is written with `Cardinality`, not
  `SelectSeq`, because the provers have facts about cardinality and none
  about `SelectSeq`.
* **Unlocked statements.** In `CommandQueue`, each C statement on an unlocked
  field is its own step. `count++` and `count--` are a load and a store. The
  producer re-reads `command_tail` after its field copies, because the calls
  in between force a reload.
* **Saving the snapshot.** `pgraft_kv_save_to_disk` is three steps, because
  the lock is held only around the `fwrite`:
  * `SaveOpen` is `fopen(path, "wb")`, which creates or truncates the file, or
    fails and gives the save up;
  * `SaveWrite` is the `fwrite` under the lock. glibc writes the whole 4 KiB
    blocks of the structure to the file at once and keeps the rest,
    `sizeof(pgraft_kv_store_t) % 4096` = 1144 bytes, in the FILE's buffer.
    Those bytes are the last 232 bytes of the last entry's key, the rest of
    that entry, `num_entries` and `last_applied_index`: the *tail*
    (`TailNow`). The model writes the body (`StoreBody`) and buffers the
    tail, or the write fails and neither happens;
  * `SaveClose` is `fclose` after the unlock, which writes the buffered tail
    at its own offset, or fails (a full disk).

  A FILE opened before the file was unlinked writes to the unlinked inode,
  not to the path (`handle`). Other processes run between the steps, so a
  file can hold the body of one save and the tail of another. The model
  assumes keys shorter than 232 bytes, so the part of the last key that the
  body holds is the whole key, and a body write that is all or nothing.
* **Reset.** `pgraft_kv_reset` zeroes the store under the lock
  (`ResetClear`) and unlinks the file after releasing it (`ResetUnlink`).
* **The log commands.** A SQL log function takes an int64 and stores it in
  the command's `int` field (`IntCast`: the value modulo 2^`IntWidth`, read
  as two's complement). The worker takes the head of the queue and runs the
  matching `pgraft_log_*_system`. On a full log, `pgraft_log_append_entry`
  raises ERROR. The worker has no handler, so it exits and is restarted with
  the log as it was; the command is gone. That is a step that only consumes
  the command. A commit or apply of an index not in the log fails the
  command and changes nothing else.
* **Crash.** `CrashRestart` is the postmaster re-creating shared memory.
  `pgraft_kv_init_shared_memory` then loads the snapshot, or starts empty when
  the file is missing or short. A file is of full size once a tail was
  written to it (`Loadable`). The reload takes `num_entries` and
  `last_applied_index` from the tail and the slots from the body, the last
  slot keyed by the body and filled by the tail (`LoadedSlots`). The FILEs of
  the dead processes vanish with their buffers.
* **The apply pipeline.** The engine (not in this repository) follows the
  contract of spec 4.2 and 4.4. It hands committed entries over in index
  order, hands one over again when the entry point returns -1, and after a
  restart resumes after the store's `last_applied_index` (`Resume`).
  * A KV put or delete by the callback is the `KVStore` action of process
    `ApplyProc` with log index 0, which is what `pgraft_kv_put_local` passes.
  * The callback's save runs to its end before `RecordApplied` assigns the
    index.
  * An `elog(ERROR)` on this path (delete of an absent key, put into a full
    store) has no handler, so it ends the worker (`ApplyFatal`). Shared memory
    stays.
  * A crash re-creates shared memory (worker state, apply queue, store), and
    the store reloads its snapshot.
  * A failing SQL apply returns -1 with nothing changed, so the engine's retry
    is a stutter.
* **The cluster structure.** Each locked section of `pgraft_core.c` is one
  step. The worker's refresh is four steps, one per engine call, because the
  engine runs its own goroutines between them:
  * read the leader;
  * read the term and node id;
  * read the member list and copy it with `pgraft_core_update_nodes`;
  * publish under the lock.

  `pgraft_core_update_nodes` refuses while `initialized` is false, and
  `initialized` is only set by the publish that follows. So the first refresh
  never copies the list.
  * **The library handle is per process.** `pgraft_remove_node` in a backend
    edits the array (`SqlRemoveCore`). It calls `remove_peer` only on an
    engine that this backend loaded itself, through `pgraft_init`
    (`SqlInit`), and never on the worker's engine.
  * **The KV write functions** run the same refresh inside such a backend,
    against its own instance (`KvQueueOperation`, reached from
    `pgraft_kv_put_sql` and `pgraft_kv_delete_sql` as `KvWriteSql`). They then make their
    leader check, whose outcome goes to the command queue. Each backend's
    instance has its own member list (`blist`): `pgraft_remove_node` removes
    the peer from it, and its refresh copies that list. An instance that was
    loaded but never started answers leader 0, term 0, node id 0 and an
    empty list. The backend's refresh is one step, although it
    writes `worker_state->node_id` without a lock after reading the engine.
    The worker's start-up store of 0 (`pgraft.c:293`, `WorkerStart`) is a
    step of its own, so both orders of the two stores are reached; each is a
    single aligned word, so no store is torn.
  * **The engine** has a fixed membership. Elections change its leader and
    term (`EngineElect`).
  * **Dead paths.** `pgraft_core_init`, `pgraft_core_add_node` and the worker's
    `init_system`, `add_node_system` and `remove_node_system` are left out:
    they run only for commands that no code queues.
* **Readers.** The SQL readers that copy a structure out under its lock
  (`pgraft_log_get_entry`, `pgraft_log_get_statistics`, `pgraft_kv_get`,
  `pgraft_core_get_cluster_state`) are operators over one state. The
  unlocked `pgraft_get_queue_status` is one as well. Only the worker writes
  the status buffer, and in the model its dispatch is a single step, so a
  torn listing is left out. The properties are stated over these readers, so
  they say what a client can observe.
* **Data abstraction.** Keys, values, commands and payloads are model values.
  Timestamps are a small clock, because the status lookup compares them.
  Statistics counters and log text are left out, because no guard reads them.

## Runs

| run | expect | what it shows |
|---|---|---|
| `log_commands` | pass | `TypeOK`, `LogContiguous`, `WatermarksOrdered`, `ReportsConsistent`: SQL callers queue appends, commits and applies in any order, with arguments that wrap in the `int` conversion, and the worker drains the queue. The log stays within its array, gapless up to `last_index`, with `last_applied <= commit_index <= last_index`. The two readers agree: an entry that `pgraft_log_get_entry` shows applied is shown committed, and both flags lie within the watermarks that `pgraft_log_get_statistics` reports |
| `kv_store` | pass | `KVTypeOK`, `UniqueLiveKey`, with 2 processes, 2 keys, a 2-slot array, versions up to 2: puts, deletes, compaction, resets, interleaved save steps and crashes never leave two live entries of a key, even when a reload combines the body of one save with the tail of another or a save's tail lands after a reset. The mutant `PutAppendAlways` (a put that skips the lookup) breaks it |
| `kv_version_after_delete` | violation | `LiveVersionAboveTombstones`: put after delete restarts the key at version 1 (spec 3 says versions strictly increase) |
| `kv_snapshot_torn` | violation | `SnapshotIntact`: a crash after the truncating `fopen`, or before the `fclose` that writes the tail, leaves no loadable snapshot (spec 4.4 says write-then-rename) |
| `command_queue` | pass | `TypeOK`, `StatusKeepsLatest` with 2 producers, 3 commands and a 2-slot ring: the records that `pgraft_get_queue_status` lists are the latest dispatched commands, in order, through eviction, even when the queue itself is corrupted |
| `command_queue_race` | violation | `DequeuedOnce`: with a single producer, the unlocked count update loses an increment or a decrement, and the worker takes a slot twice or one never written |
| `command_status_timestamp` | violation | `StatusResolved`: a second command of the same second leaves its own status PENDING |
| `apply_pipeline` | pass | `ApplyTypeOK`, `TouchedKeysAgree`: an 8-entry commit stream (update of a live key, delete, put into a store full of a tombstone, SQL, a final delete of an absent key). Through backend compaction, torn saves, a crash or a worker restart, and replay from the start, every key the applied prefix touches holds the value the stream gives it |
| `apply_replay` | violation | `AtMostOnce`: no key's live entry has a version above the number of applied entries about it. A save records `last_applied_index` 0, so after a crash the engine resumes at entry 1 against a store reloaded with its effects, and put k1 takes effect again on the reloaded entry (version 2 after one put) |
| `cluster_core` | pass | `ClusterTypeOK`, `LeaderViewsAgree`, `NodesConverge`. Once initialized, the state string says "leader" exactly when the KV write check `node_id == leader_id` passes, whichever process published last. And under fairness of the worker's loop, the node array keeps coming back to the engine's membership. This holds through SQL removals, backends publishing from their own engine instances, elections, and the first refresh that cannot copy the list |
| `cluster_remove_node` | violation | `RemovedStaysRemoved`: `pgraft_remove_node` reports success, but the next refresh lists the node again, because the call never reaches the worker's engine |
| `apply_queue_never_drained` | violation | `EnqueuedEventuallyApplied`: under fairness of the engine and the callback, an entry handed to the apply queue is never applied, because nothing calls `pgraft_dequeue_apply_entry` |

The bounds are the smallest at which each hazard can happen:

* **Queues:** a ring of 2 fills and wraps. A third command is refused or
  evicts the oldest status record.
* **Log commands:** a log of 2 slots fills at the third append. Three
  appends in all reach indices 1 to 3. A 3-bit `int` makes the argument 9
  arrive as 1, the way 2^32 + 1 does with 32 bits. -1 is an index never
  appended. A queue of 2 lets commands wait while others are queued.
* **Clock:** two clock values let two commands share a second, or not.
* **Store:** two keys let a tombstone of one key sit beside a live entry of
  the other and fill the array; two processes let two saves interleave. One
  value is enough for `UniqueLiveKey`, which does not look at values. The
  run was also made with a 3-slot array, with the same result; the proof
  covers every capacity.
* **Commit stream:** the 8 entries exercise every branch of the apply path:
  update, create, delete, full store, absent key, SQL. One restart is
  enough for a replay over a snapshot that is older, newer or empty. An
  apply queue of one slot fills at the second hand-over.
* **Cluster:** two members are enough for a removal that the refresh undoes,
  and for a leader that is or is not this node. The array has as many slots
  as there are members; the code has 16. Two elections let the leader change
  between the refresh's reads. One backend can remove a node both before and
  after it loads an engine of its own.

Deadlock checking is off for `MC_CommandQueue*` and `MC_ApplyPipeline*`. The
models have finitely many commands and committed entries, while in the code the
worker polls forever and the engine waits for more commits, so the final state
is the idle loop, not a stuck system.

`MC_ClusterCore` is checked with deadlock on: the worker's refresh can always
run again.

Fairness is assumed in two runs.

* In `cluster_core`, `FairSpec` is weak fairness of the worker's steps.
  `pgraft_main` loops until it is stopped, sleeping 100 ms per turn and
  refreshing every fifth turn.
* In `apply_queue_never_drained`, `FairSpec` is weak fairness of the engine's
  hand-over, of the callback's steps and of the callback's own save. Those run
  on the engine's threads in the worker. Even with this fairness, a queued
  entry is never applied.

SQL backends, elections and crashes get no fairness: a client may never call,
and an election or a crash need not happen.

## Proofs

`LogTrackerProofs` proves four theorems for every `Capacity`, `MaxIndex` and
`Terms` allowed by `LogAssumption`:

* `TypeCorrect`: `Spec => []TypeOK`;
* `Contiguity`: `Spec => []LogContiguous`;
* `Ordering`: `Spec => []WatermarksOrdered`;
* `ReportsAgree`: `Spec => []ReportsConsistent`.

They rest on an inductive invariant `IInv`. It adds three facts to the
properties:

* `log_size <= last_index`, together with contiguity. Cleanup subtracts the
  number of removed entries from `log_size`. That stays a natural number only
  because `log_size` counts an interval exactly (`FS_Interval`).
* `CommittedBelowCommitIndex`. Apply raises `last_applied` to the index of a
  committed entry. That stays below `commit_index` only because no committed
  entry lies above it.
* `AppliedCommitted`: every applied entry is committed and lies at or below
  `last_applied`. With `CommittedBelowCommitIndex` it gives
  `ReportsConsistent` (`IInvReports`).

`CleanupStep` handles cleanup in three cases: nothing removed, everything
removed, and a proper prefix removed.

Each operation's step is a lemma of its own (`AppendStep`, `CommitStep`,
`ApplyStep`, `CleanupStep`, `ResetStep`, `StutterStep`). Commit and apply
take any value as index, because their guards alone keep it inside the log.

`LogCommandsProofs` proves the same four properties for `LCSpec`, the system
as it runs: SQL functions queue commands, and the worker runs them. These
hold for every `IntWidth`, `SqlArgs` and `QueueSlots` allowed by
`LogCommandsAssumption` and `ConvertedTerms`. The theorems are
`LCTypeCorrect`, `LCContiguity`, `LCOrdering` and `LCReportsAgree`.

The invariant is `LCInv == IInv /\ QueueOK`. `QueueOK` says every queued
command carries a term as its index. `ConvertedTerms` makes that true: it
says the set `Terms` holds every SQL argument after `IntCast` converts it.
The model instance defines `Terms` that way. A queueing step leaves the log
alone (`QueueStep`). A worker step is an append, commit or apply of the log,
or a stutter when the command fails (`WorkerStep`). Either way, the step
lemmas of `LogTrackerProofs` apply. The index may be any integer, even one
that the conversion wrapped.

`ClusterCoreProofs` proves two theorems for every membership, array size,
term bound and set of backends allowed by `ClusterAssumption`:

* `TypeCorrect`: `Spec => []ClusterTypeOK`. The node array never holds more
  than `Slots` ids.
* `LeaderAgreement`: `Spec => []LeaderViewsAgree`.

Their inductive invariant is `ClusterTypeOK /\ LeaderViewsAgree`.
`LeaderViewsAgree` alone is not inductive: it needs the type fact that a
published leader is a member or 0. The node array needs two lemmas about
sequences:

* `FirstSlotsType`: the copy made by `pgraft_core_update_nodes` keeps at
  most `Slots` members;
* `RemoveAtType`: removing slot `i`, as `pgraft_core_remove_node` shifts
  the array, leaves a sequence one shorter.

`ClusterView` and `KvLeaderCheck` are the two readers that `LeaderViewsAgree`
compares. The proof expands them.

`CommandQueueProofs` proves `TypeCorrect`: `Spec => []TypeOK` for every set of
producers and commands, every `MaxCommands` and every `MaxTime` allowed by
`QueueAssumption`. The racing counts are any integers. What the theorem
establishes is that every index stays a slot and `status_count` stays within
`MAX_COMMANDS`:

* `ModSlot`: an index advanced modulo `MAX_COMMANDS` is a slot;
* `AddToStatusType`: eviction before insertion keeps the count in bounds;
* `UpdateStatusType`: the update by timestamp changes at most one record's
  status.

`TypeOK` alone is not inductive: the store of `count++` adds the producer's
command to `accepted`. The invariant is `TypeOK /\ ProducerHolds`, which says
that a producer inside its call holds a real command.

`CommandQueueProofs` also proves `StatusWindow`: `Spec => []StatusKeepsLatest`,
for the same range of constants. It holds however the producers race and
through every eviction. The records that `pgraft_get_queue_status` lists are
then exactly the last `min(done, MAX_COMMANDS)` dispatched commands, oldest
first. `done` counts the dequeued commands, less the one the worker holds
between its dequeue and `add_command_to_status`.

The inductive invariant is `SInv == IInv /\ WorkerHoldsLast /\ StatusKeepsLatest`.
`WorkerHoldsLast` says that, from its dequeue to its dispatch, the worker's
copy `wcmd` is the last command dequeued. Without it, the dispatch step
could record a command other than the next one in the window. The step proof
rests on three lemmas:

* `UpdateStatusIds`: `update_command_status` changes statuses and never the
  ids;
* `KeepsLatestUnchanged`: a step that leaves the worker's position, the
  dequeued commands and the buffer alone keeps the window;
* `DispatchKeepsLatest`: the dispatch step keeps the window. There are two
  cases. While the buffer has room, the window grows at its tail. When it
  is full, the head advances and the window slides by one. This second
  case splits again on whether the head wraps.

`KVStoreProofs` proves two theorems for every set of processes, keys and
values, every `StoreCapacity` and every `MaxVersion` allowed by
`KVAssumption`:

* `KVTypeCorrect`: `KVSpec => []KVTypeOK`;
* `UniqueLive`: `KVSpec => []UniqueLiveKey`.

`UniqueLiveKey` alone is not inductive. A crash reloads the array from the
file, and the file's body and tail may come from different saves: one
process's `fclose` can write its tail after another process wrote a newer
body, or after a truncation left a zeroed body. The inductive invariant is
`KVInv == KVTypeOK /\ Ordered(entries) /\ FileOK /\ BufOK`:

* `Ordered(es)`: of the entries of a real key, a live one is the last, and
  the ones before it are tombstones. A put appends only a key with no live
  entry; compaction keeps the order. It implies `UniqueLiveKey`
  (`OrderedUnique`). It is stronger because of the merged last slot: the
  reload keys that slot from the body and takes its `deleted` flag from the
  tail, so it may be live in the reload where it was a tombstone in the
  body. In an `Ordered` body no later slot is live, so this cannot make a
  second live entry.
* `ZeroAbove(n)`: the slots between `num_entries` and `n` are zeroed.
  `num_entries` falls only by compaction and reset, which zero the slots
  they give up.
* `BodyFits(body, n)`: a body is an `Ordered` prefix followed by zeroed
  slots up to `n`. Each body write writes the store as it is, which fits
  every tail still to be loaded because of `ZeroAbove`; a truncation writes
  zeros, which fit every tail.
* `FileOK` and `BufOK`: the tail of a loadable file, and every tail waiting
  in the buffer of a FILE that still names the file, satisfies
  `TailOK(t)`: `ZeroAbove(t.num_entries)` and
  `BodyFits(file.body, t.num_entries)`.

The lemmas:

* `KeptFinite`, `RankRange`, `RankMonotone`, `RankOnto`, `PosFacts`: ranks
  number the live entries `1 .. n` one to one, with `FS_Injection` of
  `FiniteSetTheorems`. `CompactedFacts` follows: compaction puts every live
  entry in exactly one slot and keeps nothing else.
* `FindEntryFacts`: `pgraft_kv_find_entry_index` finds an entry exactly when
  the key has a live one, and what it finds is live. A least live index
  exists by `WFMin` and `NatLessThanWellFounded` of `WellFoundedInduction`.
* `PutUpdateEntries`, `DeleteEntries`: the shape of the array after an
  in-place put or delete. `TailsKept` and `TailOKKept`: a step that leaves
  the zeroed slots and the file alone keeps every pending tail sound.
* `FitsNow`: the store's current body fits every tail that `ZeroAbove`
  allows. `LoadOrdered`: a reload of a sound file is `Ordered`, the merged
  last slot included.
* One step lemma per action: `PutUpdateStep`, `PutCreateStep`, `DeleteStep`,
  `CompactStep`, `ResetClearStep`, `ResetUnlinkStep`, `SaveOpenStep`,
  `SaveWriteStep`, `SaveCloseStep`, `CrashStep`.

`ApplyPipelineProofs` proves two theorems for every commit stream and every
bound allowed by `KVAssumption` and `ApplyAssumption`:

* `ApplyTypeCorrect`: `Spec => []ApplyTypeOK`;
* `StoreFollowsStream`: `Spec => []TouchedKeysAgree`.

The invariant is `ApInv == KVInv /\ ApplyTypeOK /\ LaiZero /\ TouchedKeysAgree`.

* The pipeline changes the store only through `KVStore`'s actions, so
  `KVStoreProofs`' step lemmas carry `KVInv`.
* `ValueChar`: with at most one live entry of a key, which `Ordered` gives,
  `LiveValue` is that entry's value, or "absent" when there is none.
* `PutValues`, `DeleteValues`, `CompactValues`: the callback's put or delete
  changes the value of its key only, and compaction (through `PosRank`) and
  the save steps change none.
* `ExpectedStep` says that entry `i` sets the key it is about and leaves
  every other key's expected value as entries `1 .. i-1` left it.

So applying entry `i = next` moves the store exactly as it moves `Expected`
(`AgreeApplied`).

`LaiZero` is needed for crashes and ERRORs. Every index the pipeline
passes to the store is 0, so `last_applied_index`, that of every tail in a
FILE's buffer and that of a loadable file stay 0. The engine therefore
resumes from the first entry, where nothing is claimed (`AgreeFromStart`).
Without `LaiZero`, a crash could resume past entries whose effect the
reloaded snapshot lacks.

Out of the provers' reach, and left to TLC:

* liveness: `NodesConverge` and `EnqueuedEventuallyApplied` are checked by
  TLC only;
* `ENABLED`;
* what recursive operators compute;
* the properties of the violation runs, which TLC refutes.

## Not modelled

* the engine itself (not in this repository);
* the configuration variables (`pgraft_guc.c`): spec.md puts configuration
  parsing out of scope, and no shared state changes after start;
* JSON and text formatting;
* SPI execution of SQL payloads (only its success or failure matters to the
  pipeline);
* the state-file writers `pgraft_write_state_to_file(_with_nodes)`. Every
  refresh, in the worker and in backends with their own engine, writes
  `cluster_state.json.tmp` and renames it. All processes share the one
  temporary path. One writer's `fopen("w")` can therefore truncate another's
  file before that one renames it, and a failed rename unlinks a file
  someone else is writing. The "atomic update" is not atomic across
  processes. Nothing in the repository reads the file
  (`pgraft_read_state_from_file` has no caller);
* the formatting of the read-only query functions. What they read is modelled
  where a property is stated over it (see "Readers" above);
  `pgraft_get_leader`, `pgraft_get_term` and the nodes table return single
  fields of `ClusterView` and are not named separately;
* in `ApplyPipeline`, the SQL functions `pgraft_kv_put_local_func` and
  `pgraft_kv_delete_local_func`. They let any client mutate the store outside
  the commit stream. `KVStore` has them (`KVOperation`), but in
  `ApplyPipeline` the backends only compact;
* `pgraft_is_leader`, which returns true whenever `node_id == leader_id`,
  including the initial -1 = -1 and the 0 = 0 of a worker that has not read
  its node id;
* `pgraft_log_cleanup_old_entries` and `pgraft_log_reset` in runs: they have
  no caller;
* `pgraft_add_node`: it calls `add_peer` on an engine loaded in the calling
  backend, which is not the worker's, and changes no shared state;
* the commands `INIT`, `ADD_NODE` and `REMOVE_NODE` and what the worker does
  with them: `pgraft_queue_command` has no caller.

## Plan

Next steps, in order:

1. **The readers' hazards.** Each of these needs a violation run of its own:
   * `pgraft_is_leader` answers true before the first refresh;
   * the refresh can publish a leader together with a term it never had;
   * a `pgraft_log_commit` of 2^32 + 1 commits entry 1.
2. **`StateFile`.** The state-file writers, with the shared temporary path,
   as one step per `fopen`, write, and `rename`. The property: the file is
   always one writer's complete record.
3. **More proofs.** A theorem about the int conversion of the log
   commands needs facts about `2^IntWidth` that the provers lack.
