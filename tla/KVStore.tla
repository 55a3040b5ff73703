------------------------------ MODULE KVStore ------------------------------
(***************************************************************************)
(* The key/value store of pgraft (src/src/pgraft_kv.c) and its snapshot    *)
(* file.  The store is an array of StoreCapacity entries in shared memory  *)
(* of which the first num_entries are in use, searched linearly for the    *)
(* first live (non-deleted) entry with the key; deletes leave tombstones   *)
(* that compact removes.  Every mutation runs under the store's spinlock   *)
(* and is then followed, outside the lock, by pgraft_kv_save_to_disk.  A   *)
(* crash of any backend makes the postmaster re-create shared memory, and  *)
(* pgraft_kv_init_shared_memory then loads the store from the file.        *)
(*                                                                         *)
(* The save is three steps of the process that runs it: fopen(path, "wb") *)
(* creates or truncates the file; fwrite, under the lock, writes all but   *)
(* the last sizeof(store) % 4096 = 1144 bytes at once and leaves those in  *)
(* the stdio buffer; fclose, after the lock is released, writes them at    *)
(* the offset where this FILE stopped.  Those bytes (the tail) begin 232   *)
(* bytes into the key of the last slot and hold the rest of that slot,     *)
(* num_entries, last_applied_index and the counters.  A file is loadable   *)
(* when it has its full size, that is when some tail was written; the body *)
(* before it reads as zeros where nobody wrote it since the truncation.    *)
(* Reset clears the store under the lock and unlinks the file after        *)
(* releasing it.                                                           *)
(*                                                                         *)
(* Several processes use the store at once (the consensus engine's apply   *)
(* callback and SQL backends calling the *_local, compact and reset        *)
(* functions), so each has a program counter for the steps of its save or *)
(* reset.  Keys and values are model values, all keys shorter than the     *)
(* 232 bytes that precede the tail; the zeroed key and value are NoKey and *)
(* NoValue.  Timestamps and the operation counters are left out.           *)
(***************************************************************************)
EXTENDS Naturals, Sequences, FiniteSets

CONSTANTS
  Procs,          \* processes calling into the store
  Keys,           \* keys (each shorter than 232 bytes)
  Values,         \* values (each shorter than 1024 bytes)
  NoKey,          \* the key of a zeroed entry: ""
  NoValue,        \* the value of a zeroed entry: ""
  LogIndexes,     \* log_index arguments passed to put/delete
  StoreCapacity,  \* size of the entries array (1000 in the code)
  MaxVersion      \* bound on an entry's version, so that the model is finite

ASSUME KVAssumption ==
  /\ Procs # {} /\ Keys # {} /\ Values # {}
  /\ NoKey \notin Keys /\ NoValue \notin Values
  /\ LogIndexes \subseteq Nat
  /\ StoreCapacity \in Nat \ {0}
  /\ MaxVersion \in Nat \ {0}

VARIABLES
  entries,             \* store->entries[0 .. num_entries-1]
  rest,                \* store->entries[num_entries .. StoreCapacity-1]
  last_applied_index,  \* store->last_applied_index
  file,                \* contents of /tmp/pgraft_kv_store.dat
  pc,                  \* per process: "idle", its save's "open", "write",
                       \* "close", or its reset's "unlink"
  handle,              \* per process: is its FILE still the file at the path
  buffered             \* per process: the tail its FILE holds, or NoTail

kvvars == <<entries, rest, last_applied_index, file, pc, handle, buffered>>

KVEntry == [key : Keys \cup {NoKey}, value : Values \cup {NoValue},
            version : 0 .. MaxVersion, log_index : LogIndexes \cup {0},
            deleted : BOOLEAN]

(* An entry as memset leaves it, and n of them.                            *)
ZeroEntry == [key |-> NoKey, value |-> NoValue, version |-> 0,
              log_index |-> 0, deleted |-> FALSE]

Zeros(n) == [i \in 1 .. n |-> ZeroEntry]

(* The bytes fclose writes: the last slot but its key's first 232 bytes,   *)
(* num_entries and last_applied_index.                                     *)
NoTail == [num_entries |-> 0, last_applied_index |-> 0, last |-> ZeroEntry,
           written |-> FALSE]

StoreTail == [num_entries : 0 .. StoreCapacity,
              last_applied_index : LogIndexes \cup {0},
              last : KVEntry, written : {TRUE}]

(* No file at the path, or one of its full size or shorter.                *)
NoFile == [status |-> "missing"]

SnapshotFile == [status : {"present"}, body : [1 .. StoreCapacity -> KVEntry],
                 tail : StoreTail \cup {NoTail}]

(* pgraft_kv_find_entry_index: position of the first live entry with the   *)
(* key, or 0 when there is none.                                           *)
FindEntry(key) ==
  LET live == {i \in 1 .. Len(entries) :
                 ~entries[i].deleted /\ entries[i].key = key}
  IN IF live = {} THEN 0
     ELSE CHOOSE i \in live : \A j \in live : i <= j

(* The whole array, and what fwrite takes of it under the lock: the body   *)
(* now, the tail into the FILE's buffer.                                   *)
Slots == entries \o rest

StoreBody == Slots

TailNow == [num_entries |-> Len(entries),
            last_applied_index |-> last_applied_index,
            last |-> Slots[StoreCapacity], written |-> TRUE]

(* A file whose tail was written has its full size; fread then fills the   *)
(* whole structure.                                                        *)
Loadable(f) == f.status = "present" /\ f.tail.written

(* What pgraft_kv_load_from_disk copies from a loadable file: the slots,   *)
(* the last one keyed by the body and filled by the tail.                  *)
LoadedSlots(f) ==
  [i \in 1 .. StoreCapacity |->
     IF i = StoreCapacity THEN [f.tail.last EXCEPT !.key = f.body[i].key]
     ELSE f.body[i]]

(* A mutation done under the lock, followed by the save of this process.  *)
ThenSave(p) ==
  /\ pc[p] = "idle"
  /\ pc' = [pc EXCEPT ![p] = "open"]

KVInit ==
  /\ entries = << >>
  /\ rest = Zeros(StoreCapacity)
  /\ last_applied_index = 0
  /\ file = NoFile
  /\ pc = [p \in Procs |-> "idle"]
  /\ handle = [p \in Procs |-> FALSE]
  /\ buffered = [p \in Procs |-> NoTail]

(* pgraft_kv_put, key found: the value is replaced and the version bumped. *)
PutUpdate(p, key, value, log_index) ==
  LET i == FindEntry(key) IN
  /\ i # 0
  /\ entries[i].version < MaxVersion
  /\ entries' = [entries EXCEPT ![i].value = value,
                                ![i].version = @ + 1,
                                ![i].log_index = log_index,
                                ![i].deleted = FALSE]
  /\ last_applied_index' = log_index
  /\ ThenSave(p)
  /\ UNCHANGED <<rest, file, handle, buffered>>

(* The entry pgraft_kv_put creates at entries[num_entries].                *)
NewEntry(key, value, log_index) ==
  [key |-> key, value |-> value, version |-> 1, log_index |-> log_index,
   deleted |-> FALSE]

(* Faulty variants of the put below: one that appends without looking for *)
(* a live entry of the key, one that appends without the full check.       *)
PutAppendAlways(p, key, value, log_index) ==
  /\ Len(entries) < StoreCapacity
  /\ entries' = Append(entries, NewEntry(key, value, log_index))
  /\ rest' = Tail(rest)
  /\ last_applied_index' = log_index
  /\ ThenSave(p)
  /\ UNCHANGED <<file, handle, buffered>>

PutNoFullCheck(p, key, value, log_index) ==
  /\ FindEntry(key) = 0
  /\ entries' = Append(entries, NewEntry(key, value, log_index))
  /\ rest' = SubSeq(rest, 2, Len(rest))
  /\ last_applied_index' = log_index
  /\ ThenSave(p)
  /\ UNCHANGED <<file, handle, buffered>>

(* pgraft_kv_put, key not found: a new entry with version 1 is written at  *)
(* entries[num_entries], unless the array is full (then -1 and no save).  *)
PutCreate(p, key, value, log_index) ==
  /\ FindEntry(key) = 0
  /\ Len(entries) < StoreCapacity
  /\ entries' = Append(entries, NewEntry(key, value, log_index))
  /\ rest' = Tail(rest)
  /\ last_applied_index' = log_index
  /\ ThenSave(p)
  /\ UNCHANGED <<file, handle, buffered>>

(* pgraft_kv_delete: the live entry becomes a tombstone with a bumped      *)
(* version; no live entry: -1 and no save.                                 *)
Delete(p, key, log_index) ==
  LET i == FindEntry(key) IN
  /\ i # 0
  /\ entries[i].version < MaxVersion
  /\ entries' = [entries EXCEPT ![i].deleted = TRUE,
                                ![i].log_index = log_index,
                                ![i].version = @ + 1]
  /\ last_applied_index' = log_index
  /\ ThenSave(p)
  /\ UNCHANGED <<rest, file, handle, buffered>>

(* The loop of pgraft_kv_compact: the positions of live entries, and the   *)
(* write index j once entry i has been moved, which counts the live        *)
(* entries up to i.  Entry i lands at slot Rank(es, i) (0-based j - 1),   *)
(* so the array that results holds the live entries in their order.       *)
Kept(es) == {i \in 1 .. Len(es) : ~es[i].deleted}

Rank(es, i) == Cardinality({m \in Kept(es) : m <= i})

Compacted(es) ==
  [j \in 1 .. Cardinality(Kept(es)) |->
     es[CHOOSE i \in Kept(es) : Rank(es, i) = j]]

(* pgraft_kv_compact: live entries are moved down in order, the slots from *)
(* the new to the old num_entries are zeroed (not those beyond), and       *)
(* num_entries becomes the number moved.                                   *)
Compact(p) ==
  /\ entries' = Compacted(entries)
  /\ rest' = Zeros(Len(entries) - Cardinality(Kept(entries))) \o rest
  /\ ThenSave(p)
  /\ UNCHANGED <<last_applied_index, file, handle, buffered>>

(* pgraft_kv_reset, under the lock: every slot zeroed, num_entries and     *)
(* last_applied_index 0.                                                   *)
ResetClear(p) ==
  /\ pc[p] = "idle"
  /\ entries' = << >>
  /\ rest' = Zeros(StoreCapacity)
  /\ last_applied_index' = 0
  /\ pc' = [pc EXCEPT ![p] = "unlink"]
  /\ UNCHANGED <<file, handle, buffered>>

(* pgraft_kv_reset, after the lock is released: unlink of the file; a FILE *)
(* another process opened before now writes to a detached file.            *)
ResetUnlink(p) ==
  /\ pc[p] = "unlink"
  /\ file' = NoFile
  /\ handle' = [q \in Procs |-> FALSE]
  /\ pc' = [pc EXCEPT ![p] = "idle"]
  /\ UNCHANGED <<entries, rest, last_applied_index, buffered>>

(* pgraft_kv_save_to_disk, fopen(path, "wb"): creates or truncates the     *)
(* file; when it fails the save is given up (a warning, return -1).        *)
SaveOpen(p) ==
  /\ pc[p] = "open"
  /\ \/ /\ file' = [status |-> "present", body |-> Zeros(StoreCapacity),
                     tail |-> NoTail]
        /\ handle' = [handle EXCEPT ![p] = TRUE]
        /\ pc' = [pc EXCEPT ![p] = "write"]
     \/ /\ pc' = [pc EXCEPT ![p] = "idle"]
        /\ UNCHANGED <<file, handle>>
  /\ UNCHANGED <<entries, rest, last_applied_index, buffered>>

(* pgraft_kv_save_to_disk, fwrite under the lock: the body goes to the     *)
(* file from offset 0, the tail into the buffer; or the write fails and    *)
(* nothing is written or buffered.                                         *)
SaveWrite(p) ==
  /\ pc[p] = "write"
  /\ \/ /\ file' = IF handle[p] THEN [file EXCEPT !.body = StoreBody]
                                 ELSE file
        /\ buffered' = [buffered EXCEPT ![p] = TailNow]
     \/ UNCHANGED <<file, buffered>>
  /\ pc' = [pc EXCEPT ![p] = "close"]
  /\ UNCHANGED <<entries, rest, last_applied_index, handle>>

(* pgraft_kv_save_to_disk, fclose after the lock is released: the buffered *)
(* tail is written after the body (or fails to be, the disk being full).   *)
SaveClose(p) ==
  /\ pc[p] = "close"
  /\ \/ file' = IF handle[p] /\ buffered[p].written
                   THEN [file EXCEPT !.tail = buffered[p]] ELSE file
     \/ UNCHANGED file
  /\ pc' = [pc EXCEPT ![p] = "idle"]
  /\ handle' = [handle EXCEPT ![p] = FALSE]
  /\ buffered' = [buffered EXCEPT ![p] = NoTail]
  /\ UNCHANGED <<entries, rest, last_applied_index>>

(* A crash of any backend: shared memory is re-created zeroed and          *)
(* pgraft_kv_load_from_disk reads the file; a missing or short file leaves *)
(* the store empty.  The FILEs of the dead processes are gone unflushed.   *)
CrashRestart ==
  /\ IF Loadable(file)
       THEN /\ entries' = SubSeq(LoadedSlots(file), 1, file.tail.num_entries)
            /\ rest' = SubSeq(LoadedSlots(file), file.tail.num_entries + 1,
                              StoreCapacity)
            /\ last_applied_index' = file.tail.last_applied_index
       ELSE /\ entries' = << >>
            /\ rest' = Zeros(StoreCapacity)
            /\ last_applied_index' = 0
  /\ pc' = [p \in Procs |-> "idle"]
  /\ handle' = [p \in Procs |-> FALSE]
  /\ buffered' = [p \in Procs |-> NoTail]
  /\ UNCHANGED file

(* The operations a process calls, with their arguments: put and delete   *)
(* through pgraft_kv_put_local_func and pgraft_kv_delete_local_func       *)
(* (pgraft.c), which any SQL session may call and which pass log_index 0, *)
(* and compact and reset through their SQL functions.                     *)
KVOperation(p) ==
  \/ \E k \in Keys, v \in Values, li \in LogIndexes :
       PutUpdate(p, k, v, li) \/ PutCreate(p, k, v, li)
  \/ \E k \in Keys, li \in LogIndexes : Delete(p, k, li)
  \/ Compact(p)
  \/ ResetClear(p)

(* The steps that finish what an operation started: its save, or the      *)
(* unlink of its reset.                                                    *)
SaveStep(p) == SaveOpen(p) \/ SaveWrite(p) \/ SaveClose(p)

KVNext ==
  \/ \E p \in Procs : KVOperation(p) \/ SaveStep(p) \/ ResetUnlink(p)
  \/ CrashRestart

KVSpec == KVInit /\ [][KVNext]_kvvars

----------------------------------------------------------------------------
KVTypeOK ==
  /\ entries \in Seq(KVEntry)
  /\ rest \in Seq(KVEntry)
  /\ Len(entries) + Len(rest) = StoreCapacity
  /\ last_applied_index \in LogIndexes \cup {0}
  /\ file \in SnapshotFile \cup {NoFile}
  /\ pc \in [Procs -> {"idle", "open", "write", "close", "unlink"}]
  /\ handle \in [Procs -> BOOLEAN]
  /\ buffered \in [Procs -> StoreTail \cup {NoTail}]

(* At most one live entry per key (spec 3, KVEntry): put and delete find   *)
(* the first live entry, tombstones of the key may pile up beside it, and  *)
(* compaction and a reload from the file keep that so, even a reload of a  *)
(* file whose body and tail two saves wrote, or whose body is the zeros of *)
(* a truncation.  Zeroed entries (key "") may be live several times over:  *)
(* no caller can name that key.                                            *)
UniqueLiveKey ==
  \A i, j \in 1 .. Len(entries) :
    (i # j /\ ~entries[i].deleted /\ ~entries[j].deleted
           /\ entries[i].key \in Keys)
      => entries[i].key # entries[j].key

(* Versions only grow per key until compaction (spec 3, KVEntry: "version *)
(* strictly increases on every put/delete of the same key; deleted entries *)
(* retain their last version"): the live entry of a key is newer than      *)
(* every tombstone of that key still in the array.  pgraft_kv_put looks    *)
(* only for a live entry, so a put after a delete starts a fresh entry at  *)
(* version 1 beside the tombstone that holds version 2.                    *)
LiveVersionAboveTombstones ==
  \A i, j \in 1 .. Len(entries) :
    (/\ entries[i].key = entries[j].key
     /\ ~entries[i].deleted /\ entries[j].deleted)
      => entries[i].version > entries[j].version

(* The snapshot path always holds either no file or a complete image of    *)
(* the store (spec 4.4: written by write-then-rename so that a crash never *)
(* leaves a partial file), so a crash at any moment recovers the store as  *)
(* of some completed save.  pgraft_kv_save_to_disk opens the path itself   *)
(* with "wb", which truncates it before the image is written.              *)
SnapshotIntact ==
  file = NoFile \/ Loadable(file)

=============================================================================
