------------------------ MODULE ApplyPipelineProofs ------------------------
(***************************************************************************)
(* Proofs about the apply pipeline, for every commit stream, every set of  *)
(* processes, keys and values and every bound on the store, the apply     *)
(* queue and restarts.                                                     *)
(*                                                                         *)
(* The callback changes the store only through pgraft_kv_put and           *)
(* pgraft_kv_delete, other processes only through compaction and saves,   *)
(* and a crash through the reload: the step lemmas of KVStoreProofs carry  *)
(* the store's invariant over, under which each key has at most one live  *)
(* entry, whose value get returns (ValueChar).  From this, a put or delete *)
(* moves the value of its key only, and compaction none (PutValues,        *)
(* DeleteValues, CompactValues), so each entry the callback applies moves  *)
(* the store exactly as it moves Expected, the value the stream gives the  *)
(* key (ExpectedStep).  Every log index the pipeline passes to the store   *)
(* is 0, so the store's last_applied_index, that of every tail waiting in  *)
(* a FILE's buffer and that of a loadable file stay 0 (LaiZero), and after *)
(* a crash or an ERROR the engine resumes from the first entry, where     *)
(* nothing is yet claimed.                                                 *)
(***************************************************************************)
EXTENDS ApplyPipeline, KVStoreProofs

(* The search of pgraft_kv_find_entry_index and the value get returns, for *)
(* any array: FindEntry and LiveValue are these applied to entries.        *)
FindIn(es, key) ==
  LET live == {i \in 1 .. Len(es) : ~es[i].deleted /\ es[i].key = key}
  IN IF live = {} THEN 0
     ELSE CHOOSE i \in live : \A j \in live : i <= j

ValueIn(es, key) ==
  IF FindIn(es, key) = 0 THEN "absent" ELSE es[FindIn(es, key)].value

(* The entries up to m that are about key k, and what Expected makes of    *)
(* such a set.                                                             *)
About(m, k) == {j \in 1 .. m : Stream[j].type # "sql" /\ Stream[j].key = k}

ExpectedOf(A) ==
  LET last == CHOOSE j \in A : \A l \in A : l <= j
  IN IF A = {} THEN "untouched"
     ELSE IF Stream[last].type = "kv_put" THEN Stream[last].value
     ELSE "absent"

(* Every index the pipeline passes to pgraft_kv_put and pgraft_kv_delete   *)
(* is 0, so the store's last_applied_index, that of every buffered tail   *)
(* and that of a loadable file are 0.                                      *)
LaiZero ==
  /\ last_applied_index = 0
  /\ \A p \in Procs : buffered[p].last_applied_index = 0
  /\ Loadable(file) => file.tail.last_applied_index = 0

ApInv == KVInv /\ ApplyTypeOK /\ LaiZero /\ TouchedKeysAgree

----------------------------------------------------------------------------
(* What a committed payload carries: a put a key and a value, a delete a  *)
(* key.                                                                    *)
LEMMA PayloadFacts ==
  ASSUME NEW i \in 1 .. Len(Stream)
  PROVE  /\ Stream[i].type \in {"kv_put", "kv_delete", "sql"}
         /\ Stream[i].type # "sql" => Stream[i].key \in Keys
         /\ Stream[i].type = "kv_put" => Stream[i].value \in Values
<1>1. Stream[i] \in Payload
  BY ApplyAssumption
<1>. QED
  BY <1>1 DEF Payload, PutOp, DeleteOp, SqlOp

(* The commit stream is a finite sequence.                                 *)
LEMMA StreamLen == Len(Stream) \in Nat
BY ApplyAssumption, LenProperties

LEMMA ExpectedIs ==
  ASSUME NEW m, NEW k
  PROVE  Expected(m, k) = ExpectedOf(About(m, k))
BY DEF Expected, ExpectedOf, About

(* Before any entry, no key is touched.                                    *)
LEMMA ExpectedZero ==
  ASSUME NEW k
  PROVE  Expected(0, k) = "untouched"
<1>1. About(0, k) = {}
  BY DEF About
<1>. QED
  BY <1>1, ExpectedIs DEF ExpectedOf

(* Entry i decides the key it is about; any other key keeps the value the *)
(* entries before it give.                                                 *)
LEMMA ExpectedStep ==
  ASSUME NEW i \in 1 .. Len(Stream), NEW k
  PROVE  Expected(i, k) =
           IF Stream[i].type # "sql" /\ Stream[i].key = k
             THEN IF Stream[i].type = "kv_put" THEN Stream[i].value
                  ELSE "absent"
             ELSE Expected(i - 1, k)
<1>1. CASE Stream[i].type # "sql" /\ Stream[i].key = k
  <2> DEFINE A == About(i, k)
  <2>1. i \in A /\ A \subseteq 1 .. i
    BY <1>1 DEF About
  <2>2. (CHOOSE j \in A : \A l \in A : l <= j) = i
    BY <2>1
  <2>. QED
    BY <1>1, <2>1, <2>2, ExpectedIs DEF ExpectedOf
<1>2. CASE ~(Stream[i].type # "sql" /\ Stream[i].key = k)
  <2>1. About(i, k) = About(i - 1, k)
    BY <1>2 DEF About
  <2>2. ExpectedOf(About(i, k)) = ExpectedOf(About(i - 1, k))
    BY <2>1
  <2>. QED
    BY <1>2, <2>2, ExpectedIs
<1>. QED
  BY <1>1, <1>2


(* The live entries of key k in an array, and that there is at most one.   *)
LiveIn(es, k) == {i \in 1 .. Len(es) : ~es[i].deleted /\ es[i].key = k}

UniqueIn(es, k) == \A i, j \in LiveIn(es, k) : i = j

(* With at most one live entry of the key, the value get returns is that  *)
(* entry's value, or "absent" when there is none.                          *)
LEMMA ValueChar ==
  ASSUME NEW es \in Seq(KVEntry), NEW k, UniqueIn(es, k)
  PROVE  /\ LiveIn(es, k) = {} => ValueIn(es, k) = "absent"
         /\ \A i \in LiveIn(es, k) : ValueIn(es, k) = es[i].value
<1>1. CASE LiveIn(es, k) = {}
  BY <1>1 DEF ValueIn, FindIn, LiveIn
<1>2. CASE LiveIn(es, k) # {}
  <2>1. LiveIn(es, k) \subseteq Nat
    BY DEF LiveIn
  <2>2. \E x \in LiveIn(es, k) : \A y \in LiveIn(es, k) : x <= y
    BY <1>2, <2>1, LeastExists
  <2>3. FindIn(es, k) \in LiveIn(es, k)
    BY <1>2, <2>2 DEF FindIn, LiveIn
  <2>4. FindIn(es, k) # 0
    BY <2>3 DEF LiveIn
  <2>. QED
    BY <1>2, <2>3, <2>4 DEF ValueIn, UniqueIn
<1>. QED
  BY <1>1, <1>2

(* Two arrays with the same live entries of k, of the same values, give k *)
(* the same value.                                                         *)
LEMMA SameLive ==
  ASSUME NEW es \in Seq(KVEntry), NEW fs \in Seq(KVEntry), NEW k,
         UniqueIn(es, k), UniqueIn(fs, k), LiveIn(fs, k) = LiveIn(es, k),
         \A i \in LiveIn(es, k) : fs[i].value = es[i].value
  PROVE  ValueIn(fs, k) = ValueIn(es, k)
<1>1. CASE LiveIn(es, k) = {}
  BY <1>1, ValueChar
<1>2. CASE LiveIn(es, k) # {}
  <2>1. PICK i \in LiveIn(es, k) : TRUE
    BY <1>2
  <2>. QED
    BY <2>1, ValueChar
<1>. QED
  BY <1>1, <1>2

(* An Ordered array has at most one live entry of each key.                *)
LEMMA OrderedUniqueIn ==
  ASSUME NEW es \in Seq(KVEntry), Ordered(es), NEW k \in Keys
  PROVE  UniqueIn(es, k)
BY DEF Ordered, UniqueIn, LiveIn

(* LiveValue is ValueIn of the current array, before and after a step.     *)
LEMMA LiveValueIs ==
  ASSUME NEW k
  PROVE  /\ LiveValue(k) = ValueIn(entries, k)
         /\ LiveValue(k)' = ValueIn(entries', k)
BY DEF LiveValue, FindEntry, ValueIn, FindIn

(* Under the store's invariant, before and after a step, every key has at *)
(* most one live entry.                                                    *)
LEMMA UniqueBoth ==
  ASSUME KVInv, KVInv', NEW k \in Keys
  PROVE  /\ entries \in Seq(KVEntry) /\ UniqueIn(entries, k)
         /\ entries' \in Seq(KVEntry) /\ UniqueIn(entries', k)
<1>1. entries \in Seq(KVEntry) /\ Ordered(entries)
  BY DEF KVInv, KVTypeOK
<1>2. entries' \in Seq(KVEntry) /\ Ordered(entries')
  BY DEF KVInv, KVTypeOK, Ordered
<1>. QED
  BY <1>1, <1>2, OrderedUniqueIn

(* What pgraft_kv_put makes of the values get returns: the key gets the   *)
(* value, every other key keeps its own.                                   *)
LEMMA PutValues ==
  ASSUME KVInv, KVInv', NEW p \in Procs, NEW k0 \in Keys, NEW v0 \in Values,
         NEW li \in LogIndexes,
         PutUpdate(p, k0, v0, li) \/ PutCreate(p, k0, v0, li),
         NEW k \in Keys
  PROVE  LiveValue(k)' = IF k = k0 THEN v0 ELSE LiveValue(k)
<1>0. /\ entries \in Seq(KVEntry) /\ UniqueIn(entries, k)
      /\ entries' \in Seq(KVEntry) /\ UniqueIn(entries', k)
  BY UniqueBoth
<1> SUFFICES ValueIn(entries', k) = IF k = k0 THEN v0 ELSE ValueIn(entries, k)
  BY LiveValueIs
<1>1. CASE PutUpdate(p, k0, v0, li)
  <2> DEFINE i == FindEntry(k0)
  <2>1. /\ i \in LiveOf(k0)
        /\ Len(entries') = Len(entries)
        /\ \A m \in 1 .. Len(entries) :
             entries'[m] = IF m = i
                             THEN [key |-> k0, value |-> v0,
                                   version |-> entries[i].version + 1,
                                   log_index |-> li, deleted |-> FALSE]
                             ELSE entries[m]
    BY <1>1, PutUpdateEntries DEF KVInv
  <2>2. CASE k = k0
    <3>1. i \in LiveIn(entries', k) /\ entries'[i].value = v0
      BY <2>1, <2>2 DEF LiveOf, LiveIn
    <3>. QED
      BY <1>0, <2>2, <3>1, ValueChar
  <2>3. CASE k # k0
    <3>1. LiveIn(entries', k) = LiveIn(entries, k)
      BY <2>1, <2>3 DEF LiveOf, LiveIn
    <3>2. \A m \in LiveIn(entries, k) : entries'[m] = entries[m]
      BY <2>1, <2>3 DEF LiveOf, LiveIn
    <3>. QED
      BY <1>0, <2>3, <3>1, <3>2, SameLive
  <2>. QED
    BY <2>2, <2>3
<1>2. CASE PutCreate(p, k0, v0, li)
  <2> DEFINE L == Len(entries)
  <2>1. /\ Len(entries') = L + 1
        /\ entries'[L + 1] = NewEntry(k0, v0, li)
        /\ \A m \in 1 .. L : entries'[m] = entries[m]
    BY <1>0, <1>2, AppendProperties DEF PutCreate, KVInv, KVTypeOK
  <2>2. CASE k = k0
    <3>1. L + 1 \in LiveIn(entries', k) /\ entries'[L + 1].value = v0
      BY <1>0, <2>1, <2>2 DEF LiveIn, NewEntry
    <3>. QED
      BY <1>0, <2>2, <3>1, ValueChar
  <2>3. CASE k # k0
    <3>1. LiveIn(entries', k) = LiveIn(entries, k)
      BY <1>0, <2>1, <2>3 DEF LiveIn, NewEntry
    <3>. QED
      BY <1>0, <2>1, <2>3, <3>1, SameLive DEF LiveIn
  <2>. QED
    BY <2>2, <2>3
<1>. QED
  BY <1>1, <1>2

(* What pgraft_kv_delete makes of them: the key becomes absent, every    *)
(* other key keeps its value.                                              *)
LEMMA DeleteValues ==
  ASSUME KVInv, KVInv', NEW p \in Procs, NEW k0 \in Keys,
         NEW li \in LogIndexes, Delete(p, k0, li), NEW k \in Keys
  PROVE  LiveValue(k)' = IF k = k0 THEN "absent" ELSE LiveValue(k)
<1>0. /\ entries \in Seq(KVEntry) /\ UniqueIn(entries, k)
      /\ entries' \in Seq(KVEntry) /\ UniqueIn(entries', k)
  BY UniqueBoth
<1> SUFFICES ValueIn(entries', k) =
               IF k = k0 THEN "absent" ELSE ValueIn(entries, k)
  BY LiveValueIs
<1> DEFINE i == FindEntry(k0)
<1>1. /\ i \in LiveOf(k0)
      /\ Len(entries') = Len(entries)
      /\ \A m \in 1 .. Len(entries) :
           entries'[m] = IF m = i
                           THEN [key |-> entries[i].key,
                                 value |-> entries[i].value,
                                 version |-> entries[i].version + 1,
                                 log_index |-> li, deleted |-> TRUE]
                           ELSE entries[m]
  BY DeleteEntries DEF KVInv
<1>2. CASE k = k0
  <2>1. i \in LiveIn(entries, k)
    BY <1>1, <1>2 DEF LiveOf, LiveIn
  <2>2. LiveIn(entries', k) = {}
    <3> SUFFICES ASSUME NEW m \in LiveIn(entries', k) PROVE FALSE
      OBVIOUS
    <3>1. m # i /\ m \in LiveIn(entries, k)
      BY <1>1 DEF LiveIn
    <3>. QED
      BY <1>0, <2>1, <3>1 DEF UniqueIn
  <2>. QED
    BY <1>0, <1>2, <2>2, ValueChar
<1>3. CASE k # k0
  <2>1. LiveIn(entries', k) = LiveIn(entries, k)
    BY <1>1, <1>3 DEF LiveOf, LiveIn
  <2>2. \A m \in LiveIn(entries, k) : entries'[m] = entries[m]
    BY <1>1, <1>3 DEF LiveOf, LiveIn
  <2>. QED
    BY <1>0, <1>3, <2>1, <2>2, SameLive
<1>. QED
  BY <1>2, <1>3

(* A live entry keeps its place among the live entries: compaction moves  *)
(* it to slot Rank, and the entry at that slot is it.                      *)
LEMMA PosRank ==
  ASSUME NEW es \in Seq(KVEntry), NEW i \in Kept(es)
  PROVE  Rank(es, i) \in 1 .. Cardinality(Kept(es)) /\ Pos(es, Rank(es, i)) = i
<1> DEFINE j == Rank(es, i)
           q == Pos(es, j)
<1>1. j \in 1 .. Cardinality(Kept(es))
  BY RankRange
<1>2. q \in Kept(es) /\ Rank(es, q) = j
  BY <1>1, PosFacts
<1>3. Kept(es) \subseteq Nat
  BY KeptFinite
<1>4. ~(q < i)
  <2> SUFFICES ASSUME q < i PROVE FALSE
    OBVIOUS
  <2>1. Rank(es, q) < Rank(es, i)
    BY <1>2, RankMonotone
  <2>. QED
    BY <1>1, <1>2, <2>1 DEF j
<1>5. ~(i < q)
  <2> SUFFICES ASSUME i < q PROVE FALSE
    OBVIOUS
  <2>1. Rank(es, i) < Rank(es, q)
    BY <1>2, RankMonotone
  <2>. QED
    BY <1>1, <1>2, <2>1 DEF j
<1>. QED
  BY <1>1, <1>2, <1>3, <1>4, <1>5 DEF q

(* pgraft_kv_compact changes no value get returns.                         *)
LEMMA CompactValues ==
  ASSUME KVInv, KVInv', NEW p \in Procs, Compact(p), NEW k \in Keys
  PROVE  LiveValue(k)' = LiveValue(k)
<1>0. /\ entries \in Seq(KVEntry) /\ UniqueIn(entries, k)
      /\ entries' \in Seq(KVEntry) /\ UniqueIn(entries', k)
  BY UniqueBoth
<1> SUFFICES ValueIn(entries', k) = ValueIn(entries, k)
  BY LiveValueIs
<1>1. /\ entries' = Compacted(entries)
      /\ Len(entries') = Cardinality(Kept(entries))
      /\ \A j \in 1 .. Len(entries') :
           Pos(entries, j) \in Kept(entries)
           /\ entries'[j] = entries[Pos(entries, j)]
  BY <1>0, CompactedFacts DEF Compact
<1>2. CASE LiveIn(entries, k) = {}
  <2>1. LiveIn(entries', k) = {}
    <3> SUFFICES ASSUME NEW j \in LiveIn(entries', k) PROVE FALSE
      OBVIOUS
    <3>1. Pos(entries, j) \in LiveIn(entries, k)
      BY <1>1 DEF LiveIn, Kept
    <3>. QED
      BY <1>2, <3>1
  <2>. QED
    BY <1>0, <1>2, <2>1, ValueChar
<1>3. CASE LiveIn(entries, k) # {}
  <2>1. PICK i \in LiveIn(entries, k) : TRUE
    BY <1>3
  <2>2. i \in Kept(entries)
    BY <2>1 DEF LiveIn, Kept
  <2>3. Rank(entries, i) \in 1 .. Len(entries')
        /\ Pos(entries, Rank(entries, i)) = i
    BY <1>0, <1>1, <2>2, PosRank
  <2>4. Rank(entries, i) \in LiveIn(entries', k)
        /\ entries'[Rank(entries, i)] = entries[i]
    BY <1>1, <2>1, <2>3 DEF LiveIn
  <2>. QED
    BY <1>0, <2>1, <2>4, ValueChar
<1>. QED
  BY <1>2, <1>3

----------------------------------------------------------------------------
(* The claim after a step, in the three ways a step can bear on it.        *)

(* When the engine resumes from the first entry, nothing is claimed.       *)
LEMMA AgreeFromStart ==
  ASSUME Done' = 0
  PROVE  TouchedKeysAgree'
BY ExpectedZero DEF TouchedKeysAgree

(* A step that leaves Done, the apply queue and every value get returns   *)
(* as they were keeps the claim.                                           *)
LEMMA AgreeKept ==
  ASSUME TouchedKeysAgree, Done' = Done, apply_queue' = apply_queue,
         \A k \in Keys : LiveValue(k)' = LiveValue(k)
  PROVE  TouchedKeysAgree'
BY DEF TouchedKeysAgree

(* The callback takes effect for entry i = next: get then returns, for the *)
(* key the entry is about, what the entry gives it, and for every other    *)
(* key what it returned before.                                            *)
LEMMA AgreeApplied ==
  ASSUME TouchedKeysAgree, NEW i \in 1 .. Len(Stream), Handing(i), Mutated(i),
         \A k \in Keys :
           LiveValue(k)' =
             IF Stream[i].type # "sql" /\ Stream[i].key = k
               THEN IF Stream[i].type = "kv_put" THEN Stream[i].value
                    ELSE "absent"
               ELSE LiveValue(k)
  PROVE  TouchedKeysAgree'
<1> SUFFICES ASSUME apply_queue' = << >>, NEW k \in Keys
             PROVE  Expected(Done', k) = "untouched"
                    \/ Expected(Done', k) = LiveValue(k)'
  BY DEF TouchedKeysAgree
<1>1. Done = i - 1 /\ Done' = i /\ apply_queue = << >>
  BY DEF Handing, Mutated, Done
<1>2. Expected(i - 1, k) = "untouched" \/ Expected(i - 1, k) = LiveValue(k)
  BY <1>1 DEF TouchedKeysAgree
<1>. QED
  BY <1>1, <1>2, ExpectedStep


----------------------------------------------------------------------------
LEMMA InitApInv == Init => ApInv
<1> SUFFICES ASSUME Init PROVE ApInv
  OBVIOUS
<1>1. KVInv
  BY InitKVInv DEF Init
<1>2. ApplyTypeOK
  BY <1>1, ApplyAssumption DEF Init, ApplyTypeOK, KVInv
<1>3. LaiZero
  BY DEF Init, KVInit, LaiZero, NoFile, NoTail, Loadable
<1>4. TouchedKeysAgree
  BY ExpectedZero DEF Init, TouchedKeysAgree, Done
<1>. QED
  BY <1>1, <1>2, <1>3, <1>4 DEF ApInv

(* The callback's bookkeeping when an entry takes effect: the index is     *)
(* kept in cur and in the history, and nothing else of the pipeline moves. *)
LEMMA MutatedType ==
  ASSUME ApInv, KVTypeOK', NEW i \in 1 .. Len(Stream), Handing(i), Mutated(i)
  PROVE  ApplyTypeOK'
BY AppendProperties DEF ApInv, ApplyTypeOK, Handing, Mutated

(* pgraft_apply_kv_operation, PUT: pgraft_kv_put(key, value, 0).           *)
LEMMA ApplyPutStep ==
  ASSUME ApInv, NEW i \in 1 .. Len(Stream), ApplyPut(i)
  PROVE  ApInv'
<1> DEFINE op == Stream[i]
<1>1. op.type = "kv_put" /\ op.key \in Keys /\ op.value \in Values
  BY PayloadFacts DEF ApplyPut
<1>2. ApplyProc \in Procs /\ 0 \in LogIndexes
  BY ApplyAssumption
<1>3. /\ PutUpdate(ApplyProc, op.key, op.value, 0)
         \/ PutCreate(ApplyProc, op.key, op.value, 0)
      /\ last_applied_index' = 0 /\ UNCHANGED <<file, buffered>>
  BY DEF ApplyPut, PutUpdate, PutCreate
<1>4. KVInv'
  BY <1>1, <1>2, <1>3, PutUpdateStep, PutCreateStep DEF ApInv
<1>5. ApplyTypeOK'
  BY <1>4, MutatedType DEF ApplyPut, KVInv
<1>6. LaiZero'
  BY <1>3 DEF ApInv, LaiZero, Loadable
<1>7. TouchedKeysAgree'
  <2>1. \A k \in Keys :
          LiveValue(k)' =
            IF op.type # "sql" /\ op.key = k
              THEN IF op.type = "kv_put" THEN op.value ELSE "absent"
              ELSE LiveValue(k)
    <3> SUFFICES ASSUME NEW k \in Keys
                 PROVE  LiveValue(k)' = IF k = op.key THEN op.value
                                        ELSE LiveValue(k)
      BY <1>1
    <3>. QED
      BY <1>1, <1>2, <1>3, <1>4, PutValues DEF ApInv
  <2>. QED
    BY <2>1, AgreeApplied DEF ApplyPut, ApInv
<1>. QED
  BY <1>4, <1>5, <1>6, <1>7 DEF ApInv

(* pgraft_apply_kv_operation, DELETE: pgraft_kv_delete(key, 0).            *)
LEMMA ApplyDeleteStep ==
  ASSUME ApInv, NEW i \in 1 .. Len(Stream), ApplyDelete(i)
  PROVE  ApInv'
<1> DEFINE op == Stream[i]
<1>1. op.type = "kv_delete" /\ op.key \in Keys
  BY PayloadFacts DEF ApplyDelete
<1>2. ApplyProc \in Procs /\ 0 \in LogIndexes
  BY ApplyAssumption
<1>3. /\ Delete(ApplyProc, op.key, 0)
      /\ last_applied_index' = 0 /\ UNCHANGED <<file, buffered>>
  BY DEF ApplyDelete, Delete
<1>4. KVInv'
  BY <1>1, <1>2, <1>3, DeleteStep DEF ApInv
<1>5. ApplyTypeOK'
  BY <1>4, MutatedType DEF ApplyDelete, KVInv
<1>6. LaiZero'
  BY <1>3 DEF ApInv, LaiZero, Loadable
<1>7. TouchedKeysAgree'
  <2>1. \A k \in Keys :
          LiveValue(k)' =
            IF op.type # "sql" /\ op.key = k
              THEN IF op.type = "kv_put" THEN op.value ELSE "absent"
              ELSE LiveValue(k)
    <3> SUFFICES ASSUME NEW k \in Keys
                 PROVE  LiveValue(k)' = IF k = op.key THEN "absent"
                                        ELSE LiveValue(k)
      BY <1>1
    <3>. QED
      BY <1>1, <1>2, <1>3, <1>4, DeleteValues DEF ApInv
  <2>. QED
    BY <2>1, AgreeApplied DEF ApplyDelete, ApInv
<1>. QED
  BY <1>4, <1>5, <1>6, <1>7 DEF ApInv

(* A step that leaves the store alone keeps its invariant, LaiZero and    *)
(* every value get returns.                                                *)
LEMMA KVUnchanged ==
  ASSUME KVInv, LaiZero, UNCHANGED kvvars
  PROVE  /\ KVInv' /\ LaiZero'
         /\ \A k \in Keys : LiveValue(k)' = LiveValue(k)
<1>1. UNCHANGED <<entries, rest, last_applied_index, file, pc, handle,
                  buffered>>
  BY DEF kvvars
<1>2. KVInv'
  BY KVInvUnchanged
<1>3. LaiZero'
  BY <1>1 DEF LaiZero, Loadable
<1>4. \A k \in Keys : LiveValue(k)' = LiveValue(k)
  BY <1>1 DEF LiveValue, FindEntry
<1>. QED
  BY <1>2, <1>3, <1>4

(* pgraft_apply_entry_to_postgres runs a SQL payload through SPI: the      *)
(* entry takes effect, the store is untouched.                             *)
LEMMA ApplySqlStep ==
  ASSUME ApInv, NEW i \in 1 .. Len(Stream), ApplySql(i)
  PROVE  ApInv'
<1>1. /\ KVInv' /\ LaiZero'
      /\ \A k \in Keys : LiveValue(k)' = LiveValue(k)
  BY KVUnchanged DEF ApInv, ApplySql
<1>2. Handing(i) /\ Mutated(i) /\ Stream[i].type = "sql"
  BY DEF ApplySql, Mutated
<1>3. ApplyTypeOK'
  BY <1>1, <1>2, MutatedType DEF KVInv
<1>4. TouchedKeysAgree'
  BY <1>1, <1>2, AgreeApplied DEF ApInv
<1>. QED
  BY <1>1, <1>3, <1>4 DEF ApInv

(* An ERROR on the KV path: the worker restarts and the engine resumes     *)
(* after the store's last_applied_index, which is 0.                       *)
LEMMA ApplyFatalStep ==
  ASSUME ApInv, NEW i \in 1 .. Len(Stream), ApplyFatal(i)
  PROVE  ApInv'
<1>1. KVInv' /\ LaiZero'
  BY KVUnchanged DEF ApInv, ApplyFatal
<1>2. next' = 1 /\ apc' = "idle"
  BY DEF ApplyFatal, Resume, Handing, ApInv, LaiZero
<1>3. ApplyTypeOK'
  BY <1>1, <1>2, StreamLen, ApplyAssumption
     DEF ApplyFatal, ApInv, ApplyTypeOK, KVInv
<1>4. TouchedKeysAgree'
  BY <1>2, AgreeFromStart DEF Done
<1>. QED
  BY <1>1, <1>3, <1>4 DEF ApInv

(* pgraft_enqueue_apply_entry: the entry goes to the apply queue, which    *)
(* nothing drains, so no claim is made from then on.                       *)
LEMMA EnqueueStep ==
  ASSUME ApInv, NEW i \in 1 .. Len(Stream), Enqueue(i)
  PROVE  ApInv'
<1>1. KVInv' /\ LaiZero'
  BY KVUnchanged DEF ApInv, Enqueue
<1>2. /\ apply_queue' \in Seq(1 .. Len(Stream))
      /\ Len(apply_queue') = Len(apply_queue) + 1
      /\ apply_queue' # << >>
  BY AppendProperties DEF Enqueue, ApInv, ApplyTypeOK
<1>3. ApplyTypeOK'
  BY <1>1, <1>2, StreamLen, ApplyAssumption, LenProperties
     DEF Enqueue, ApInv, ApplyTypeOK, KVInv
<1>4. TouchedKeysAgree'
  BY <1>2 DEF TouchedKeysAgree
<1>. QED
  BY <1>1, <1>3, <1>4 DEF ApInv

(* pgraft_record_applied_index once the callback's save is done: the      *)
(* engine moves past the entry, which stays the last one taken effect.     *)
LEMMA RecordAppliedStep ==
  ASSUME ApInv, RecordApplied
  PROVE  ApInv'
<1>1. /\ KVInv' /\ LaiZero'
      /\ \A k \in Keys : LiveValue(k)' = LiveValue(k)
  BY KVUnchanged DEF ApInv, RecordApplied
<1>2. ApplyTypeOK'
  BY <1>1 DEF RecordApplied, ApInv, ApplyTypeOK, KVInv
<1>3. Done' = Done
  BY DEF RecordApplied, Done, ApInv, ApplyTypeOK
<1>4. TouchedKeysAgree'
  BY <1>1, <1>3, AgreeKept DEF RecordApplied, ApInv
<1>. QED
  BY <1>1, <1>2, <1>4 DEF ApInv

(* A SQL backend compacts the store while the callback runs: what get      *)
(* returns does not change.                                                *)
LEMMA BackendStep ==
  ASSUME ApInv, NEW p \in Procs, Backend(p)
  PROVE  ApInv'
<1>1. KVInv'
  BY CompactStep DEF ApInv, Backend
<1>2. \A k \in Keys : LiveValue(k)' = LiveValue(k)
  BY <1>1, CompactValues DEF ApInv, Backend
<1>3. LaiZero'
  BY DEF Backend, Compact, ApInv, LaiZero, Loadable
<1>4. ApplyTypeOK'
  BY <1>1 DEF Backend, apvars, ApInv, ApplyTypeOK, KVInv
<1>5. TouchedKeysAgree'
  BY <1>2, AgreeKept DEF Backend, apvars, Done, ApInv
<1>. QED
  BY <1>1, <1>3, <1>4, <1>5 DEF ApInv

(* The steps of a save leave the array alone; what they put in a FILE's   *)
(* buffer or the file's tail is the tail of the store, whose               *)
(* last_applied_index is 0, an empty tail, or a tail already there.        *)
LEMMA SavingStep ==
  ASSUME ApInv, NEW p \in Procs, Saving(p)
  PROVE  ApInv'
<1>1. KVInv'
  BY SaveOpenStep, SaveWriteStep, SaveCloseStep DEF ApInv, Saving, SaveStep
<1>2. UNCHANGED <<entries, last_applied_index>>
  BY DEF Saving, SaveStep, SaveOpen, SaveWrite, SaveClose
<1>3. LaiZero'
  <2>1. CASE SaveOpen(p)
    BY <2>1, NoTailFacts DEF SaveOpen, ApInv, LaiZero, Loadable
  <2>2. CASE SaveWrite(p)
    <3>1. TailNow.last_applied_index = 0
      BY DEF TailNow, ApInv, LaiZero
    <3>2. \A q \in Procs : buffered'[q].last_applied_index = 0
      <4>1. buffered \in [Procs -> StoreTail \cup {NoTail}]
        BY DEF ApInv, KVInv, KVTypeOK
      <4>. QED
        BY <2>2, <3>1, <4>1 DEF SaveWrite, ApInv, LaiZero
    <3>3. file \in SnapshotFile \cup {NoFile}
      BY DEF ApInv, KVInv, KVTypeOK
    <3>4. Loadable(file') => Loadable(file) /\ file'.tail = file.tail
      BY <2>2, <3>3 DEF SaveWrite, Loadable, SnapshotFile, NoFile
    <3>. QED
      BY <1>2, <3>2, <3>4 DEF ApInv, LaiZero
  <2>3. CASE SaveClose(p)
    <3>1. NoTail.last_applied_index = 0
      BY DEF NoTail
    <3>2. \A q \in Procs : buffered'[q].last_applied_index = 0
      BY <2>3, <3>1 DEF SaveClose, ApInv, LaiZero
    <3>3. CASE UNCHANGED file
      BY <1>2, <3>2, <3>3 DEF ApInv, LaiZero, Loadable
    <3>4. CASE handle[p] /\ buffered[p].written
               /\ file' = [file EXCEPT !.tail = buffered[p]]
      <4>1. file \in SnapshotFile
        BY <3>4 DEF ApInv, KVInv, KVTypeOK, BufOK, NoFile
      <4>2. file'.tail.last_applied_index = 0
        BY <3>4, <4>1 DEF SnapshotFile, ApInv, LaiZero
      <4>. QED
        BY <1>2, <3>2, <4>2 DEF ApInv, LaiZero
    <3>. QED
      BY <2>3, <3>3, <3>4 DEF SaveClose
  <2>. QED
    BY <2>1, <2>2, <2>3 DEF Saving, SaveStep
<1>4. ApplyTypeOK'
  BY <1>1 DEF Saving, apvars, ApInv, ApplyTypeOK, KVInv
<1>5. TouchedKeysAgree'
  <2>1. \A k \in Keys : LiveValue(k)' = LiveValue(k)
    BY <1>2 DEF LiveValue, FindEntry
  <2>. QED
    BY <2>1, AgreeKept DEF Saving, apvars, Done, ApInv
<1>. QED
  BY <1>1, <1>3, <1>4, <1>5 DEF ApInv

(* A backend crash: the store is reloaded with last_applied_index 0, the  *)
(* FILE buffers are gone, and the engine resumes from the first entry.     *)
LEMMA CrashAppStep ==
  ASSUME ApInv, Crash
  PROVE  ApInv'
<1>1. KVInv'
  BY CrashStep DEF ApInv, Crash
<1>2. /\ last_applied_index' = 0 /\ UNCHANGED file
      /\ buffered' = [q \in Procs |-> NoTail]
  BY DEF Crash, CrashRestart, ApInv, LaiZero
<1>3. LaiZero'
  BY <1>2 DEF ApInv, LaiZero, Loadable, NoTail
<1>4. next' = 1 /\ apc' = "idle"
  BY <1>2 DEF Crash, Resume
<1>5. ApplyTypeOK'
  BY <1>1, <1>4, EmptySeq, StreamLen, ApplyAssumption
     DEF Crash, ApInv, ApplyTypeOK, KVInv
<1>6. TouchedKeysAgree'
  BY <1>4, AgreeFromStart DEF Done
<1>. QED
  BY <1>1, <1>3, <1>5, <1>6 DEF ApInv

LEMMA NextApInv == ApInv /\ [Next]_vars => ApInv'
<1> SUFFICES ASSUME ApInv, [Next]_vars PROVE ApInv'
  OBVIOUS
<1>1. ASSUME NEW i \in 1 .. Len(Stream),
             ApplyPut(i) \/ ApplyDelete(i) \/ ApplySql(i) \/ ApplyFatal(i)
             \/ Enqueue(i)
      PROVE  ApInv'
  BY <1>1, ApplyPutStep, ApplyDeleteStep, ApplySqlStep, ApplyFatalStep,
     EnqueueStep
<1>2. CASE RecordApplied
  BY <1>2, RecordAppliedStep
<1>3. ASSUME NEW p \in Procs, Backend(p) \/ Saving(p) PROVE ApInv'
  BY <1>3, BackendStep, SavingStep
<1>4. CASE Crash
  BY <1>4, CrashAppStep
<1>5. CASE UNCHANGED vars
  <2>1. /\ KVInv' /\ LaiZero'
        /\ \A k \in Keys : LiveValue(k)' = LiveValue(k)
    BY <1>5, KVUnchanged DEF ApInv, vars
  <2>2. ApplyTypeOK'
    BY <1>5, <2>1 DEF vars, apvars, ApInv, ApplyTypeOK, KVInv
  <2>3. TouchedKeysAgree'
    BY <1>5, <2>1, AgreeKept DEF vars, apvars, Done, ApInv
  <2>. QED
    BY <2>1, <2>2, <2>3 DEF ApInv
<1>. QED
  BY <1>1, <1>2, <1>3, <1>4, <1>5 DEF Next, ApplyStep

(* Type correctness of the pipeline, for every commit stream and every     *)
(* bound: the engine's next index, the callback's current one, the apply   *)
(* queue (never more than MAX_APPLY_ENTRIES) and the store stay in range,  *)
(* through ERRORs, crashes and concurrent compaction.                      *)
THEOREM ApplyTypeCorrect == Spec => []ApplyTypeOK
BY InitApInv, NextApInv, PTL DEF Spec, ApInv

(* For every commit stream, every store capacity and every interleaving of *)
(* the callback with compaction by SQL backends, torn saves, crashes that  *)
(* reload an older or empty snapshot, and restarts after an ERROR: while   *)
(* the apply queue is empty, get returns, for every key some entry up to   *)
(* the last one taken effect is about, the value the stream gives it.      *)
THEOREM StoreFollowsStream == Spec => []TouchedKeysAgree
BY InitApInv, NextApInv, PTL DEF Spec, ApInv

=============================================================================

