---------------------------- MODULE KVStoreProofs ----------------------------
(***************************************************************************)
(* Proofs about the key/value store of pgraft_kv.c, for every set of       *)
(* processes, keys and values, every capacity and every version bound.     *)
(*                                                                         *)
(* Compaction is the loop of pgraft_kv_compact, which moves entry i to the *)
(* slot given by the number of live entries up to i (Rank).  The first     *)
(* group of lemmas shows, with the cardinality facts of FiniteSetTheorems, *)
(* that Rank numbers the live entries 1 .. n without gap or repeat, so     *)
(* that the compacted array holds every live entry exactly once and        *)
(* nothing else.  pgraft_kv_find_entry_index returns the first live entry  *)
(* of the key; that a first one exists is the well-foundedness of < on     *)
(* Nat (WFMin).                                                            *)
(*                                                                         *)
(* The second part proves that the store keeps one live entry per key     *)
(* across crashes, although a save writes its body under the lock and its *)
(* tail at fclose, so that a reload may combine two saves: the invariant  *)
(* KVInv, its argument in the comment before it.                           *)
(***************************************************************************)
EXTENDS KVStore, FiniteSetTheorems, SequenceTheorems, WellFoundedInduction,
        TLAPS

(* The live entries up to position i, which Rank counts.                   *)
Below(es, i) == {m \in Kept(es) : m <= i}

(* The live entry that compaction moves to slot j.                         *)
Pos(es, j) == CHOOSE i \in Kept(es) : Rank(es, i) = j

(* An interval 1 .. n has n elements.                                      *)
LEMMA IntervalCard ==
  ASSUME NEW n \in Nat
  PROVE  IsFiniteSet(1 .. n) /\ Cardinality(1 .. n) = n
BY FS_Interval

(* The live entries of an array form a finite set of positions, and there *)
(* are at most as many as entries.                                         *)
LEMMA KeptFinite ==
  ASSUME NEW es \in Seq(KVEntry)
  PROVE  /\ Kept(es) \subseteq 1 .. Len(es)
         /\ IsFiniteSet(Kept(es))
         /\ Cardinality(Kept(es)) \in 0 .. Len(es)
<1>1. Kept(es) \subseteq 1 .. Len(es)
  BY DEF Kept
<1>2. IsFiniteSet(1 .. Len(es)) /\ Cardinality(1 .. Len(es)) = Len(es)
  BY IntervalCard
<1>3. IsFiniteSet(Kept(es)) /\ Cardinality(Kept(es)) <= Len(es)
  BY <1>1, <1>2, FS_Subset
<1>4. Cardinality(Kept(es)) \in Nat
  BY <1>3, FS_CardinalityType
<1>. QED
  BY <1>1, <1>3, <1>4

(* A live entry's rank is a slot of the compacted array.                   *)
LEMMA RankRange ==
  ASSUME NEW es \in Seq(KVEntry), NEW i \in Kept(es)
  PROVE  Rank(es, i) \in 1 .. Cardinality(Kept(es))
<1>1. IsFiniteSet(Kept(es)) /\ Cardinality(Kept(es)) \in Nat
  BY KeptFinite
<1>2. Below(es, i) \subseteq Kept(es)
  BY DEF Below
<1>3. IsFiniteSet(Below(es, i))
      /\ Cardinality(Below(es, i)) <= Cardinality(Kept(es))
  BY <1>1, <1>2, FS_Subset
<1>4. Below(es, i) # {}
  <2>1. i \in Below(es, i)
    BY KeptFinite DEF Below
  <2>. QED
    BY <2>1
<1>5. Cardinality(Below(es, i)) \in Nat /\ Cardinality(Below(es, i)) # 0
  BY <1>3, <1>4, FS_CardinalityType, FS_EmptySet
<1>. QED
  BY <1>1, <1>3, <1>5 DEF Rank, Below

(* Ranks grow strictly along the array: the live entries up to a later    *)
(* live entry are those up to an earlier one and at least that entry.      *)
LEMMA RankMonotone ==
  ASSUME NEW es \in Seq(KVEntry), NEW i \in Kept(es), NEW k \in Kept(es),
         i < k
  PROVE  Rank(es, i) < Rank(es, k)
<1>1. IsFiniteSet(Kept(es))
  BY KeptFinite
<1>2. Below(es, k) \subseteq Kept(es) /\ Below(es, i) \subseteq Below(es, k)
  BY KeptFinite DEF Below
<1>3. IsFiniteSet(Below(es, k))
  BY <1>1, <1>2, FS_Subset
<1>4. /\ Cardinality(Below(es, i)) <= Cardinality(Below(es, k))
      /\ Cardinality(Below(es, k)) = Cardinality(Below(es, i))
           => Below(es, k) = Below(es, i)
  BY <1>2, <1>3, FS_Subset
<1>5. k \in Below(es, k) /\ k \notin Below(es, i)
  BY KeptFinite DEF Below
<1>6. Cardinality(Below(es, i)) \in Nat /\ Cardinality(Below(es, k)) \in Nat
  BY <1>2, <1>3, FS_Subset, FS_CardinalityType
<1>. QED
  BY <1>4, <1>5, <1>6 DEF Rank, Below

(* So ranks number the live entries 1 .. n one to one: every slot of the  *)
(* compacted array receives exactly one live entry.                        *)
LEMMA RankOnto ==
  ASSUME NEW es \in Seq(KVEntry),
         NEW j \in 1 .. Cardinality(Kept(es))
  PROVE  \E i \in Kept(es) : Rank(es, i) = j
<1> DEFINE K == Kept(es)
           n == Cardinality(K)
           f == [i \in K |-> Rank(es, i)]
<1> USE DEF K, n
<1>1. IsFiniteSet(K) /\ n \in Nat /\ K \subseteq Nat
  BY KeptFinite
<1>2. f \in Injection(K, 1 .. n)
  <2>1. f \in [K -> 1 .. n]
    BY RankRange DEF f
  <2>2. ASSUME NEW a \in K, NEW b \in K, f[a] = f[b] PROVE a = b
    <3>0. /\ f[a] = Rank(es, a) /\ f[b] = Rank(es, b)
          /\ Rank(es, a) \in Nat /\ Rank(es, b) \in Nat
      BY RankRange DEF f
    <3>1. CASE a < b
      <4>1. Rank(es, a) < Rank(es, b)
        BY <3>1, RankMonotone
      <4>. QED
        BY <2>2, <3>0, <4>1
    <3>2. CASE b < a
      <4>1. Rank(es, b) < Rank(es, a)
        BY <3>2, RankMonotone
      <4>. QED
        BY <2>2, <3>0, <4>1
    <3>. QED
      BY <1>1, <3>1, <3>2
  <2>. QED
    BY <2>1, <2>2 DEF Injection, IsInjective
<1>3. IsFiniteSet(1 .. n) /\ Cardinality(1 .. n) = n
  BY <1>1, IntervalCard
<1>4. f \in Surjection(K, 1 .. n)
  BY <1>2, <1>3, FS_Injection
<1>. QED
  BY <1>4 DEF Surjection, f

(* Slot j of the compacted array receives the live entry Pos(es, j), the   *)
(* one of rank j; distinct slots receive distinct entries.                 *)
LEMMA PosFacts ==
  ASSUME NEW es \in Seq(KVEntry),
         NEW j \in 1 .. Cardinality(Kept(es))
  PROVE  Pos(es, j) \in Kept(es) /\ Rank(es, Pos(es, j)) = j
BY RankOnto DEF Pos

(* Compaction yields an array of entries, no longer than the old one, of  *)
(* the live entries only, each slot holding the live entry of its rank.    *)
LEMMA CompactedFacts ==
  ASSUME NEW es \in Seq(KVEntry)
  PROVE  LET c == Compacted(es) IN
         /\ c \in Seq(KVEntry)
         /\ Len(c) = Cardinality(Kept(es))
         /\ Len(c) <= Len(es)
         /\ \A j \in 1 .. Len(c) :
              /\ Pos(es, j) \in Kept(es)
              /\ c[j] = es[Pos(es, j)]
              /\ \A k \in 1 .. Len(c) : k # j => Pos(es, k) # Pos(es, j)
<1> DEFINE n == Cardinality(Kept(es))
           c == Compacted(es)
<1>1. n \in 0 .. Len(es) /\ Kept(es) \subseteq 1 .. Len(es)
  BY KeptFinite
<1>2. c = [j \in 1 .. n |-> es[Pos(es, j)]]
  BY DEF Compacted, Pos
<1>3. \A j \in 1 .. n : Pos(es, j) \in Kept(es) /\ Rank(es, Pos(es, j)) = j
  BY PosFacts
<1>4. \A j \in 1 .. n : es[Pos(es, j)] \in KVEntry
  BY <1>1, <1>3
<1>5. c \in Seq(KVEntry) /\ Len(c) = n
  BY <1>1, <1>2, <1>4
<1>6. \A j, k \in 1 .. n : k # j => Pos(es, k) # Pos(es, j)
  BY <1>3
<1>. QED
  BY <1>1, <1>2, <1>3, <1>5, <1>6


(* The live entries of key, among which pgraft_kv_find_entry_index looks. *)
LiveOf(key) == {i \in 1 .. Len(entries) :
                  ~entries[i].deleted /\ entries[i].key = key}

(* A nonempty set of naturals has a least element.                         *)
LEMMA LeastExists ==
  ASSUME NEW T \in SUBSET Nat, T # {}
  PROVE  \E x \in T : \A y \in T : x <= y
<1>1. \E x \in T : \A y \in T : ~(<<y, x>> \in OpToRel(<, Nat))
  BY NatLessThanWellFounded, WFMin
<1>2. PICK x \in T : \A y \in T : ~(<<y, x>> \in OpToRel(<, Nat))
  BY <1>1
<1>3. \A y \in T : ~(y < x)
  BY <1>2 DEF OpToRel
<1>. QED
  BY <1>3

(* pgraft_kv_find_entry_index finds an entry exactly when the key has a   *)
(* live one, and what it finds is a live entry of the key.                 *)
LEMMA FindEntryFacts ==
  ASSUME entries \in Seq(KVEntry), NEW key
  PROVE  /\ FindEntry(key) = 0 <=> LiveOf(key) = {}
         /\ FindEntry(key) # 0 => FindEntry(key) \in LiveOf(key)
<1>1. CASE LiveOf(key) = {}
  BY <1>1 DEF FindEntry, LiveOf
<1>2. CASE LiveOf(key) # {}
  <2>1. LiveOf(key) \subseteq Nat \ {0}
    BY DEF LiveOf
  <2>2. \E x \in LiveOf(key) : \A y \in LiveOf(key) : x <= y
    BY <1>2, <2>1, LeastExists
  <2>3. FindEntry(key) \in LiveOf(key)
    BY <1>2, <2>2 DEF FindEntry, LiveOf
  <2>. QED
    BY <1>2, <2>1, <2>3
<1>. QED
  BY <1>1, <1>2


----------------------------------------------------------------------------
(* The inductive invariant.  UniqueLiveKey alone is not inductive: a crash *)
(* reloads the array from the file, whose body and tail two different     *)
(* saves may have written.  What makes any such reload sound:              *)
(*                                                                         *)
(*  - Ordered: of the entries of a key, a live one is the last; put only  *)
(*    appends a key that has no live entry, and compaction keeps order.   *)
(*  - ZeroAbove(n): the slots from num_entries up to the num_entries n of *)
(*    a tail not yet loaded are zeroed: num_entries only falls by compact *)
(*    and reset, which zero the slots they give up.                        *)
(*  - BodyFits(body, n): a body is an Ordered prefix followed by zeroed    *)
(*    slots up to n.  Each fwrite writes the body of the store as it is,   *)
(*    which fits every tail still to be loaded by ZeroAbove; a truncation *)
(*    writes zeros, which fit every tail.                                  *)
(*                                                                         *)
(* A reload then takes an Ordered prefix and zeroed slots, and the last   *)
(* slot, keyed by the body and flagged by the tail, cannot make a second  *)
(* live entry of a key: in an Ordered array nothing after it is live.     *)
Ordered(es) ==
  \A i, j \in 1 .. Len(es) :
    (/\ i # j /\ es[i].key \in Keys /\ ~es[i].deleted
     /\ es[j].key = es[i].key)
      => j < i /\ es[j].deleted

ZeroAbove(n) == \A q \in 1 .. n - Len(entries) : rest[q].key = NoKey

BodyFits(body, n) ==
  \E nb \in 0 .. StoreCapacity :
    /\ nb <= Len(body)
    /\ Ordered(SubSeq(body, 1, nb))
    /\ \A q \in nb + 1 .. n : body[q].key = NoKey

(* A tail that is loaded, or will be when its process closes the file.    *)
TailOK(t) ==
  /\ file.status = "present"
  /\ ZeroAbove(t.num_entries)
  /\ BodyFits(file.body, t.num_entries)

FileOK == Loadable(file) => TailOK(file.tail)

BufOK ==
  \A p \in Procs :
    /\ pc[p] # "close" => buffered[p] = NoTail
    /\ handle[p] => file.status = "present" /\ pc[p] \in {"write", "close"}
    /\ handle[p] /\ buffered[p].written => TailOK(buffered[p])

KVInv == KVTypeOK /\ Ordered(entries) /\ FileOK /\ BufOK

(* An Ordered array has one live entry per key.                            *)
LEMMA OrderedUnique ==
  ASSUME Ordered(entries) PROVE UniqueLiveKey
BY DEF Ordered, UniqueLiveKey

LEMMA InitKVInv == KVInit => KVInv
<1> SUFFICES ASSUME KVInit PROVE KVInv
  OBVIOUS
<1>1. Zeros(StoreCapacity) \in Seq(KVEntry)
      /\ Len(Zeros(StoreCapacity)) = StoreCapacity
  BY KVAssumption DEF Zeros, ZeroEntry, KVEntry
<1>2. KVTypeOK
  BY <1>1, KVAssumption DEF KVInit, KVTypeOK, NoFile, NoTail, ZeroEntry, KVEntry
<1>. QED
  BY <1>2 DEF KVInit, KVInv, Ordered, FileOK, BufOK, Loadable, NoFile, NoTail

(* n zeroed entries, as memset leaves them.                               *)
LEMMA ZerosFacts ==
  ASSUME NEW n \in Nat
  PROVE  /\ Zeros(n) \in Seq(KVEntry) /\ Len(Zeros(n)) = n
         /\ \A q \in 1 .. n : Zeros(n)[q] = ZeroEntry
<1>1. ZeroEntry \in KVEntry
  BY KVAssumption DEF ZeroEntry, KVEntry
<1>2. Zeros(n) \in [1 .. n -> KVEntry]
  BY <1>1 DEF Zeros
<1>. QED
  BY <1>2 DEF Zeros

(* A step that keeps every key and revives no entry keeps Ordered.         *)
LEMMA OrderedKept ==
  ASSUME NEW es \in Seq(KVEntry), NEW fs \in Seq(KVEntry), Ordered(es),
         Len(fs) = Len(es),
         \A m \in 1 .. Len(es) : /\ fs[m].key = es[m].key
                                 /\ es[m].deleted => fs[m].deleted
  PROVE  Ordered(fs)
BY DEF Ordered, KVEntry

(* A memory step that leaves the zeroed slots above num_entries as they   *)
(* are, and the file and the FILEs, keeps every tail sound.                *)
LEMMA TailsKept ==
  ASSUME KVInv, NEW p \in Procs, ThenSave(p),
         UNCHANGED <<file, handle, buffered>>,
         \A n \in 0 .. StoreCapacity : ZeroAbove(n) => ZeroAbove(n)'
  PROVE  FileOK' /\ BufOK'
<1>1. \A t \in StoreTail : TailOK(t) => TailOK(t)'
  BY DEF TailOK, BodyFits, StoreTail
<1>2. FileOK'
  <2>1. Loadable(file) => file.tail \in StoreTail
    BY DEF KVInv, KVTypeOK, Loadable, SnapshotFile, NoFile, NoTail
  <2>. QED
    BY <1>1, <2>1 DEF KVInv, FileOK, Loadable
<1>3. handle[p] = FALSE /\ buffered[p] = NoTail
  BY DEF ThenSave, KVInv, BufOK
<1>4. \A q \in Procs : handle[q] /\ buffered[q].written
        => buffered[q] \in StoreTail
  BY DEF KVInv, KVTypeOK, NoTail
<1>. QED
  BY <1>1, <1>2, <1>3, <1>4 DEF ThenSave, KVInv, BufOK

(* The array after pgraft_kv_put on a key with a live entry: that entry, *)
(* the one find_entry_index returns, is rewritten and the rest kept.       *)
LEMMA PutUpdateEntries ==
  ASSUME KVTypeOK, NEW p \in Procs, NEW k \in Keys, NEW v \in Values,
         NEW li \in LogIndexes, PutUpdate(p, k, v, li)
  PROVE  LET i == FindEntry(k)
             r == [key |-> k, value |-> v,
                   version |-> entries[i].version + 1,
                   log_index |-> li, deleted |-> FALSE]
         IN  /\ i \in LiveOf(k)
             /\ entries' \in Seq(KVEntry)
             /\ Len(entries') = Len(entries)
             /\ \A m \in 1 .. Len(entries) :
                  entries'[m] = IF m = i THEN r ELSE entries[m]
<1> DEFINE i == FindEntry(k)
           r == [key |-> k, value |-> v,
                 version |-> entries[i].version + 1,
                 log_index |-> li, deleted |-> FALSE]
<1>1. i \in LiveOf(k)
  BY FindEntryFacts DEF PutUpdate, KVTypeOK
<1>2. /\ i \in 1 .. Len(entries) /\ entries[i].version < MaxVersion
      /\ entries[i].key = k
  BY <1>1 DEF LiveOf, PutUpdate
<1>3. entries[i] \in KVEntry
  BY <1>2 DEF KVTypeOK
<1>4. entries[i].version + 1 \in 1 .. MaxVersion
  BY <1>2, <1>3, KVAssumption DEF KVEntry
<1>5. entries' = [entries EXCEPT ![i] = r]
  BY <1>2, <1>3 DEF PutUpdate, KVEntry, r
<1>6. r \in KVEntry
  BY <1>3, <1>4 DEF KVEntry, r
<1>. QED
  BY <1>1, <1>2, <1>5, <1>6, ExceptSeq DEF KVTypeOK

(* The array after pgraft_kv_delete: the live entry of the key becomes a *)
(* tombstone with a bumped version, the rest is kept.                      *)
LEMMA DeleteEntries ==
  ASSUME KVTypeOK, NEW p \in Procs, NEW k \in Keys, NEW li \in LogIndexes,
         Delete(p, k, li)
  PROVE  LET i == FindEntry(k)
             r == [key |-> entries[i].key, value |-> entries[i].value,
                   version |-> entries[i].version + 1,
                   log_index |-> li, deleted |-> TRUE]
         IN  /\ i \in LiveOf(k)
             /\ entries' \in Seq(KVEntry)
             /\ Len(entries') = Len(entries)
             /\ \A m \in 1 .. Len(entries) :
                  entries'[m] = IF m = i THEN r ELSE entries[m]
<1> DEFINE i == FindEntry(k)
           r == [key |-> entries[i].key, value |-> entries[i].value,
                 version |-> entries[i].version + 1,
                 log_index |-> li, deleted |-> TRUE]
<1>1. i \in LiveOf(k)
  BY FindEntryFacts DEF Delete, KVTypeOK
<1>2. i \in 1 .. Len(entries) /\ entries[i].version < MaxVersion
  BY <1>1 DEF LiveOf, Delete
<1>3. entries[i] \in KVEntry
  BY <1>2 DEF KVTypeOK
<1>4. r \in KVEntry
  BY <1>2, <1>3, KVAssumption DEF KVEntry, r
<1>5. entries' = [entries EXCEPT ![i] = r]
  BY <1>2, <1>3 DEF Delete, KVEntry, r
<1>. QED
  BY <1>1, <1>2, <1>4, <1>5, ExceptSeq DEF KVTypeOK

(* pgraft_kv_put on a key with a live entry rewrites that entry in place: *)
(* no entry changes key or liveness, and no slot moves.                    *)
LEMMA PutUpdateStep ==
  ASSUME KVInv, NEW p \in Procs, NEW k \in Keys, NEW v \in Values,
         NEW li \in LogIndexes, PutUpdate(p, k, v, li)
  PROVE  KVInv'
<1> DEFINE i == FindEntry(k)
<1>1. /\ entries' \in Seq(KVEntry)
      /\ Len(entries') = Len(entries)
      /\ \A m \in 1 .. Len(entries) :
           /\ entries'[m].key = entries[m].key
           /\ entries'[m].deleted = entries[m].deleted
  <2>1. /\ i \in LiveOf(k)
        /\ entries' \in Seq(KVEntry)
        /\ Len(entries') = Len(entries)
        /\ \A m \in 1 .. Len(entries) :
             entries'[m] = IF m = i
                             THEN [key |-> k, value |-> v,
                                   version |-> entries[i].version + 1,
                                   log_index |-> li, deleted |-> FALSE]
                             ELSE entries[m]
    BY PutUpdateEntries DEF KVInv
  <2>2. entries[i].key = k /\ entries[i].deleted = FALSE
    BY <2>1 DEF LiveOf, KVInv, KVTypeOK, KVEntry
  <2>3. ASSUME NEW m \in 1 .. Len(entries)
        PROVE  /\ entries'[m].key = entries[m].key
               /\ entries'[m].deleted = entries[m].deleted
    <3>1. CASE m = i
      <4>1. entries'[m] = [key |-> k, value |-> v,
                           version |-> entries[i].version + 1,
                           log_index |-> li, deleted |-> FALSE]
        BY <2>1, <3>1
      <4>2. entries'[m].key = k /\ entries'[m].deleted = FALSE
        BY <4>1
      <4>3. entries[m].key = k /\ entries[m].deleted = FALSE
        BY <2>2, <3>1
      <4>. QED
        BY <4>2, <4>3
    <3>2. CASE m # i
      BY <2>1, <3>2
    <3>. QED
      BY <3>1, <3>2
  <2>. QED
    BY <2>1, <2>3
<1>2. KVTypeOK'
  BY <1>1 DEF PutUpdate, ThenSave, KVInv, KVTypeOK
<1>3. Ordered(entries')
  BY <1>1, OrderedKept DEF KVInv, KVTypeOK
<1>4. FileOK' /\ BufOK'
  <2>1. \A n \in 0 .. StoreCapacity : ZeroAbove(n) => ZeroAbove(n)'
    BY <1>1 DEF PutUpdate, ZeroAbove
  <2>. QED
    BY <2>1, TailsKept DEF PutUpdate
<1>. QED
  BY <1>2, <1>3, <1>4 DEF KVInv

(* pgraft_kv_delete turns the live entry of the key into a tombstone: no  *)
(* entry changes key, and no entry becomes live.                           *)
LEMMA DeleteStep ==
  ASSUME KVInv, NEW p \in Procs, NEW k \in Keys, NEW li \in LogIndexes,
         Delete(p, k, li)
  PROVE  KVInv'
<1> DEFINE i == FindEntry(k)
           r == [key |-> entries[i].key, value |-> entries[i].value,
                 version |-> entries[i].version + 1,
                 log_index |-> li, deleted |-> TRUE]
<1>1. /\ entries' \in Seq(KVEntry)
      /\ Len(entries') = Len(entries)
      /\ \A m \in 1 .. Len(entries) :
           entries'[m] = IF m = i THEN r ELSE entries[m]
  BY DeleteEntries DEF KVInv
<1>2. KVTypeOK'
  BY <1>1 DEF Delete, ThenSave, KVInv, KVTypeOK
<1>3. Ordered(entries')
  <2>1. \A m \in 1 .. Len(entries) : /\ entries'[m].key = entries[m].key
                                     /\ entries[m].deleted => entries'[m].deleted
    BY <1>1
  <2>. QED
    BY <1>1, <2>1, OrderedKept DEF KVInv, KVTypeOK
<1>4. FileOK' /\ BufOK'
  <2>1. \A n \in 0 .. StoreCapacity : ZeroAbove(n) => ZeroAbove(n)'
    BY <1>1 DEF Delete, ZeroAbove
  <2>. QED
    BY <2>1, TailsKept DEF Delete
<1>. QED
  BY <1>2, <1>3, <1>4 DEF KVInv

(* pgraft_kv_put on a key with no live entry appends one at num_entries:  *)
(* the new live entry is the last of its key, and the slot it takes is    *)
(* the first of those above num_entries.                                   *)
LEMMA PutCreateStep ==
  ASSUME KVInv, NEW p \in Procs, NEW k \in Keys, NEW v \in Values,
         NEW li \in LogIndexes, PutCreate(p, k, v, li)
  PROVE  KVInv'
<1> DEFINE r == [key |-> k, value |-> v, version |-> 1,
                 log_index |-> li, deleted |-> FALSE]
           L == Len(entries)
<1>1. LiveOf(k) = {}
  BY FindEntryFacts DEF PutCreate, KVInv, KVTypeOK
<1>2. r \in KVEntry
  BY KVAssumption DEF KVEntry, r
<1>3. /\ entries' \in Seq(KVEntry)
      /\ Len(entries') = L + 1
      /\ \A m \in 1 .. L : entries'[m] = entries[m]
      /\ entries'[L + 1] = r
  BY <1>2, AppendProperties DEF PutCreate, NewEntry, KVInv, KVTypeOK, r
<1>4. /\ L \in Nat /\ L < StoreCapacity
      /\ rest \in Seq(KVEntry) /\ Len(rest) = StoreCapacity - L
  BY LenProperties DEF PutCreate, KVInv, KVTypeOK
<1>5. /\ rest' \in Seq(KVEntry) /\ Len(rest') = Len(rest) - 1
      /\ \A q \in 1 .. Len(rest) - 1 : rest'[q] = rest[q + 1]
  BY <1>4, KVAssumption, HeadTailProperties DEF PutCreate
<1>6. KVTypeOK'
  <2>1. Len(entries') + Len(rest') = StoreCapacity
    BY <1>3, <1>4, <1>5, KVAssumption
  <2>2. last_applied_index' \in LogIndexes \cup {0}
    BY DEF PutCreate
  <2>3. pc' \in [Procs -> {"idle", "open", "write", "close", "unlink"}]
    BY DEF PutCreate, ThenSave, KVInv, KVTypeOK
  <2>4. UNCHANGED <<file, handle, buffered>>
    BY DEF PutCreate
  <2>. QED
    BY <1>3, <1>5, <2>1, <2>2, <2>3, <2>4 DEF KVInv, KVTypeOK
<1>7. Ordered(entries')
  <2>1. \A m \in 1 .. L : ~entries[m].deleted => entries[m].key # k
    BY <1>1 DEF LiveOf
  <2> SUFFICES ASSUME NEW a \in 1 .. L + 1, NEW b \in 1 .. L + 1, a # b,
                      entries'[a].key \in Keys, ~entries'[a].deleted,
                      entries'[b].key = entries'[a].key
               PROVE  b < a /\ entries'[b].deleted
    BY <1>3 DEF Ordered
  <2>2. CASE a = L + 1
    <3>1. b \in 1 .. L /\ entries'[b] = entries[b] /\ entries[b].key = k
      BY <1>3, <1>4, <2>2 DEF r
    <3>. QED
      BY <1>4, <2>1, <2>2, <3>1
  <2>3. CASE b = L + 1
    <3>1. a \in 1 .. L /\ entries'[a] = entries[a] /\ entries[a].key = k
      BY <1>3, <1>4, <2>3 DEF r
    <3>. QED
      BY <2>1, <3>1
  <2>4. CASE a \in 1 .. L /\ b \in 1 .. L
    BY <1>3, <2>4 DEF KVInv, Ordered
  <2>. QED
    BY <1>4, <2>2, <2>3, <2>4
<1>8. \A n \in 0 .. StoreCapacity : ZeroAbove(n) => ZeroAbove(n)'
  <2> SUFFICES ASSUME NEW n \in 0 .. StoreCapacity, ZeroAbove(n),
                      NEW q \in 1 .. n - (L + 1)
               PROVE  rest'[q].key = NoKey
    BY <1>3 DEF ZeroAbove
  <2>1. q \in 1 .. Len(rest) - 1 /\ q + 1 \in 1 .. n - L
    BY <1>4, KVAssumption
  <2>. QED
    BY <1>5, <2>1 DEF ZeroAbove
<1>. QED
  BY <1>6, <1>7, <1>8, TailsKept DEF PutCreate, KVInv

(* pgraft_kv_compact keeps only live entries, one per key, in order, and  *)
(* zeroes the slots between the new and the old num_entries.               *)
LEMMA CompactStep ==
  ASSUME KVInv, NEW p \in Procs, Compact(p)
  PROVE  KVInv'
<1> DEFINE c == Compacted(entries)
           d == Len(entries) - Cardinality(Kept(entries))
<1> USE DEF c
<1>1. /\ c \in Seq(KVEntry)
      /\ Len(c) = Cardinality(Kept(entries))
      /\ Len(c) <= Len(entries)
      /\ \A j \in 1 .. Len(c) :
           /\ Pos(entries, j) \in Kept(entries)
           /\ c[j] = entries[Pos(entries, j)]
           /\ \A k \in 1 .. Len(c) : k # j => Pos(entries, k) # Pos(entries, j)
  BY CompactedFacts DEF KVInv, KVTypeOK
<1>2. entries' = c /\ rest' = Zeros(d) \o rest
  BY DEF Compact
<1>3. /\ Len(c) \in Nat /\ Len(entries) \in Nat /\ d \in Nat
      /\ d = Len(entries) - Len(c)
      /\ rest \in Seq(KVEntry)
      /\ Len(rest) = StoreCapacity - Len(entries)
  BY <1>1, LenProperties DEF KVInv, KVTypeOK
<1>4. Zeros(d) \in Seq(KVEntry) /\ Len(Zeros(d)) = d
      /\ \A q \in 1 .. d : Zeros(d)[q] = ZeroEntry
  BY <1>3, ZerosFacts
<1>5. /\ rest' \in Seq(KVEntry)
      /\ Len(rest') = d + Len(rest)
      /\ \A q \in 1 .. d : rest'[q].key = NoKey
      /\ \A q \in d + 1 .. d + Len(rest) : rest'[q] = rest[q - d]
  BY <1>2, <1>3, <1>4 DEF Zeros, ZeroEntry
<1>6. KVTypeOK'
  <2>1. pc' \in [Procs -> {"idle", "open", "write", "close", "unlink"}]
    BY DEF Compact, ThenSave, KVInv, KVTypeOK
  <2>. QED
    BY <1>1, <1>2, <1>3, <1>5, <2>1 DEF Compact, KVInv, KVTypeOK
<1>7. Ordered(entries')
  <2> SUFFICES ASSUME NEW a \in 1 .. Len(c), NEW b \in 1 .. Len(c), a # b,
                      c[a].key \in Keys, ~c[a].deleted, c[b].key = c[a].key
               PROVE  FALSE
    BY <1>2 DEF Ordered
  <2>1. /\ Pos(entries, a) \in Kept(entries)
        /\ Pos(entries, b) \in Kept(entries)
        /\ Pos(entries, a) # Pos(entries, b)
    BY <1>1
  <2>. QED
    BY <1>1, <2>1 DEF KVInv, Ordered, Kept
<1>8. \A n \in 0 .. StoreCapacity : ZeroAbove(n) => ZeroAbove(n)'
  <2> SUFFICES ASSUME NEW n \in 0 .. StoreCapacity, ZeroAbove(n),
                      NEW q \in 1 .. n - Len(c)
               PROVE  rest'[q].key = NoKey
    BY <1>2 DEF ZeroAbove
  <2>1. CASE q <= d
    BY <1>3, <1>5, <2>1
  <2>2. CASE q > d
    <3>1. q - d \in 1 .. n - Len(entries)
      BY <1>3, <2>2
    <3>2. rest[q - d].key = NoKey
      BY <3>1 DEF ZeroAbove
    <3>3. q \in d + 1 .. d + Len(rest)
      BY <1>1, <1>3, <2>2, KVAssumption
    <3>. QED
      BY <1>5, <3>2, <3>3
  <2>. QED
    BY <1>3, <2>1, <2>2
<1>. QED
  BY <1>6, <1>7, <1>8, TailsKept DEF Compact, KVInv

(* No tail is buffered: the one an idle FILE holds.                      *)
LEMMA NoTailFacts == NoTail.written = FALSE
BY DEF NoTail

(* Whether a tail is sound depends on the file's body and on the slots    *)
(* above num_entries, not on the file's tail or the processes.             *)
LEMMA TailOKKept ==
  ASSUME NEW t, file'.status = file.status, file'.body = file.body,
         UNCHANGED <<entries, rest>>
  PROVE  TailOK(t)' = TailOK(t)
BY DEF TailOK, ZeroAbove, BodyFits

(* pgraft_kv_reset, under the lock: every slot is zeroed, so every slot   *)
(* above num_entries is.                                                   *)
LEMMA ResetClearStep ==
  ASSUME KVInv, NEW p \in Procs, ResetClear(p)
  PROVE  KVInv'
<1>1. /\ Zeros(StoreCapacity) \in Seq(KVEntry)
      /\ Len(Zeros(StoreCapacity)) = StoreCapacity
      /\ \A q \in 1 .. StoreCapacity : Zeros(StoreCapacity)[q] = ZeroEntry
  BY KVAssumption, ZerosFacts
<1>2. KVTypeOK'
  BY <1>1, KVAssumption DEF ResetClear, KVInv, KVTypeOK
<1>3. \A n \in 0 .. StoreCapacity : ZeroAbove(n)'
  BY <1>1 DEF ResetClear, ZeroAbove, ZeroEntry
<1>4. \A t \in StoreTail : TailOK(t) => TailOK(t)'
  BY <1>3 DEF ResetClear, TailOK, BodyFits, StoreTail
<1>5. FileOK'
  <2>1. Loadable(file) => file.tail \in StoreTail
    BY DEF KVInv, KVTypeOK, Loadable, SnapshotFile, NoFile, NoTail
  <2>. QED
    BY <1>4, <2>1 DEF ResetClear, KVInv, FileOK, Loadable
<1>6. BufOK'
  <2>1. handle[p] = FALSE /\ buffered[p] = NoTail
    BY DEF ResetClear, KVInv, BufOK
  <2>2. \A q \in Procs : handle[q] /\ buffered[q].written
          => buffered[q] \in StoreTail
    BY DEF KVInv, KVTypeOK, NoTail
  <2>. QED
    BY <1>4, <2>1, <2>2 DEF ResetClear, KVInv, BufOK
<1>. QED
  BY <1>2, <1>5, <1>6 DEF ResetClear, KVInv, Ordered

(* pgraft_kv_reset, after the lock: the file is unlinked, and the FILEs    *)
(* still open write to a file no load will read.                           *)
LEMMA ResetUnlinkStep ==
  ASSUME KVInv, NEW p \in Procs, ResetUnlink(p)
  PROVE  KVInv'
<1>1. buffered[p] = NoTail
  BY DEF ResetUnlink, KVInv, BufOK
<1>2. KVTypeOK'
  BY DEF ResetUnlink, KVInv, KVTypeOK
<1>. QED
  BY <1>1, <1>2 DEF ResetUnlink, KVInv, FileOK, BufOK, Loadable, NoFile

(* fopen "wb" truncates the file to nothing, which reads as zeros: a body *)
(* that fits every tail.                                                   *)
LEMMA SaveOpenStep ==
  ASSUME KVInv, NEW p \in Procs, SaveOpen(p)
  PROVE  KVInv'
<1>1. UNCHANGED <<entries, rest, last_applied_index, buffered>>
  BY DEF SaveOpen
<1>2. handle[p] = FALSE /\ buffered[p] = NoTail
  BY DEF SaveOpen, KVInv, BufOK
<1>3. CASE /\ file' = [status |-> "present", body |-> Zeros(StoreCapacity),
                       tail |-> NoTail]
           /\ handle' = [handle EXCEPT ![p] = TRUE]
           /\ pc' = [pc EXCEPT ![p] = "write"]
  <2>1. /\ Zeros(StoreCapacity) \in Seq(KVEntry)
        /\ Len(Zeros(StoreCapacity)) = StoreCapacity
        /\ \A q \in 1 .. StoreCapacity : Zeros(StoreCapacity)[q] = ZeroEntry
    BY KVAssumption, ZerosFacts
  <2>2. Zeros(StoreCapacity) \in [1 .. StoreCapacity -> KVEntry]
    BY <2>1, KVAssumption DEF Zeros
  <2>3. KVTypeOK'
    BY <1>1, <1>3, <2>2 DEF KVInv, KVTypeOK, SnapshotFile
  <2>4. \A n \in 0 .. StoreCapacity : BodyFits(file'.body, n)
    <3>1. Ordered(SubSeq(Zeros(StoreCapacity), 1, 0))
      BY DEF Ordered
    <3>. QED
      BY <1>3, <2>1, <3>1, KVAssumption DEF BodyFits, ZeroEntry
  <2>5. \A q \in Procs : buffered[q].written => buffered[q] \in StoreTail
    BY DEF KVInv, KVTypeOK, NoTail
  <2>6. BufOK'
    <3> SUFFICES ASSUME NEW q \in Procs
                 PROVE  /\ pc'[q] # "close" => buffered'[q] = NoTail
                        /\ handle'[q] => file'.status = "present"
                                         /\ pc'[q] \in {"write", "close"}
                        /\ (handle[q] /\ buffered[q].written
                              => TailOK(buffered[q]))'
      BY DEF BufOK
    <3>1. CASE q = p
      BY <1>1, <1>2, <1>3, <3>1, NoTailFacts DEF KVInv, KVTypeOK
    <3>2. CASE q # p
      <4>1. /\ pc[q] # "close" => buffered[q] = NoTail
            /\ handle[q] => pc[q] \in {"write", "close"}
        BY DEF KVInv, BufOK
      <4>2. buffered[q].written => buffered[q].num_entries \in 0 .. StoreCapacity
        BY <2>5 DEF StoreTail
      <4>3. ZeroAbove(buffered[q].num_entries)' = ZeroAbove(buffered[q].num_entries)
        BY <1>1 DEF ZeroAbove
      <4>4. handle[q] /\ buffered[q].written => ZeroAbove(buffered[q].num_entries)
        BY DEF KVInv, BufOK, TailOK
      <4>. QED
        BY <1>1, <1>3, <2>4, <3>2, <4>1, <4>2, <4>3, <4>4 DEF KVInv, KVTypeOK, TailOK
    <3>. QED
      BY <3>1, <3>2
  <2>7. FileOK'
    BY <1>3 DEF FileOK, Loadable, NoTail
  <2>. QED
    BY <1>1, <2>3, <2>6, <2>7 DEF KVInv
<1>4. CASE /\ pc' = [pc EXCEPT ![p] = "idle"]
           /\ UNCHANGED <<file, handle>>
  <2>1. KVTypeOK'
    BY <1>1, <1>4 DEF KVInv, KVTypeOK
  <2>2. \A t : TailOK(t)' = TailOK(t)
    BY <1>1, <1>4, TailOKKept
  <2>. QED
    BY <1>1, <1>2, <1>4, <2>1, <2>2 DEF KVInv, FileOK, BufOK, Loadable
<1>. QED
  BY <1>3, <1>4 DEF SaveOpen

(* What fwrite writes under the lock: the slots of the store, num_entries *)
(* of them Ordered and, up to the num_entries of any tail still to be     *)
(* loaded, zeroed above them.                                              *)
LEMMA FitsNow ==
  ASSUME KVTypeOK, Ordered(entries), NEW n \in 0 .. StoreCapacity,
         ZeroAbove(n)
  PROVE  /\ StoreBody \in [1 .. StoreCapacity -> KVEntry]
         /\ BodyFits(StoreBody, n)
<1> DEFINE L == Len(entries)
           B == StoreBody
           S == SubSeq(B, 1, L)
<1>1. /\ L \in 0 .. StoreCapacity
      /\ rest \in Seq(KVEntry) /\ Len(rest) = StoreCapacity - L
  BY KVAssumption DEF KVTypeOK
<1>2. /\ B \in Seq(KVEntry) /\ Len(B) = StoreCapacity
      /\ \A i \in 1 .. StoreCapacity :
           B[i] = IF i <= L THEN entries[i] ELSE rest[i - L]
  BY <1>1, ConcatProperties, KVAssumption DEF KVTypeOK, StoreBody, Slots
<1>3. B \in [1 .. StoreCapacity -> KVEntry]
  BY <1>2, LenProperties
<1>4. Len(S) = L /\ \A i \in 1 .. L : S[i] = entries[i]
  <2>1. \A i \in 1 .. L : B[i] \in KVEntry
    BY <1>1, <1>3, KVAssumption
  <2>2. Len(S) = L /\ \A i \in 1 .. L : S[i] = B[i]
    BY <1>1, <2>1, SubSeqProperties
  <2>. QED
    BY <1>1, <1>2, <2>2
<1>5. Ordered(S)
  BY <1>4 DEF Ordered
<1>6. \A q \in L + 1 .. n : B[q].key = NoKey
  <2> SUFFICES ASSUME NEW q \in L + 1 .. n PROVE B[q].key = NoKey
    OBVIOUS
  <2>1. q \in 1 .. StoreCapacity /\ ~(q <= L) /\ q - L \in 1 .. n - L
    BY <1>1, KVAssumption
  <2>2. B[q] = rest[q - L]
    BY <1>2, <2>1
  <2>. QED
    BY <2>1, <2>2 DEF ZeroAbove
<1>7. L \in 0 .. StoreCapacity /\ L <= Len(B)
  BY <1>1, <1>2
<1>. QED
  BY <1>3, <1>5, <1>6, <1>7 DEF BodyFits

(* fwrite writes the body of the store as it is, which fits every tail    *)
(* still to be loaded, and buffers the tail of the store as it is.         *)
LEMMA SaveWriteStep ==
  ASSUME KVInv, NEW p \in Procs, SaveWrite(p)
  PROVE  KVInv'
<1>1. UNCHANGED <<entries, rest, last_applied_index, handle>>
  BY DEF SaveWrite
<1>2. pc[p] = "write" /\ pc' = [pc EXCEPT ![p] = "close"]
  BY DEF SaveWrite
<1>3. TailNow \in StoreTail
  <2>1. /\ Len(entries) \in 0 .. StoreCapacity
        /\ Slots \in Seq(KVEntry) /\ Len(Slots) = StoreCapacity
    BY ConcatProperties, KVAssumption DEF KVInv, KVTypeOK, Slots
  <2>2. Slots[StoreCapacity] \in KVEntry
    BY <2>1, KVAssumption, ElementOfSeq
  <2>. QED
    BY <2>1, <2>2 DEF TailNow, StoreTail, KVInv, KVTypeOK
<1>4. buffered[p] = NoTail
  BY <1>2 DEF KVInv, BufOK
<1>5. StoreBody \in [1 .. StoreCapacity -> KVEntry]
      /\ \A n \in 0 .. StoreCapacity :
           ZeroAbove(n) => BodyFits(StoreBody, n)
  BY FitsNow, KVAssumption DEF KVInv, ZeroAbove
<1>6. \A q \in Procs : handle[q] /\ buffered[q].written
        => buffered[q] \in StoreTail
  BY DEF KVInv, KVTypeOK, NoTail
<1>7. Loadable(file) => file.tail \in StoreTail
  BY DEF KVInv, KVTypeOK, Loadable, SnapshotFile, NoFile, NoTail
<1>8. CASE UNCHANGED <<file, buffered>>
  <2>1. \A t : TailOK(t)' = TailOK(t)
    BY <1>1, <1>8, TailOKKept
  <2>2. KVTypeOK'
    BY <1>1, <1>2, <1>8 DEF KVInv, KVTypeOK
  <2>. QED
    BY <1>1, <1>2, <1>4, <1>8, <2>1, <2>2 DEF KVInv, FileOK, BufOK, Loadable
<1>9. CASE /\ ~handle[p] /\ file' = file
           /\ buffered' = [buffered EXCEPT ![p] = TailNow]
  <2>1. \A t : TailOK(t)' = TailOK(t)
    BY <1>1, <1>9, TailOKKept
  <2>2. KVTypeOK'
    BY <1>1, <1>2, <1>3, <1>9 DEF KVInv, KVTypeOK
  <2>3. BufOK'
    <3> SUFFICES ASSUME NEW q \in Procs
                 PROVE  /\ pc'[q] # "close" => buffered'[q] = NoTail
                        /\ handle'[q] => file'.status = "present"
                                         /\ pc'[q] \in {"write", "close"}
                        /\ (handle[q] /\ buffered[q].written
                              => TailOK(buffered[q]))'
      BY DEF BufOK
    <3>1. CASE q = p
      BY <1>1, <1>2, <1>9, <3>1 DEF KVInv, KVTypeOK
    <3>2. CASE q # p
      <4>1. buffered'[q] = buffered[q] /\ pc'[q] = pc[q]
        BY <1>2, <1>9, <3>2 DEF KVInv, KVTypeOK
      <4>. QED
        BY <1>1, <1>9, <2>1, <4>1 DEF KVInv, BufOK
    <3>. QED
      BY <3>1, <3>2
  <2>. QED
    BY <1>1, <1>9, <2>1, <2>2, <2>3 DEF KVInv, FileOK, Loadable
<1>10. CASE /\ handle[p] /\ file' = [file EXCEPT !.body = StoreBody]
            /\ buffered' = [buffered EXCEPT ![p] = TailNow]
  <2>1. file \in SnapshotFile
    BY <1>10 DEF KVInv, KVTypeOK, BufOK, NoFile
  <2>2. /\ file' \in SnapshotFile /\ file'.status = "present"
        /\ file'.body = StoreBody /\ file'.tail = file.tail
    BY <1>5, <1>10, <2>1 DEF SnapshotFile
  <2>3. \A t \in StoreTail : TailOK(t) => TailOK(t)'
    <3> SUFFICES ASSUME NEW t \in StoreTail, TailOK(t) PROVE TailOK(t)'
      OBVIOUS
    <3>1. t.num_entries \in 0 .. StoreCapacity /\ ZeroAbove(t.num_entries)
      BY DEF StoreTail, TailOK
    <3>. QED
      BY <1>1, <1>5, <2>2, <3>1 DEF TailOK, ZeroAbove
  <2>4. TailOK(buffered[p])'
    <3>1. ZeroAbove(Len(entries)) /\ Len(entries) \in 0 .. StoreCapacity
      BY KVAssumption DEF ZeroAbove, KVInv, KVTypeOK
    <3>2. buffered'[p] = TailNow
      BY <1>10 DEF KVInv, KVTypeOK
    <3>. QED
      BY <1>1, <1>5, <2>2, <3>1, <3>2 DEF TailOK, TailNow, ZeroAbove
  <2>5. KVTypeOK'
    BY <1>1, <1>2, <1>3, <1>10, <2>2 DEF KVInv, KVTypeOK
  <2>6. FileOK'
    BY <1>7, <2>1, <2>2, <2>3 DEF KVInv, FileOK, Loadable, SnapshotFile
  <2>7. BufOK'
    <3> SUFFICES ASSUME NEW q \in Procs
                 PROVE  /\ pc'[q] # "close" => buffered'[q] = NoTail
                        /\ handle'[q] => file'.status = "present"
                                         /\ pc'[q] \in {"write", "close"}
                        /\ (handle[q] /\ buffered[q].written
                              => TailOK(buffered[q]))'
      BY DEF BufOK
    <3>1. CASE q = p
      BY <1>1, <1>2, <1>10, <2>2, <2>4, <3>1 DEF KVInv, KVTypeOK
    <3>2. CASE q # p
      <4>1. buffered'[q] = buffered[q] /\ pc'[q] = pc[q]
        BY <1>2, <1>10, <3>2 DEF KVInv, KVTypeOK
      <4>. QED
        BY <1>1, <1>6, <2>2, <2>3, <4>1 DEF KVInv, BufOK
    <3>. QED
      BY <3>1, <3>2
  <2>. QED
    BY <1>1, <2>5, <2>6, <2>7 DEF KVInv
<1>. QED
  BY <1>8, <1>9, <1>10 DEF SaveWrite

(* fclose writes the buffered tail after the body that is in the file     *)
(* now, which it fits; or fails to, and the file stays short.              *)
LEMMA SaveCloseStep ==
  ASSUME KVInv, NEW p \in Procs, SaveClose(p)
  PROVE  KVInv'
<1>1. UNCHANGED <<entries, rest, last_applied_index>>
  BY DEF SaveClose
<1>2. /\ pc[p] = "close" /\ pc' = [pc EXCEPT ![p] = "idle"]
      /\ handle' = [handle EXCEPT ![p] = FALSE]
      /\ buffered' = [buffered EXCEPT ![p] = NoTail]
  BY DEF SaveClose
<1>3. /\ file'.status = file.status /\ file'.body = file.body
      /\ \/ file' = file
         \/ /\ handle[p] /\ buffered[p].written
            /\ file' = [file EXCEPT !.tail = buffered[p]]
  <2>1. handle[p] => file \in SnapshotFile
    BY DEF KVInv, KVTypeOK, BufOK, NoFile
  <2>. QED
    BY <2>1 DEF SaveClose, SnapshotFile
<1>4. \A t : TailOK(t)' = TailOK(t)
  BY <1>1, <1>3, TailOKKept
<1>5. KVTypeOK'
  <2>1. file' \in SnapshotFile \cup {NoFile}
    <3>1. CASE file' = file
      BY <3>1 DEF KVInv, KVTypeOK
    <3>2. CASE /\ handle[p] /\ buffered[p].written
               /\ file' = [file EXCEPT !.tail = buffered[p]]
      <4>1. file \in SnapshotFile /\ buffered[p] \in StoreTail
        BY <3>2 DEF KVInv, KVTypeOK, BufOK, NoFile, NoTail
      <4>. QED
        BY <3>2, <4>1 DEF SnapshotFile
    <3>. QED
      BY <1>3, <3>1, <3>2
  <2>. QED
    BY <1>1, <1>2, <2>1 DEF KVInv, KVTypeOK
<1>6. FileOK'
  <2>1. CASE file' = file
    BY <1>4, <2>1 DEF KVInv, FileOK
  <2>2. CASE /\ handle[p] /\ buffered[p].written
             /\ file' = [file EXCEPT !.tail = buffered[p]]
    <3>1. file \in SnapshotFile /\ file'.tail = buffered[p]
      BY <2>2 DEF KVInv, KVTypeOK, BufOK, NoFile, SnapshotFile
    <3>2. TailOK(buffered[p])
      BY <2>2 DEF KVInv, BufOK
    <3>. QED
      BY <1>4, <3>1, <3>2 DEF FileOK
  <2>. QED
    BY <1>3, <2>1, <2>2
<1>7. BufOK'
  <2> SUFFICES ASSUME NEW q \in Procs
               PROVE  /\ pc'[q] # "close" => buffered'[q] = NoTail
                      /\ handle'[q] => file'.status = "present"
                                       /\ pc'[q] \in {"write", "close"}
                      /\ (handle[q] /\ buffered[q].written
                            => TailOK(buffered[q]))'
    BY DEF BufOK
  <2>1. CASE q = p
    BY <1>2, <2>1, NoTailFacts DEF KVInv, KVTypeOK
  <2>2. CASE q # p
    <3>1. /\ buffered'[q] = buffered[q] /\ pc'[q] = pc[q]
          /\ handle'[q] = handle[q]
      BY <1>2, <2>2 DEF KVInv, KVTypeOK
    <3>. QED
      BY <1>3, <1>4, <3>1 DEF KVInv, BufOK
  <2>. QED
    BY <2>1, <2>2
<1>. QED
  BY <1>1, <1>5, <1>6, <1>7 DEF KVInv

(* What pgraft_kv_load_from_disk copies from a file whose body fits its   *)
(* tail: the first nb slots are Ordered, those up to num_entries zeroed,  *)
(* and the last slot, keyed by the body and flagged by the tail, is last  *)
(* of its key in the body, so whether the tail says it is live or not it  *)
(* is the only live entry of its key.                                      *)
LEMMA LoadOrdered ==
  ASSUME NEW f \in SnapshotFile, Loadable(f),
         BodyFits(f.body, f.tail.num_entries)
  PROVE  /\ LoadedSlots(f) \in [1 .. StoreCapacity -> KVEntry]
         /\ Ordered(SubSeq(LoadedSlots(f), 1, f.tail.num_entries))
<1> DEFINE N == f.tail.num_entries
           LS == LoadedSlots(f)
           body == f.body
           C == StoreCapacity
<1>1. /\ f.tail \in StoreTail /\ N \in 0 .. C /\ C \in Nat \ {0}
      /\ body \in [1 .. C -> KVEntry]
  <2>1. f.tail \in StoreTail \cup {NoTail} /\ body \in [1 .. C -> KVEntry]
    BY DEF SnapshotFile
  <2>2. f.tail # NoTail
    BY NoTailFacts DEF Loadable
  <2>3. f.tail \in StoreTail
    BY <2>1, <2>2
  <2>. QED
    BY <2>1, <2>3, KVAssumption DEF StoreTail
<1>2. /\ LS \in [1 .. C -> KVEntry]
      /\ \A x \in 1 .. C : LS[x].key = body[x].key
      /\ \A x \in 1 .. C - 1 : LS[x] = body[x]
  <2>1. [f.tail.last EXCEPT !.key = body[C].key] \in KVEntry
    <3>1. f.tail.last \in KVEntry /\ body[C] \in KVEntry
      <4>1. f.tail.last \in KVEntry
        BY <1>1 DEF StoreTail
      <4>2. body[C] \in KVEntry
        BY <1>1
      <4>. QED
        BY <4>1, <4>2
    <3>. QED
      BY <3>1 DEF KVEntry
  <2>. QED
    BY <1>1, <2>1 DEF LoadedSlots
<1>3. PICK nb \in 0 .. C :
        /\ nb <= Len(body)
        /\ Ordered(SubSeq(body, 1, nb))
        /\ \A q \in nb + 1 .. N : body[q].key = NoKey
  BY <1>1 DEF BodyFits
<1>4. \A i, j \in 1 .. nb :
        (/\ i # j /\ body[i].key \in Keys /\ ~body[i].deleted
         /\ body[j].key = body[i].key)
          => j < i /\ body[j].deleted
  <2>1. \A i \in 1 .. nb : body[i] \in KVEntry
    BY <1>1
  <2>2. Len(SubSeq(body, 1, nb)) = nb
        /\ \A i \in 1 .. nb : SubSeq(body, 1, nb)[i] = body[i]
    BY <1>1, <2>1, SubSeqProperties
  <2>. QED
    BY <1>3, <2>2 DEF Ordered
<1>5. /\ Len(SubSeq(LS, 1, N)) = N
      /\ \A i \in 1 .. N : SubSeq(LS, 1, N)[i] = LS[i]
  <2>1. \A i \in 1 .. N : LS[i] \in KVEntry
    BY <1>1, <1>2
  <2>. QED
    BY <1>1, <2>1, SubSeqProperties
<1>6. Ordered(SubSeq(LS, 1, N))
  <2> SUFFICES ASSUME NEW a \in 1 .. N, NEW b \in 1 .. N, a # b,
                      LS[a].key \in Keys, ~LS[a].deleted,
                      LS[b].key = LS[a].key
               PROVE  b < a /\ LS[b].deleted
    BY <1>5 DEF Ordered
  <2>1. a \in 1 .. nb /\ b \in 1 .. nb
    <3>1. body[a].key \in Keys /\ body[b].key \in Keys
      BY <1>1, <1>2
    <3>. QED
      BY <1>1, <1>3, <3>1, KVAssumption
  <2>2. CASE a # C /\ b # C
    <3>1. LS[a] = body[a] /\ LS[b] = body[b]
      BY <1>1, <1>2, <2>2
    <3>. QED
      BY <1>4, <2>1, <3>1
  <2>3. CASE a = C
    <3>1. b < a /\ LS[b] = body[b]
      BY <1>1, <1>2, <2>3
    <3>2. body[b].key = body[C].key /\ body[C].key \in Keys
      BY <1>1, <1>2, <2>3
    <3>3. ~body[b].deleted => C < b
      BY <1>4, <2>1, <2>3, <3>1, <3>2
    <3>4. b <= C
      BY <1>1
    <3>5. body[b].deleted
      BY <3>3, <3>4, <1>1
    <3>. QED
      BY <3>1, <3>5
  <2>4. CASE b = C
    <3>1. a < C /\ LS[a] = body[a]
      BY <1>1, <1>2, <2>1, <2>4
    <3>2. body[C].key = body[a].key /\ body[a].key \in Keys
          /\ ~body[a].deleted
      BY <1>1, <1>2, <2>4, <3>1
    <3>3. C < a
      BY <1>4, <2>1, <2>4, <3>1, <3>2
    <3>. QED
      BY <1>1, <3>1, <3>3
  <2>. QED
    BY <2>2, <2>3, <2>4
<1>. QED
  BY <1>2, <1>6

(* A crash reloads the store from the file when it has its full size, or  *)
(* leaves it empty; every FILE of the old processes is gone.               *)
LEMMA CrashStep ==
  ASSUME KVInv, CrashRestart
  PROVE  KVInv'
<1>1. /\ pc' = [q \in Procs |-> "idle"] /\ handle' = [q \in Procs |-> FALSE]
      /\ buffered' = [q \in Procs |-> NoTail] /\ UNCHANGED file
  BY DEF CrashRestart
<1>2. BufOK'
  BY <1>1 DEF BufOK
<1>3. CASE Loadable(file)
  <2> DEFINE N == file.tail.num_entries
             LS == LoadedSlots(file)
  <2>1. file \in SnapshotFile /\ TailOK(file.tail)
    BY <1>3 DEF KVInv, KVTypeOK, FileOK, Loadable, NoFile
  <2>2. /\ file.tail \in StoreTail /\ N \in 0 .. StoreCapacity
        /\ BodyFits(file.body, N)
    <3>1. file.tail # NoTail
      BY <1>3, NoTailFacts DEF Loadable
    <3>. QED
      BY <2>1, <3>1, KVAssumption DEF SnapshotFile, StoreTail, TailOK
  <2>3. LS \in [1 .. StoreCapacity -> KVEntry] /\ Ordered(SubSeq(LS, 1, N))
    BY <1>3, <2>1, <2>2, LoadOrdered
  <2>4. /\ entries' = SubSeq(LS, 1, N)
        /\ rest' = SubSeq(LS, N + 1, StoreCapacity)
        /\ last_applied_index' = file.tail.last_applied_index
    BY <1>3 DEF CrashRestart
  <2>5. /\ entries' \in Seq(KVEntry) /\ Len(entries') = N
        /\ rest' \in Seq(KVEntry) /\ Len(rest') = StoreCapacity - N
    <3>1. \A i \in 1 .. StoreCapacity : LS[i] \in KVEntry
      BY <2>3
    <3>2. SubSeq(LS, 1, N) \in Seq(KVEntry) /\ Len(SubSeq(LS, 1, N)) = N
      BY <2>2, <3>1, KVAssumption, SubSeqProperties
    <3>3. /\ SubSeq(LS, N + 1, StoreCapacity) \in Seq(KVEntry)
          /\ Len(SubSeq(LS, N + 1, StoreCapacity)) = StoreCapacity - N
      <4>1. \A i \in N + 1 .. StoreCapacity : LS[i] \in KVEntry
        BY <2>2, <3>1, KVAssumption
      <4>. QED
        BY <2>2, <4>1, KVAssumption, SubSeqProperties
    <3>. QED
      BY <2>4, <3>2, <3>3
  <2>6. KVTypeOK'
    <3>1. last_applied_index' \in LogIndexes \cup {0}
      BY <2>2, <2>4 DEF StoreTail
    <3>. QED
      BY <1>1, <2>2, <2>5, <3>1, KVAssumption DEF KVInv, KVTypeOK
  <2>7. FileOK'
    <3>1. ZeroAbove(N)'
      BY <1>1, <2>2, <2>5 DEF ZeroAbove
    <3>. QED
      BY <1>1, <2>1, <3>1 DEF FileOK, TailOK, BodyFits
  <2>. QED
    BY <1>2, <2>3, <2>4, <2>6, <2>7 DEF KVInv
<1>4. CASE ~Loadable(file)
  <2>1. /\ entries' = << >> /\ rest' = Zeros(StoreCapacity)
        /\ last_applied_index' = 0
    BY <1>4 DEF CrashRestart
  <2>2. Zeros(StoreCapacity) \in Seq(KVEntry)
        /\ Len(Zeros(StoreCapacity)) = StoreCapacity
    BY KVAssumption, ZerosFacts
  <2>3. KVTypeOK'
    BY <1>1, <2>1, <2>2 DEF KVInv, KVTypeOK
  <2>. QED
    BY <1>1, <1>2, <1>4, <2>1, <2>3 DEF KVInv, Ordered, FileOK, Loadable
<1>. QED
  BY <1>3, <1>4

(* A step that changes none of the store's variables keeps KVInv.         *)
LEMMA KVInvUnchanged ==
  ASSUME KVInv, UNCHANGED kvvars
  PROVE  KVInv'
<1>1. UNCHANGED <<entries, rest, last_applied_index, file, pc, handle,
                  buffered>>
  BY DEF kvvars
<1>2. KVTypeOK'
  BY <1>1 DEF KVInv, KVTypeOK
<1>3. Ordered(entries)'
  BY <1>1 DEF KVInv, Ordered
<1>4. \A t : TailOK(t) => TailOK(t)'
  BY <1>1 DEF TailOK, ZeroAbove, BodyFits
<1>5. FileOK'
  BY <1>1, <1>4 DEF KVInv, FileOK, Loadable
<1>6. BufOK'
  BY <1>1, <1>4 DEF KVInv, BufOK
<1>. QED
  BY <1>2, <1>3, <1>5, <1>6 DEF KVInv

LEMMA NextKVInv == KVInv /\ [KVNext]_kvvars => KVInv'
<1> SUFFICES ASSUME KVInv, [KVNext]_kvvars PROVE KVInv'
  OBVIOUS
<1>1. ASSUME NEW p \in Procs, KVOperation(p) PROVE KVInv'
  <2>1. CASE \E k \in Keys, v \in Values, li \in LogIndexes :
               PutUpdate(p, k, v, li) \/ PutCreate(p, k, v, li)
    BY <2>1, PutUpdateStep, PutCreateStep
  <2>2. CASE \E k \in Keys, li \in LogIndexes : Delete(p, k, li)
    BY <2>2, DeleteStep
  <2>3. CASE Compact(p)
    BY <2>3, CompactStep
  <2>4. CASE ResetClear(p)
    BY <2>4, ResetClearStep
  <2>. QED
    BY <1>1, <2>1, <2>2, <2>3, <2>4 DEF KVOperation
<1>2. ASSUME NEW p \in Procs, SaveStep(p) PROVE KVInv'
  BY <1>2, SaveOpenStep, SaveWriteStep, SaveCloseStep DEF SaveStep
<1>3. ASSUME NEW p \in Procs, ResetUnlink(p) PROVE KVInv'
  BY <1>3, ResetUnlinkStep
<1>4. CASE CrashRestart
  BY <1>4, CrashStep
<1>5. CASE UNCHANGED kvvars
  BY <1>5, KVInvUnchanged
<1>. QED
  BY <1>1, <1>2, <1>3, <1>4, <1>5 DEF KVNext

(* Type correctness of the store under any interleaving of puts, deletes, *)
(* compactions, resets, the steps of saves and crashes: the array keeps   *)
(* its 1000 slots, of which num_entries are in use, and the file always   *)
(* has the size of the store once a tail is written.                       *)
THEOREM KVTypeCorrect == KVSpec => []KVTypeOK
BY InitKVInv, NextKVInv, PTL DEF KVSpec, KVInv

(* pgraft_kv_find_entry_index returns the first live entry of a key, so    *)
(* that put updates it rather than appending, and delete removes the only *)
(* one: under every interleaving, compaction, reset and crash reload, no  *)
(* two live entries of the array share a key, even when the file reloaded *)
(* holds the body of one save and the tail of another, or zeros and a     *)
(* tail.                                                                   *)
THEOREM UniqueLive == KVSpec => []UniqueLiveKey
<1>1. KVInv => UniqueLiveKey
  BY OrderedUnique DEF KVInv
<1>. QED
  BY InitKVInv, NextKVInv, <1>1, PTL DEF KVSpec

=============================================================================
