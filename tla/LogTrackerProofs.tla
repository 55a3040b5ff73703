-------------------------- MODULE LogTrackerProofs --------------------------
(***************************************************************************)
(* Proofs about the shadow log of pgraft_log.c, for every capacity, every  *)
(* bound on the index and every set of terms.                              *)
(*                                                                         *)
(* TypeOK alone is not inductive: cleanup subtracts the number of removed  *)
(* entries from log_size, and that stays in Nat only because log_size      *)
(* counts the entries exactly, which is LogContiguous.  WatermarksOrdered  *)
(* is not inductive either: apply raises last_applied to the index of a    *)
(* committed entry, which stays below commit_index only because every      *)
(* committed entry is at or below commit_index.  IInv adds both facts.     *)
(***************************************************************************)
EXTENDS LogTracker, FiniteSetTheorems, TLAPS

(* Every entry marked committed lies at or below commit_index: commit      *)
(* raises commit_index to the entry's index, and nothing lowers it while   *)
(* the entry stays.                                                        *)
CommittedBelowCommitIndex ==
  \A i \in DOMAIN log : log[i].committed => i <= commit_index

(* Every entry marked applied is marked committed and lies at or below    *)
(* last_applied: apply checks the flag and raises last_applied.            *)
AppliedCommitted ==
  \A i \in DOMAIN log : log[i].applied => log[i].committed /\ i <= last_applied

IInv ==
  /\ TypeOK
  /\ log_size <= last_index
  /\ LogContiguous
  /\ WatermarksOrdered
  /\ CommittedBelowCommitIndex
  /\ AppliedCommitted

(* The number of entries of a contiguous stretch of indices.               *)
LEMMA IntervalSize ==
  ASSUME NEW a \in Int, NEW b \in Int, a <= b + 1
  PROVE  /\ IsFiniteSet(a .. b)
         /\ Cardinality(a .. b) = b - a + 1
BY FS_Interval

LEMMA InitIInv == Init => IInv
BY LogAssumption
   DEF Init, IInv, TypeOK, LogContiguous, WatermarksOrdered,
       CommittedBelowCommitIndex, AppliedCommitted, AppliedCommitted

(* Cleanup of a contiguous log keeps a contiguous suffix and log_size     *)
(* still counts it.                                                        *)
LEMMA CleanupStep ==
  ASSUME IInv, NEW b \in Indexes, CleanupOldEntries(b)
  PROVE  IInv'
<1> DEFINE lo == last_index - log_size + 1
           removed == {i \in DOMAIN log : i < b}
           kept == DOMAIN log \ removed
<1> USE DEF lo, removed, kept
<1>1. /\ log_size \in Nat /\ last_index \in Nat /\ b \in Nat
      /\ DOMAIN log = lo .. last_index
  BY LogAssumption DEF IInv, TypeOK, LogContiguous, Indexes
<1>2. /\ DOMAIN log' = kept
      /\ \A i \in kept : log'[i] = log[i]
      /\ log_size' = log_size - Cardinality(removed)
      /\ last_index' = last_index /\ commit_index' = commit_index
      /\ last_applied' = last_applied
  BY DEF CleanupOldEntries
<1>3. ASSUME NEW first \in Int, kept = first .. last_index,
             Cardinality(removed) = first - lo, lo <= first, first <= last_index + 1
      PROVE  IInv'
  <2>1. log_size' = last_index - first + 1
    BY <1>1, <1>2, <1>3
  <2>2. TypeOK'
    <3>1. (DOMAIN log \subseteq 1 .. MaxIndex)'
      BY <1>1, <1>2, <1>3 DEF IInv, TypeOK
    <3>2. \A i \in DOMAIN log' : log'[i] \in Entry
      BY <1>2 DEF IInv, TypeOK
    <3>3. (/\ log_size \in 0 .. Capacity /\ last_index \in 0 .. MaxIndex
           /\ commit_index \in 0 .. MaxIndex /\ last_applied \in 0 .. MaxIndex)'
      BY <1>1, <1>2, <1>3, <2>1, LogAssumption DEF IInv, TypeOK
    <3>. QED
      BY <3>1, <3>2, <3>3 DEF TypeOK
  <2>3. (log_size <= last_index /\ LogContiguous /\ WatermarksOrdered)'
    <3>1. last_index' - log_size' + 1 = first /\ log_size' <= last_index'
      BY <1>1, <1>2, <1>3, <2>1 DEF IInv
    <3>2. DOMAIN log' = first .. last_index'
      BY <1>2, <1>3
    <3>3. LogContiguous'
      BY <3>1, <3>2 DEF LogContiguous
    <3>. QED
      BY <1>2, <3>1, <3>3 DEF IInv, WatermarksOrdered
  <2>4. (CommittedBelowCommitIndex /\ AppliedCommitted)'
    BY <1>2 DEF IInv, CommittedBelowCommitIndex, AppliedCommitted
  <2>. QED
    BY <2>2, <2>3, <2>4 DEF IInv
<1>4. CASE b <= lo
  <2>1. removed = {} /\ kept = lo .. last_index
    BY <1>1, <1>4
  <2>. QED
    BY <1>1, <1>3, <2>1, FS_EmptySet DEF IInv
<1>5. CASE b > last_index
  <2>1. removed = lo .. last_index /\ kept = (last_index + 1) .. last_index
    BY <1>1, <1>5
  <2>2. Cardinality(lo .. last_index) = last_index - lo + 1
    BY <1>1, IntervalSize DEF IInv
  <2>. QED
    BY <1>1, <1>3, <2>1, <2>2 DEF IInv
<1>6. CASE lo < b /\ b <= last_index
  <2>1. removed = lo .. (b - 1) /\ kept = b .. last_index
    BY <1>1, <1>6
  <2>2. Cardinality(lo .. (b - 1)) = b - lo
    BY <1>1, <1>6, IntervalSize
  <2>. QED
    BY <1>1, <1>3, <1>6, <2>1, <2>2
<1>. QED
  BY <1>1, <1>4, <1>5, <1>6

(* Append numbers the new entry last_index + 1, just past the log.       *)
LEMMA AppendStep ==
  ASSUME IInv, NEW t \in Terms, AppendEntry(t)
  PROVE  IInv'
<1> DEFINE idx == last_index + 1
<1> USE DEF idx
<1>1. idx \notin DOMAIN log
  BY DEF IInv, TypeOK, LogContiguous
<1>2. /\ DOMAIN log' = DOMAIN log \cup {idx}
      /\ log'[idx] = [term |-> t, committed |-> FALSE, applied |-> FALSE]
      /\ \A i \in DOMAIN log : log'[i] = log[i]
      /\ log_size' = log_size + 1 /\ last_index' = idx
      /\ log_size < Capacity /\ idx <= MaxIndex
      /\ commit_index' = commit_index /\ last_applied' = last_applied
  BY <1>1 DEF AppendEntry
<1>3. TypeOK'
  <2>1. (DOMAIN log \subseteq 1 .. MaxIndex)'
    BY <1>2, LogAssumption DEF IInv, TypeOK
  <2>2. \A i \in DOMAIN log' : log'[i] \in Entry
    <3>1. log'[idx] \in Entry
      BY <1>2 DEF Entry
    <3>2. \A i \in DOMAIN log : log'[i] \in Entry
      BY <1>2 DEF IInv, TypeOK
    <3>. QED
      BY <1>2, <3>1, <3>2
  <2>3. (/\ log_size \in 0 .. Capacity /\ last_index \in 0 .. MaxIndex
         /\ commit_index \in 0 .. MaxIndex /\ last_applied \in 0 .. MaxIndex)'
    BY <1>2, LogAssumption DEF IInv, TypeOK
  <2>. QED
    BY <2>1, <2>2, <2>3 DEF TypeOK
<1>4. LogContiguous'
  BY <1>2 DEF IInv, TypeOK, LogContiguous
<1>5. (log_size <= last_index /\ WatermarksOrdered)'
  BY <1>2 DEF IInv, TypeOK, WatermarksOrdered
<1>6. CommittedBelowCommitIndex'
  BY <1>1, <1>2 DEF IInv, CommittedBelowCommitIndex
<1>7. AppliedCommitted'
  BY <1>1, <1>2 DEF IInv, AppliedCommitted
<1>. QED
  BY <1>3, <1>4, <1>5, <1>6, <1>7 DEF IInv

(* Commit marks an entry of the log and raises commit_index to it.  The    *)
(* index may be any value: the guard alone keeps it inside the log.        *)
LEMMA CommitStep ==
  ASSUME IInv, NEW i, CommitEntry(i)
  PROVE  IInv'
<1>1. /\ i \in DOMAIN log
      /\ log' = [log EXCEPT ![i].committed = TRUE]
      /\ commit_index' = IF i > commit_index THEN i ELSE commit_index
      /\ log_size' = log_size /\ last_index' = last_index
      /\ last_applied' = last_applied
  BY DEF CommitEntry
<1>2. i \in 1 .. last_index
  BY <1>1 DEF IInv, TypeOK, LogContiguous
<1>3. TypeOK'
  <2>1. DOMAIN log' = DOMAIN log
    BY <1>1
  <2>2. \A j \in DOMAIN log' : log'[j] \in Entry
    BY <1>1, <2>1 DEF IInv, TypeOK, Entry
  <2>3. commit_index' \in 0 .. MaxIndex
    BY <1>1, <1>2 DEF IInv, TypeOK
  <2>. QED
    BY <1>1, <2>1, <2>2, <2>3, Zenon DEF IInv, TypeOK
<1>4. (log_size <= last_index /\ LogContiguous /\ WatermarksOrdered)'
  BY <1>1, <1>2 DEF IInv, TypeOK, LogContiguous, WatermarksOrdered
<1>5. CommittedBelowCommitIndex'
  BY <1>1, <1>2 DEF IInv, TypeOK, CommittedBelowCommitIndex
<1>6. AppliedCommitted'
  BY <1>1 DEF IInv, TypeOK, AppliedCommitted
<1>. QED
  BY <1>3, <1>4, <1>5, <1>6 DEF IInv

(* Apply marks a committed entry and raises last_applied to it; the index  *)
(* may again be any value.                                                 *)
LEMMA ApplyStep ==
  ASSUME IInv, NEW i, ApplyEntry(i)
  PROVE  IInv'
<1>1. /\ i \in DOMAIN log /\ log[i].committed
      /\ log' = [log EXCEPT ![i].applied = TRUE]
      /\ last_applied' = IF i > last_applied THEN i ELSE last_applied
      /\ log_size' = log_size /\ last_index' = last_index
      /\ commit_index' = commit_index
  BY DEF ApplyEntry
<1>2. i \in 1 .. commit_index
  BY <1>1 DEF IInv, TypeOK, CommittedBelowCommitIndex
<1>3. TypeOK'
  <2>1. DOMAIN log' = DOMAIN log
    BY <1>1
  <2>2. \A j \in DOMAIN log' : log'[j] \in Entry
    BY <1>1, <2>1 DEF IInv, TypeOK, Entry
  <2>3. last_applied' \in 0 .. MaxIndex
    BY <1>1, <1>2 DEF IInv, TypeOK
  <2>. QED
    BY <1>1, <2>1, <2>2, <2>3, Zenon DEF IInv, TypeOK
<1>4. (log_size <= last_index /\ LogContiguous /\ WatermarksOrdered)'
  BY <1>1, <1>2 DEF IInv, TypeOK, LogContiguous, WatermarksOrdered
<1>5. CommittedBelowCommitIndex'
  BY <1>1 DEF IInv, TypeOK, CommittedBelowCommitIndex
<1>6. AppliedCommitted'
  BY <1>1, <1>2 DEF IInv, TypeOK, AppliedCommitted
<1>. QED
  BY <1>3, <1>4, <1>5, <1>6 DEF IInv

(* Reset empties the log and zeroes every watermark.                      *)
LEMMA ResetStep == IInv /\ Reset => IInv'
BY LogAssumption
   DEF Reset, IInv, TypeOK, LogContiguous, WatermarksOrdered,
       CommittedBelowCommitIndex, AppliedCommitted

(* A step that changes none of the log's variables.                        *)
LEMMA StutterStep == IInv /\ UNCHANGED vars => IInv'
BY DEF vars, IInv, TypeOK, LogContiguous, WatermarksOrdered,
       CommittedBelowCommitIndex, AppliedCommitted

LEMMA NextIInv == IInv /\ [Next]_vars => IInv'
<1> SUFFICES ASSUME IInv, [Next]_vars PROVE IInv'
  OBVIOUS
<1>1. ASSUME NEW t \in Terms, AppendEntry(t) PROVE IInv'
  BY <1>1, AppendStep
<1>2. ASSUME NEW i \in Indexes, CommitEntry(i) PROVE IInv'
  BY <1>2, CommitStep
<1>3. ASSUME NEW i \in Indexes, ApplyEntry(i) PROVE IInv'
  BY <1>3, ApplyStep
<1>4. ASSUME NEW b \in Indexes, CleanupOldEntries(b) PROVE IInv'
  BY <1>4, CleanupStep
<1>5. CASE Reset
  BY <1>5, ResetStep
<1>6. CASE UNCHANGED vars
  BY <1>6, StutterStep
<1>. QED
  BY <1>1, <1>2, <1>3, <1>4, <1>5, <1>6 DEF Next

(* Type correctness of the shadow log: log_size never exceeds the array    *)
(* that pgraft_log_append_entry writes into, for every capacity.           *)
THEOREM TypeCorrect == Spec => []TypeOK
BY InitIInv, NextIInv, PTL DEF Spec, IInv

(* The log stays gapless however SQL callers interleave append and        *)
(* cleanup: its entries are exactly the last log_size indices.             *)
THEOREM Contiguity == Spec => []LogContiguous
BY InitIInv, NextIInv, PTL DEF Spec, IInv

(* Whatever order entries are committed and applied in,                    *)
(* last_applied <= commit_index <= last_index.                             *)
THEOREM Ordering == Spec => []WatermarksOrdered
BY InitIInv, NextIInv, PTL DEF Spec, IInv

(* The readers never contradict each other: an entry get_entry reports     *)
(* applied is reported committed and lies within the last_applied and      *)
(* commit_index that get_statistics reports.                               *)
LEMMA IInvReports == IInv => ReportsConsistent
BY DEF IInv, CommittedBelowCommitIndex, AppliedCommitted, ReportsConsistent,
       EntryFound, GetEntry, Statistics

(* Whatever order SQL callers commit, apply and clean up entries in, the   *)
(* flags pgraft_log_get_entry reports stay within the watermarks that      *)
(* pgraft_log_get_statistics reports.                                      *)
THEOREM ReportsAgree == Spec => []ReportsConsistent
BY InitIInv, NextIInv, IInvReports, PTL DEF Spec


=============================================================================
