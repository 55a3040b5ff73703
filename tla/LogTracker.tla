----------------------------- MODULE LogTracker -----------------------------
(***************************************************************************)
(* The host-side shadow log of pgraft (src/src/pgraft_log.c): a bounded    *)
(* array of entries in shared memory, each with a commit and an apply      *)
(* flag, and the three watermarks last_index, commit_index, last_applied.  *)
(* Every operation runs entirely under the structure's spinlock, so each   *)
(* one is a single atomic step here.                                       *)
(*                                                                         *)
(* The entry array is modelled as a function from the entry's index to     *)
(* the entry: the lookup loops of commit and apply ("find the slot whose   *)
(* index equals i") become a test of DOMAIN log, and the shifting loop of  *)
(* cleanup becomes a restriction of the domain.  Payload bytes, the        *)
(* timestamp and the statistics counters are left out: no guard reads     *)
(* them.                                                                   *)
(***************************************************************************)
EXTENDS Naturals, FiniteSets

CONSTANTS
  Capacity,   \* size of the entries array (1000 in the code)
  MaxIndex,   \* bound on last_index, so that the model is finite
  Terms       \* the terms a caller may pass to append

ASSUME LogAssumption ==
  /\ Capacity \in Nat \ {0}
  /\ MaxIndex \in Nat
  /\ Terms # {}

VARIABLES
  log,           \* index -> [term, committed, applied]: entries[0..log_size-1]
  log_size,      \* state->log_size
  last_index,    \* state->last_index
  commit_index,  \* state->commit_index
  last_applied   \* state->last_applied

vars == <<log, log_size, last_index, commit_index, last_applied>>

Entry == [term : Terms, committed : BOOLEAN, applied : BOOLEAN]

(* The index arguments a SQL caller can pass to commit, apply, cleanup.    *)
Indexes == 0 .. MaxIndex + 1

----------------------------------------------------------------------------
(* pgraft_log_init_shared_memory: a fresh, zeroed structure.               *)
Init ==
  /\ log = [i \in {} |-> [term |-> CHOOSE t \in Terms : TRUE,
                          committed |-> FALSE, applied |-> FALSE]]
  /\ log_size = 0
  /\ last_index = 0
  /\ commit_index = 0
  /\ last_applied = 0

(* Faulty variants of the operations below, each the way a plausible slip *)
(* in pgraft_log.c would change it: append without the full check, append *)
(* numbering from log_size instead of last_index, append that does not    *)
(* store the new index back into last_index, commit assigning              *)
(* commit_index instead of raising it, apply without the committed check. *)
AppendNoFullCheck(term) ==
  LET idx == last_index + 1 IN
  /\ idx <= MaxIndex
  /\ log' = [i \in DOMAIN log \cup {idx} |->
               IF i = idx THEN [term |-> term, committed |-> FALSE,
                                applied |-> FALSE]
                          ELSE log[i]]
  /\ log_size' = log_size + 1
  /\ last_index' = idx
  /\ UNCHANGED <<commit_index, last_applied>>

AppendFromSize(term) ==
  LET idx == log_size + 1 IN
  /\ log_size < Capacity
  /\ idx <= MaxIndex
  /\ log' = [i \in DOMAIN log \cup {idx} |->
               IF i = idx THEN [term |-> term, committed |-> FALSE,
                                applied |-> FALSE]
                          ELSE log[i]]
  /\ log_size' = log_size + 1
  /\ last_index' = idx
  /\ UNCHANGED <<commit_index, last_applied>>

AppendKeepLastIndex(term) ==
  LET idx == last_index + 1 IN
  /\ log_size < Capacity
  /\ idx <= MaxIndex
  /\ log' = [i \in DOMAIN log \cup {idx} |->
               IF i = idx THEN [term |-> term, committed |-> FALSE,
                                applied |-> FALSE]
                          ELSE log[i]]
  /\ log_size' = log_size + 1
  /\ UNCHANGED <<last_index, commit_index, last_applied>>

CommitAssign(index) ==
  /\ index \in DOMAIN log
  /\ log' = [log EXCEPT ![index].committed = TRUE]
  /\ commit_index' = index
  /\ UNCHANGED <<log_size, last_index, last_applied>>

ApplyUncommitted(index) ==
  /\ index \in DOMAIN log
  /\ log' = [log EXCEPT ![index].applied = TRUE]
  /\ last_applied' = IF index > last_applied THEN index ELSE last_applied
  /\ UNCHANGED <<log_size, last_index, commit_index>>

(* pgraft_log_append_entry: refused when the array is full; otherwise the  *)
(* new entry takes index last_index + 1, uncommitted and unapplied.  The   *)
(* size check on the payload is not modelled (payloads are abstracted).    *)
AppendEntry(term) ==
  LET idx == last_index + 1 IN
  /\ log_size < Capacity
  /\ idx <= MaxIndex
  /\ log' = [i \in DOMAIN log \cup {idx} |->
               IF i = idx THEN [term |-> term, committed |-> FALSE,
                                applied |-> FALSE]
                          ELSE log[i]]
  /\ log_size' = log_size + 1
  /\ last_index' = idx
  /\ UNCHANGED <<commit_index, last_applied>>

(* pgraft_log_commit_entry: find the entry, mark it committed and raise    *)
(* commit_index to at least its index.  Not found: -1, no change.          *)
CommitEntry(index) ==
  /\ index \in DOMAIN log
  /\ log' = [log EXCEPT ![index].committed = TRUE]
  /\ commit_index' = IF index > commit_index THEN index ELSE commit_index
  /\ UNCHANGED <<log_size, last_index, last_applied>>

(* pgraft_log_apply_entry: the entry must exist and be committed; it is    *)
(* marked applied and last_applied is raised to at least its index.        *)
ApplyEntry(index) ==
  /\ index \in DOMAIN log
  /\ log[index].committed
  /\ log' = [log EXCEPT ![index].applied = TRUE]
  /\ last_applied' = IF index > last_applied THEN index ELSE last_applied
  /\ UNCHANGED <<log_size, last_index, commit_index>>

(* pgraft_log_cleanup_old_entries: every entry whose index is below        *)
(* before_index is shifted out; log_size drops by the number removed.      *)
(* The watermarks are left as they are.                                    *)
CleanupOldEntries(before_index) ==
  LET removed == {i \in DOMAIN log : i < before_index}
      kept    == DOMAIN log \ removed
  IN
  /\ log' = [i \in kept |-> log[i]]
  /\ log_size' = log_size - Cardinality(removed)
  /\ UNCHANGED <<last_index, commit_index, last_applied>>

(* pgraft_log_reset: size and all watermarks back to zero.                 *)
Reset ==
  /\ log' = [i \in {} |-> log[i]]
  /\ log_size' = 0
  /\ last_index' = 0
  /\ commit_index' = 0
  /\ last_applied' = 0

Next ==
  \/ \E t \in Terms : AppendEntry(t)
  \/ \E i \in Indexes : CommitEntry(i)
  \/ \E i \in Indexes : ApplyEntry(i)
  \/ \E b \in Indexes : CleanupOldEntries(b)
  \/ Reset

Spec == Init /\ [][Next]_vars

----------------------------------------------------------------------------
(* The readers.  pgraft_log_get_entry copies out the entry whose index     *)
(* equals index, or returns -1 when no entry has it (pgraft_log_get_entry_ *)
(* sql then raises an ERROR); pgraft_log_get_statistics copies the whole   *)
(* structure.  Both run under the spinlock, so what they return is one     *)
(* state's.                                                                *)
EntryFound(index) == index \in DOMAIN log

GetEntry(index) == log[index]

Statistics ==
  [log_size |-> log_size, last_index |-> last_index,
   commit_index |-> commit_index, last_applied |-> last_applied]

----------------------------------------------------------------------------
(* Type invariant; log_size never exceeds the array (the full check of     *)
(* append is what keeps entries[log_size] inside the array).               *)
TypeOK ==
  /\ DOMAIN log \subseteq 1 .. MaxIndex
  /\ \A i \in DOMAIN log : log[i] \in Entry
  /\ log_size \in 0 .. Capacity
  /\ last_index \in 0 .. MaxIndex
  /\ commit_index \in 0 .. MaxIndex
  /\ last_applied \in 0 .. MaxIndex

(* The entries held are exactly the last log_size indices ending at       *)
(* last_index: append numbers gaplessly from last_index, and cleanup only  *)
(* ever removes a prefix, so the array never has a hole or a duplicate and *)
(* log_size counts it exactly (spec 4.3: gapless, monotonic indices).      *)
LogContiguous ==
  DOMAIN log = (last_index - log_size + 1) .. last_index

(* The watermarks are ordered: last_applied <= commit_index <= last_index. *)
(* Apply only accepts committed entries and commit only existing ones, and *)
(* both watermarks move by max, so whatever order SQL callers commit and   *)
(* apply entries in, nothing is recorded applied beyond what is committed. *)
WatermarksOrdered ==
  /\ last_applied <= commit_index
  /\ commit_index <= last_index

(* What the readers report agrees with itself: every entry get_entry      *)
(* finds that says applied also says committed, and lies at or below the   *)
(* last_applied that get_statistics reports; every entry that says         *)
(* committed lies at or below the reported commit_index.  Apply refuses an *)
(* uncommitted entry, commit never clears the flag, and both watermarks    *)
(* move by max, so no order of SQL commits, applies and cleanups shows a   *)
(* flag the watermarks do not cover.                                       *)
ReportsConsistent ==
  \A i \in Indexes : EntryFound(i) =>
    /\ GetEntry(i).applied => GetEntry(i).committed
    /\ GetEntry(i).applied => i <= Statistics.last_applied
    /\ GetEntry(i).committed => i <= Statistics.commit_index

=============================================================================
