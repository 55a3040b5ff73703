---------------------------- MODULE LogCommands ----------------------------
(***************************************************************************)
(* The only path by which the shadow log of LogTracker changes: the SQL    *)
(* functions pgraft_log_append, pgraft_log_commit and pgraft_log_apply     *)
(* (pgraft_sql.c) queue a command with pgraft_queue_log_command            *)
(* (pgraft_util.c), and the worker's loop (pgraft.c) dequeues it and calls *)
(* pgraft_log_append_system, _commit_system or _apply_system, which call   *)
(* the operations of pgraft_log.c.  Cleanup and reset of the log have no   *)
(* caller and do not occur here.                                           *)
(*                                                                         *)
(* The SQL functions take an int64 (the term for append, the index for     *)
(* commit and apply) and pass it on as a C int: the command's log_index    *)
(* field is an int, and append hands it back as the entry's term.  That    *)
(* conversion is IntCast, of width IntWidth (32 on the build's targets).   *)
(*                                                                         *)
(* The queue is a FIFO of bounded length here.  The unlocked update of     *)
(* command_count it shares with the KV commands, and the status records,   *)
(* are the subject of CommandQueue; log data is left out (no guard reads   *)
(* it).                                                                    *)
(***************************************************************************)
EXTENDS LogTracker, Integers, Sequences, FiniteSets

CONSTANTS
  IntWidth,     \* bits of a C int
  SqlArgs,      \* int64 arguments a SQL caller passes
  QueueSlots    \* MAX_COMMANDS, the command queue's capacity

ASSUME LogCommandsAssumption ==
  /\ IntWidth \in Nat \ {0}
  /\ SqlArgs \subseteq Int
  /\ QueueSlots \in Nat \ {0}

VARIABLE
  queue   \* state->commands[command_head ..], the log commands queued

lcvars == <<vars, queue>>

(* The conversion of an int64 to a C int: the value modulo 2^IntWidth,     *)
(* read as two's complement (what gcc and clang do).                       *)
IntCast(x) ==
  LET m == x % (2 ^ IntWidth)
  IN  IF m >= 2 ^ (IntWidth - 1) THEN m - 2 ^ IntWidth ELSE m

(* Terms, the terms pgraft_log_append_entry may receive, hold every        *)
(* argument as the SQL functions convert it: the term that append stores  *)
(* is the int the command carried.                                        *)
ASSUME ConvertedTerms == \A a \in SqlArgs : IntCast(a) \in Terms

CmdTypes == {"append", "commit", "apply"}

(* Appends queued but not yet processed.                                   *)
QueuedAppends == Cardinality({i \in 1 .. Len(queue) : queue[i].type = "append"})

----------------------------------------------------------------------------
(* Shared memory as pgraft_log_init_shared_memory and the worker state's   *)
(* initialisation leave it: an empty log and an empty command queue.       *)
LCInit ==
  /\ Init
  /\ queue = << >>

(* pgraft_queue_log_command: with the queue full it returns false and the  *)
(* SQL function raises an ERROR, nothing changed; otherwise the command is *)
(* written at the tail with the argument converted to int.                 *)
QueueLogCommand(type, arg) ==
  /\ Len(queue) < QueueSlots
  /\ queue' = Append(queue, [type |-> type, index |-> IntCast(arg)])
  /\ UNCHANGED vars

(* pgraft_log_append(term, data).  The guard on the appends still to come  *)
(* is the model's bound MaxIndex on the log's indices.                     *)
SqlLogAppend(arg) ==
  /\ last_index + QueuedAppends < MaxIndex
  /\ QueueLogCommand("append", arg)

(* pgraft_log_commit(index).                                               *)
SqlLogCommit(arg) == QueueLogCommand("commit", arg)

(* pgraft_log_apply(index).                                                *)
SqlLogApply(arg) == QueueLogCommand("apply", arg)

(* pgraft_log_append_system: pgraft_log_append_entry with the int widened  *)
(* back to int64 as the term.  With the log full it raises an ERROR, and  *)
(* in the worker, which has no handler for it, that ends the process; the *)
(* postmaster starts it again, with the log and the queue as they were.   *)
LogAppendSystem(i) ==
  \/ AppendEntry(i)
  \/ /\ log_size >= Capacity
     /\ UNCHANGED vars

(* pgraft_log_commit_system: pgraft_log_commit_entry; an index that is not *)
(* in the log fails the command (a WARNING, status FAILED).               *)
LogCommitSystem(i) ==
  \/ CommitEntry(i)
  \/ /\ i \notin DOMAIN log
     /\ UNCHANGED vars

(* pgraft_log_apply_system: pgraft_log_apply_entry; an index that is not   *)
(* in the log, or not yet committed, fails the command.                   *)
LogApplySystem(i) ==
  \/ ApplyEntry(i)
  \/ /\ ~(i \in DOMAIN log /\ log[i].committed)
     /\ UNCHANGED vars

(* The worker's loop: pgraft_dequeue_command takes the head, and the       *)
(* switch on its type runs the matching system call (the outcome goes to  *)
(* the command's status record).                                          *)
WorkerLogCommand ==
  /\ queue # << >>
  /\ queue' = Tail(queue)
  /\ LET c == Head(queue) IN
       \/ c.type = "append" /\ LogAppendSystem(c.index)
       \/ c.type = "commit" /\ LogCommitSystem(c.index)
       \/ c.type = "apply"  /\ LogApplySystem(c.index)

LCNext ==
  \/ \E a \in SqlArgs : SqlLogAppend(a) \/ SqlLogCommit(a) \/ SqlLogApply(a)
  \/ WorkerLogCommand

LCSpec == LCInit /\ [][LCNext]_lcvars

=============================================================================
