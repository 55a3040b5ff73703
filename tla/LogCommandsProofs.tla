-------------------------- MODULE LogCommandsProofs --------------------------
(***************************************************************************)
(* The shadow log's invariants for the system as it runs: the SQL          *)
(* functions queue log commands, the worker takes them from the head and  *)
(* runs the matching operation of pgraft_log.c, or fails it.  LogTracker-  *)
(* Proofs shows them for the log's operations called directly; here they   *)
(* are shown for LCSpec, for every int width, every set of SQL arguments  *)
(* and every queue capacity.                                              *)
(*                                                                         *)
(* The step of the worker is one of the log's own steps or a stutter of   *)
(* the log, so the step lemmas of LogTrackerProofs carry over.  What the   *)
(* queue has to supply is that the index an append command carries is a   *)
(* term: QueueOK says every queued command's index is in Terms, which      *)
(* holds because every SQL argument, once IntCast converts it, is a term   *)
(* (ConvertedTerms).  Commit and apply take any index, since their guards *)
(* keep it inside the log.                                                 *)
(***************************************************************************)
EXTENDS LogCommands, LogTrackerProofs, SequenceTheorems

(* The commands queued: each a command type with a term as index, and no  *)
(* more of them than the queue has slots.                                  *)
Cmd == [type : CmdTypes, index : Terms]

QueueOK ==
  /\ queue \in Seq(Cmd)
  /\ Len(queue) <= QueueSlots

LCInv == IInv /\ QueueOK

LEMMA InitLCInv == LCInit => LCInv
<1> SUFFICES ASSUME LCInit PROVE LCInv
  OBVIOUS
<1>1. IInv
  BY InitIInv DEF LCInit
<1>2. QueueOK
  BY EmptySeq, LogCommandsAssumption DEF LCInit, QueueOK
<1>. QED
  BY <1>1, <1>2 DEF LCInv

(* A SQL function queues one command, with its argument converted, and    *)
(* leaves the log alone.                                                   *)
LEMMA QueueStep ==
  ASSUME LCInv, NEW type \in CmdTypes, NEW a \in SqlArgs,
         QueueLogCommand(type, a)
  PROVE  LCInv'
<1> DEFINE cmd == [type |-> type, index |-> IntCast(a)]
<1> USE DEF cmd
<1>1. cmd \in Cmd
  BY ConvertedTerms DEF Cmd
<1>2. /\ Len(queue) < QueueSlots
      /\ queue' = Append(queue, cmd)
      /\ UNCHANGED vars
  BY DEF QueueLogCommand
<1>3. IInv'
  BY <1>2, StutterStep DEF LCInv
<1>4. /\ queue' \in Seq(Cmd)
      /\ Len(queue') = Len(queue) + 1
  BY <1>1, <1>2, AppendProperties DEF LCInv, QueueOK
<1>5. QueueOK'
  BY <1>2, <1>4, LogCommandsAssumption DEF QueueOK
<1>. QED
  BY <1>3, <1>5 DEF LCInv

(* The worker runs the command at the head of the queue: the log takes    *)
(* one of its own steps, or none when the command fails.                   *)
LEMMA WorkerStep ==
  ASSUME LCInv, WorkerLogCommand
  PROVE  LCInv'
<1> DEFINE c == Head(queue)
<1> USE DEF c
<1>1. /\ queue # << >>
      /\ queue' = Tail(queue)
      /\ \/ c.type = "append" /\ LogAppendSystem(c.index)
         \/ c.type = "commit" /\ LogCommitSystem(c.index)
         \/ c.type = "apply"  /\ LogApplySystem(c.index)
  BY DEF WorkerLogCommand
<1>2. /\ c \in Cmd
      /\ queue' \in Seq(Cmd)
      /\ Len(queue') = Len(queue) - 1
  BY <1>1, HeadTailProperties DEF LCInv, QueueOK
<1>3. QueueOK'
  BY <1>2, LogCommandsAssumption DEF LCInv, QueueOK
<1>4. c.index \in Terms
  BY <1>2 DEF Cmd
<1>5. IInv'
  <2>1. CASE LogAppendSystem(c.index)
    BY <1>4, <2>1, AppendStep, StutterStep DEF LCInv, LogAppendSystem
  <2>2. CASE LogCommitSystem(c.index)
    BY <2>2, CommitStep, StutterStep DEF LCInv, LogCommitSystem
  <2>3. CASE LogApplySystem(c.index)
    BY <2>3, ApplyStep, StutterStep DEF LCInv, LogApplySystem
  <2>. QED
    BY <1>1, <2>1, <2>2, <2>3
<1>. QED
  BY <1>3, <1>5 DEF LCInv

LEMMA NextLCInv == LCInv /\ [LCNext]_lcvars => LCInv'
<1> SUFFICES ASSUME LCInv, [LCNext]_lcvars PROVE LCInv'
  OBVIOUS
<1>1. ASSUME NEW a \in SqlArgs, SqlLogAppend(a) PROVE LCInv'
  BY <1>1, QueueStep DEF SqlLogAppend, CmdTypes
<1>2. ASSUME NEW a \in SqlArgs, SqlLogCommit(a) PROVE LCInv'
  BY <1>2, QueueStep DEF SqlLogCommit, CmdTypes
<1>3. ASSUME NEW a \in SqlArgs, SqlLogApply(a) PROVE LCInv'
  BY <1>3, QueueStep DEF SqlLogApply, CmdTypes
<1>4. CASE WorkerLogCommand
  BY <1>4, WorkerStep
<1>5. CASE UNCHANGED lcvars
  <2>1. IInv'
    BY <1>5, StutterStep DEF lcvars, LCInv
  <2>2. QueueOK'
    BY <1>5 DEF lcvars, LCInv, QueueOK
  <2>. QED
    BY <2>1, <2>2 DEF LCInv
<1>. QED
  BY <1>1, <1>2, <1>3, <1>4, <1>5 DEF LCNext

(* Type correctness of the shadow log when only the worker changes it, on *)
(* the commands the SQL functions queue: log_size never exceeds the array. *)
THEOREM LCTypeCorrect == LCSpec => []TypeOK
BY InitLCInv, NextLCInv, PTL DEF LCSpec, LCInv, IInv

(* However SQL callers and the worker interleave, and whatever int the    *)
(* arguments are converted to, the log stays gapless: its entries are the  *)
(* last log_size indices ending at last_index.                             *)
THEOREM LCContiguity == LCSpec => []LogContiguous
BY InitLCInv, NextLCInv, PTL DEF LCSpec, LCInv, IInv

(* Commands commit and apply entries in queue order, whatever indices the *)
(* callers passed, and last_applied <= commit_index <= last_index holds.   *)
THEOREM LCOrdering == LCSpec => []WatermarksOrdered
BY InitLCInv, NextLCInv, PTL DEF LCSpec, LCInv, IInv

(* What pgraft_log_get_entry and pgraft_log_get_statistics report agrees   *)
(* on the log the worker builds from queued commands, failed ones included.*)
THEOREM LCReportsAgree == LCSpec => []ReportsConsistent
BY InitLCInv, NextLCInv, IInvReports, PTL DEF LCSpec, LCInv

=============================================================================
