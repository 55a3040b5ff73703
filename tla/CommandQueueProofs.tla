------------------------- MODULE CommandQueueProofs -------------------------
(***************************************************************************)
(* Type correctness of the command queue and the status buffer of          *)
(* pgraft_util.c, for every number of producers, every MAX_COMMANDS and    *)
(* every clock bound.  Each index is advanced modulo MAX_COMMANDS, so it  *)
(* stays a slot whatever the racing counts do, and the status count is     *)
(* kept at or below MAX_COMMANDS by the eviction of add_command_to_status  *)
(* alone.  TypeOK is not inductive as it stands: the store of count++ adds *)
(* the producer's command to the accepted ones, which is a command (not    *)
(* the zeroed slot content) only because a producer past its full check    *)
(* holds the command it submitted.  IInv adds that fact.                   *)
(*                                                                         *)
(* The second result is that the status buffer is a window on the latest   *)
(* dispatched commands (StatusKeepsLatest).  Its proof needs one more fact, *)
(* WorkerHoldsLast: between its dequeue and its dispatch the worker holds   *)
(* the command it took last, which is what Dispatch records.  The ring     *)
(* arithmetic is done case by case (wrapped or not), which the SMT solver  *)
(* settles once every index is known to lie in 0 .. MAX_COMMANDS - 1.      *)
(***************************************************************************)
EXTENDS CommandQueue, TLAPS

(* A producer inside its queue call holds a real command.                 *)
ProducerHolds ==
  \A p \in Producers : ppc[p] # "idle" => pcmd[p] \in Commands

IInv == TypeOK /\ ProducerHolds

(* An index advanced modulo MAX_COMMANDS is a slot.                        *)
LEMMA ModSlot ==
  ASSUME NEW x \in Int
  PROVE  x % MaxCommands \in Slots
BY QueueAssumption DEF Slots

(* add_command_to_status keeps the buffer, its indices and its count      *)
(* within their types: a full buffer evicts before it adds.                *)
LEMMA AddToStatusType ==
  ASSUME TypeOK, NEW rec \in StatusRec
  PROVE  LET sb == AddToStatus(rec) IN
         /\ sb.buf \in [Slots -> StatusRec]
         /\ sb.head \in Slots /\ sb.tail \in Slots
         /\ sb.count \in 0 .. MaxCommands
<1>1. /\ status_head \in Slots /\ status_tail \in Slots
      /\ status_count \in 0 .. MaxCommands
      /\ status_commands \in [Slots -> StatusRec]
  BY DEF TypeOK
<1>2. ASSUME NEW x \in Slots PROVE (x + 1) % MaxCommands \in Slots
  <2>1. x + 1 \in Int
    BY QueueAssumption DEF Slots
  <2>. QED
    BY <2>1, ModSlot
<1>3. [status_commands EXCEPT ![status_tail] = rec] \in [Slots -> StatusRec]
  BY <1>1
<1>4. (IF status_count >= MaxCommands THEN status_count - 1
                                      ELSE status_count) + 1 \in 0 .. MaxCommands
  BY <1>1, QueueAssumption
<1>. QED
  BY <1>1, <1>2, <1>3, <1>4, Zenon DEF AddToStatus

(* update_command_status changes at most the status field of one record,  *)
(* to an outcome; when no record has the timestamp, or the index it       *)
(* computes were outside the buffer, the buffer is unchanged.              *)
LEMMA UpdateStatusType ==
  ASSUME NEW sb, sb.buf \in [Slots -> StatusRec], NEW ts,
         NEW outcome \in {"completed", "failed"}
  PROVE  UpdateStatus(sb, ts, outcome) \in [Slots -> StatusRec]
<1> DEFINE hits == {i \in 0 .. sb.count - 1 :
                      sb.buf[(sb.head + i) % MaxCommands].ts = ts}
           first == CHOOSE i \in hits : \A j \in hits : i <= j
           k == (sb.head + first) % MaxCommands
<1>1. CASE hits = {}
  BY <1>1 DEF UpdateStatus
<1>2. CASE hits # {} /\ k \in Slots
  <2>1. [sb.buf[k] EXCEPT !.status = outcome] \in StatusRec
    BY <1>2 DEF StatusRec
  <2>. QED
    BY <1>2, <2>1 DEF UpdateStatus
<1>3. CASE hits # {} /\ k \notin Slots
  <2>1. [sb.buf EXCEPT ![k].status = outcome] = sb.buf
    BY <1>3
  <2>. QED
    BY <1>3, <2>1 DEF UpdateStatus
<1>. QED
  BY <1>1, <1>2, <1>3

LEMMA InitIInv == Init => IInv
BY QueueAssumption DEF Init, IInv, ProducerHolds, TypeOK, Slots, Cmd, StatusRec, ZeroCmd

LEMMA NextIInv == IInv /\ [Next]_vars => IInv'
<1> SUFFICES ASSUME IInv, [Next]_vars PROVE IInv'
  OBVIOUS
<1>0. TypeOK /\ ProducerHolds
  BY DEF IInv
<1> USE DEF qvars, svars, ProducerUnchanged, WorkerUnchanged
<1>1. ASSUME NEW p \in Producers, NEW c \in Commands, Submit(p, c)
      PROVE  IInv'
  BY <1>0, <1>1 DEF Submit, Unsubmitted, IInv, TypeOK, ProducerHolds
<1>2. ASSUME NEW p \in Producers, WriteSlot(p) PROVE IInv'
  <2>1. [id |-> pcmd[p], ts |-> now] \in Cmd
    BY <1>0 DEF TypeOK, Cmd
  <2>. QED
    BY <1>0, <1>2, <2>1 DEF WriteSlot, IInv, TypeOK, ProducerHolds
<1>3. ASSUME NEW p \in Producers, AdvanceTail(p) PROVE IInv'
  <2>1. (command_tail + 1) % MaxCommands \in Slots
    <3>1. command_tail + 1 \in Int
      BY <1>0, QueueAssumption DEF TypeOK, Slots
    <3>. QED
      BY <3>1, ModSlot
  <2>. QED
    BY <1>0, <1>3, <2>1 DEF AdvanceTail, IInv, TypeOK, ProducerHolds
<1>4. ASSUME NEW p \in Producers, LoadCount(p) PROVE IInv'
  BY <1>0, <1>4 DEF LoadCount, IInv, TypeOK, ProducerHolds
<1>5. ASSUME NEW p \in Producers, StoreCount(p) PROVE IInv'
  BY <1>0, <1>5 DEF StoreCount, IInv, TypeOK, ProducerHolds
<1>6. CASE Dequeue
  <2>1. (command_head + 1) % MaxCommands \in Slots
    <3>1. command_head + 1 \in Int
      BY <1>0, QueueAssumption DEF TypeOK, Slots
    <3>. QED
      BY <3>1, ModSlot
  <2>2. commands[command_head] \in Cmd
    BY <1>0 DEF TypeOK
  <2>3. commands[command_head].id \in Commands \cup {Zeroed}
    BY <2>2 DEF Cmd
  <2>. QED
    BY <1>0, <1>6, <2>1, <2>2, <2>3 DEF Dequeue, IInv, TypeOK, ProducerHolds
<1>7. CASE WorkerLoadCount
  BY <1>0, <1>7 DEF WorkerLoadCount, IInv, TypeOK, ProducerHolds
<1>8. CASE WorkerStoreCount
  BY <1>0, <1>8 DEF WorkerStoreCount, IInv, TypeOK, ProducerHolds
<1>9. CASE Dispatch
  <2> DEFINE rec == [id |-> wcmd.id, ts |-> wcmd.ts, status |-> "pending"]
             sb == AddToStatus(rec)
  <2>1. rec \in StatusRec
    BY <1>0 DEF TypeOK, Cmd, StatusRec
  <2>2. /\ sb.buf \in [Slots -> StatusRec]
        /\ sb.head \in Slots /\ sb.tail \in Slots
        /\ sb.count \in 0 .. MaxCommands
    BY <1>0, <2>1, AddToStatusType
  <2>3. PICK outcome \in {"completed", "failed"} :
          /\ status_commands' = UpdateStatus(sb, wcmd.ts, outcome)
          /\ status_head' = sb.head
          /\ status_tail' = sb.tail
          /\ status_count' = sb.count
    BY <1>9 DEF Dispatch
  <2>4. status_commands' \in [Slots -> StatusRec]
    BY <2>2, <2>3, UpdateStatusType
  <2>5. UNCHANGED <<commands, command_head, command_tail, command_count,
                    ppc, pcmd, pcount, wcmd, wcount, now, accepted,
                    rejected, dequeued>> /\ wpc' = "dequeue"
    BY <1>9 DEF Dispatch
  <2>. QED
    BY <1>0, <2>2, <2>3, <2>4, <2>5 DEF IInv, TypeOK, ProducerHolds
<1>10. CASE Tick
  BY <1>0, <1>10, QueueAssumption DEF Tick, IInv, TypeOK, ProducerHolds
<1>11. CASE UNCHANGED vars
  BY <1>0, <1>11 DEF vars, IInv, TypeOK, ProducerHolds
<1>. QED
  BY <1>1, <1>2, <1>3, <1>4, <1>5, <1>6, <1>7, <1>8, <1>9, <1>10, <1>11
     DEF Next

(* Type correctness of the unlocked queue: however producers and the       *)
(* worker interleave their count++ and count--, pgraft_queue_*_command,    *)
(* pgraft_dequeue_command and pgraft_add_command_to_status only ever index *)
(* the two buffers at a slot, and status_count stays within MAX_COMMANDS.  *)
THEOREM TypeCorrect == Spec => []TypeOK
BY InitIInv, NextIInv, PTL DEF Spec, IInv


----------------------------------------------------------------------------
(* The status buffer keeps the latest dispatched commands.  The count of   *)
(* dispatched commands depends on where the worker is: between its dequeue *)
(* and its dispatch it has taken one command more than it has recorded,    *)
(* and Dispatch records the command from its local copy.  So the invariant *)
(* needs the fact that this copy is the command last taken.                *)
WorkerHoldsLast ==
  wpc # "dequeue" => Len(dequeued) >= 1 /\ wcmd.id = dequeued[Len(dequeued)]

SInv == IInv /\ WorkerHoldsLast /\ StatusKeepsLatest

(* update_command_status changes a status, never the command a record      *)
(* holds.                                                                  *)
LEMMA UpdateStatusIds ==
  ASSUME NEW sb, sb.buf \in [Slots -> StatusRec], NEW ts,
         NEW outcome \in {"completed", "failed"}
  PROVE  \A k \in Slots : UpdateStatus(sb, ts, outcome)[k].id = sb.buf[k].id
<1> DEFINE hits == {i \in 0 .. sb.count - 1 :
                      sb.buf[(sb.head + i) % MaxCommands].ts = ts}
           first == CHOOSE i \in hits : \A j \in hits : i <= j
           x == (sb.head + first) % MaxCommands
<1>1. CASE hits = {}
  BY <1>1 DEF UpdateStatus
<1>2. CASE hits # {}
  <2>1. UpdateStatus(sb, ts, outcome) = [sb.buf EXCEPT ![x].status = outcome]
    BY <1>2 DEF UpdateStatus
  <2>2. \A k \in Slots : [sb.buf EXCEPT ![x].status = outcome][k].id = sb.buf[k].id
    BY DEF StatusRec
  <2>. QED
    BY <2>1, <2>2
<1>. QED
  BY <1>1, <1>2

(* A step that leaves the worker's place, the dequeue history and the      *)
(* status buffer alone keeps the invariant.                                *)
LEMMA KeepsLatestUnchanged ==
  ASSUME StatusKeepsLatest, UNCHANGED <<wpc, dequeued, svars>>
  PROVE  StatusKeepsLatest'
BY DEF StatusKeepsLatest, QueueStatus, svars


(* Dispatch records the command just taken at status_tail: without         *)
(* eviction the window grows by one at its end, with eviction (a full      *)
(* buffer) it also drops its first record, so that it still ends with the  *)
(* latest command.                                                         *)
LEMMA DispatchKeepsLatest ==
  ASSUME TypeOK, WorkerHoldsLast, StatusKeepsLatest, Dispatch
  PROVE  StatusKeepsLatest'
<1> DEFINE M == MaxCommands
           L == Len(dequeued)
           h == status_head
           c == status_count
           rec == [id |-> wcmd.id, ts |-> wcmd.ts, status |-> "pending"]
           sb == AddToStatus(rec)
           buf1 == [status_commands EXCEPT ![status_tail] = rec]
<1> USE DEF M, L, h, c, rec, buf1
<1>1. /\ M \in Nat \ {0} /\ h \in Slots /\ c \in 0 .. M
      /\ status_commands \in [Slots -> StatusRec] /\ rec \in StatusRec
      /\ L \in Nat
  BY QueueAssumption DEF TypeOK, Cmd, StatusRec
<1>2. /\ wpc = "dispatch" /\ wpc' = "dequeue"
      /\ dequeued' = dequeued
      /\ \E outcome \in {"completed", "failed"} :
           /\ status_commands' = UpdateStatus(sb, wcmd.ts, outcome)
           /\ status_head' = sb.head
           /\ status_tail' = sb.tail
           /\ status_count' = sb.count
  BY DEF Dispatch
<1>3. /\ L >= 1 /\ rec.id = dequeued[L]
      /\ c = IF L - 1 < M THEN L - 1 ELSE M
      /\ status_tail = (h + c) % M
      /\ \A i \in 1 .. c :
           status_commands[(h + i - 1) % M].id = dequeued[L - 1 - c + i]
  BY <1>2 DEF WorkerHoldsLast, StatusKeepsLatest, QueueStatus
<1>4. PICK outcome \in {"completed", "failed"} :
        /\ status_commands' = UpdateStatus(sb, wcmd.ts, outcome)
        /\ status_head' = sb.head
        /\ status_tail' = sb.tail
        /\ status_count' = sb.count
  BY <1>2
<1>5. /\ sb.buf = buf1 /\ buf1 \in [Slots -> StatusRec]
      /\ \A k \in Slots : status_commands'[k].id = buf1[k].id
  <2>1. sb.buf = buf1
    BY DEF AddToStatus
  <2>2. buf1 \in [Slots -> StatusRec]
    BY <1>1, <1>3 DEF Slots
  <2>3. \A k \in Slots : UpdateStatus(sb, wcmd.ts, outcome)[k].id = sb.buf[k].id
    <3>1. sb.buf \in [Slots -> StatusRec]
      BY <2>1, <2>2
    <3>. QED
      BY <3>1, UpdateStatusIds, Zenon
  <2>. QED
    BY <1>4, <2>1, <2>2, <2>3
<1>6. SUFFICES
        /\ status_count' = IF L < M THEN L ELSE M
        /\ status_tail' = (status_head' + status_count') % M
        /\ \A i \in 1 .. status_count' :
             status_commands'[(status_head' + i - 1) % M].id
               = dequeued[L - status_count' + i]
  BY <1>2 DEF StatusKeepsLatest, QueueStatus
<1>7. CASE c < M
  <2>1. /\ c = L - 1
        /\ status_head' = h /\ status_count' = c + 1
        /\ status_tail' = (status_tail + 1) % M
    BY <1>1, <1>3, <1>4, <1>7 DEF AddToStatus
  <2>2. status_tail = h + c \/ status_tail = h + c - M
    <3>2. (h + c) % M = IF h + c < M THEN h + c ELSE h + c - M
      BY <1>1, <1>7 DEF Slots
    <3>. QED
      BY <1>3, <3>2
  <2>3. status_tail \in Slots
    BY DEF TypeOK
  <2>4. (h + c + 1) % M = (status_tail + 1) % M
    <3>1. (status_tail + 1) % M = IF status_tail + 1 < M THEN status_tail + 1
                                   ELSE status_tail + 1 - M
      BY <1>1, <2>3 DEF Slots
    <3>2. (h + (c + 1)) % M = IF h + (c + 1) < M THEN h + (c + 1)
                              ELSE h + (c + 1) - M
      BY <1>1, <1>7 DEF Slots
    <3>. QED
      BY <1>1, <2>2, <2>3, <3>1, <3>2 DEF Slots
  <2>5. ASSUME NEW i \in 1 .. c + 1
        PROVE  status_commands'[(h + i - 1) % M].id = dequeued[L - (c + 1) + i]
    <3> DEFINE k == (h + i - 1) % M
    <3> USE DEF k
    <3>1. k = IF h + (i - 1) < M THEN h + (i - 1) ELSE h + (i - 1) - M
      BY <1>1, <1>7 DEF Slots
    <3>2. k \in Slots
      BY <1>1 DEF Slots
    <3>3. status_commands'[k].id = buf1[k].id
      BY <1>5, <3>2
    <3>4. CASE i = c + 1
      <4>1. k = status_tail
        <5>1. k = (h + c) % M
          BY <1>1, <3>4 DEF Slots
        <5>. QED
          BY <1>3, <5>1
      <4>2. buf1[k] = rec
        BY <1>1, <2>3, <4>1 DEF Slots
      <4>. QED
        BY <1>3, <2>1, <3>3, <3>4, <4>2
    <3>5. CASE i # c + 1
      <4>1. k # status_tail
        <5>1. (h + c) % M = IF h + c < M THEN h + c ELSE h + c - M
          BY <1>1 DEF Slots
        <5>2. status_tail = IF h + c < M THEN h + c ELSE h + c - M
          BY <1>3, <5>1
        <5>3. h \in 0 .. M - 1 /\ i - 1 \in 0 .. c - 1
          BY <1>1, <3>5 DEF Slots
        <5>. QED
          BY <1>1, <1>7, <3>1, <5>2, <5>3
      <4>2. buf1[k] = status_commands[k]
        BY <1>1, <3>2, <4>1
      <4>3. i \in 1 .. c
        BY <1>1, <3>5
      <4>4. status_commands[k].id = dequeued[L - 1 - c + i]
        BY <1>3, <4>3
      <4>. QED
        BY <1>1, <3>3, <4>2, <4>4
    <3>. QED
      BY <3>4, <3>5
  <2>6. status_count' = IF L < M THEN L ELSE M
    BY <1>1, <1>7, <2>1
  <2>7. status_tail' = (status_head' + status_count') % M
    BY <1>1, <2>1, <2>4 DEF Slots
  <2>8. \A i \in 1 .. status_count' :
          status_commands'[(status_head' + i - 1) % M].id
            = dequeued[L - status_count' + i]
    BY <2>1, <2>5
  <2>. QED
    BY <2>6, <2>7, <2>8
<1>8. CASE c = M
  <2>1. /\ L - 1 >= M
        /\ status_head' = (h + 1) % M /\ status_count' = M
        /\ status_tail' = (status_tail + 1) % M
    BY <1>1, <1>3, <1>4, <1>8 DEF AddToStatus
  <2>2. status_tail = h
    <3>1. (h + M) % M = h
      BY <1>1 DEF Slots
    <3>. QED
      BY <1>3, <1>8, <3>1
  <2>3. (h + 1) % M \in Slots
    BY <1>1 DEF Slots
  <2>4. (((h + 1) % M) + M) % M = (h + 1) % M
    BY <1>1, <2>3 DEF Slots
  <2>5. ASSUME NEW i \in 1 .. M
        PROVE  status_commands'[(((h + 1) % M) + i - 1) % M].id = dequeued[L - M + i]
    <3> DEFINE k == (((h + 1) % M) + i - 1) % M
    <3> USE DEF k
    <3>0. h \in 0 .. M - 1 /\ M \in Nat \ {0}
      BY <1>1 DEF Slots
    <3>1. k = (h + i) % M
      <4>1. CASE h + 1 < M
        <5>1. (h + 1) % M = h + 1
          BY <3>0, <4>1
        <5>. QED
          BY <3>0, <5>1
      <4>2. CASE h + 1 = M
        <5>1. (h + 1) % M = 0
          BY <3>0, <4>2
        <5>2. k = (i - 1) % M
          BY <3>0, <5>1
        <5>3. (i - 1) % M = i - 1 /\ (h + i) % M = i - 1
          BY <3>0, <4>2
        <5>. QED
          BY <5>2, <5>3
      <4>. QED
        BY <3>0, <4>1, <4>2
    <3>2. /\ k \in Slots
          /\ k = IF h + i < M THEN h + i ELSE h + i - M
      BY <3>0, <3>1 DEF Slots
    <3>3. status_commands'[k].id = buf1[k].id
      BY <1>5, <3>2
    <3>4. CASE i = M
      <4>1. k = status_tail
        BY <2>2, <3>0, <3>2, <3>4
      <4>2. buf1[k] = rec
        BY <1>1, <2>2, <4>1 DEF Slots
      <4>. QED
        BY <1>3, <3>3, <3>4, <4>2
    <3>5. CASE i # M
      <4>1. k # status_tail
        BY <2>2, <3>0, <3>2, <3>5
      <4>2. buf1[k] = status_commands[k]
        BY <1>1, <3>2, <4>1
      <4>3. /\ i + 1 \in 1 .. c
            /\ k = (h + (i + 1) - 1) % M
        BY <1>8, <3>0, <3>1, <3>5
      <4>4. status_commands[(h + (i + 1) - 1) % M].id = dequeued[L - 1 - c + (i + 1)]
        BY <1>3, <4>3
      <4>. QED
        BY <1>1, <1>8, <3>3, <4>2, <4>3, <4>4
    <3>. QED
      BY <3>4, <3>5
  <2>. QED
    BY <1>1, <2>1, <2>2, <2>4, <2>5
<1>. QED
  BY <1>1, <1>7, <1>8


LEMMA InitSInv == Init => SInv
<1> SUFFICES ASSUME Init PROVE SInv
  OBVIOUS
<1>1. IInv
  BY InitIInv
<1>2. WorkerHoldsLast
  BY DEF Init, WorkerHoldsLast
<1>3. StatusKeepsLatest
  BY QueueAssumption DEF Init, StatusKeepsLatest, QueueStatus
<1>. QED
  BY <1>1, <1>2, <1>3 DEF SInv

LEMMA NextSInv == SInv /\ [Next]_vars => SInv'
<1> SUFFICES ASSUME SInv, [Next]_vars PROVE SInv'
  OBVIOUS
<1>0. /\ IInv /\ TypeOK /\ WorkerHoldsLast /\ StatusKeepsLatest
      /\ IInv'
  BY NextIInv DEF SInv, IInv
<1> USE DEF svars
(* Producers and the clock touch neither the worker nor the status buffer. *)
<1>1. ASSUME NEW p \in Producers,
             \/ \E c \in Commands : Submit(p, c)
             \/ WriteSlot(p) \/ AdvanceTail(p) \/ LoadCount(p) \/ StoreCount(p)
      PROVE  SInv'
  <2>1. UNCHANGED <<wpc, wcmd, dequeued, svars>>
    BY <1>1 DEF Submit, WriteSlot, AdvanceTail, LoadCount, StoreCount,
                ProducerUnchanged
  <2>2. WorkerHoldsLast'
    BY <1>0, <2>1 DEF WorkerHoldsLast
  <2>. QED
    BY <1>0, <2>1, <2>2, KeepsLatestUnchanged DEF SInv
<1>2. CASE Tick
  <2>1. UNCHANGED <<wpc, wcmd, dequeued, svars>>
    BY <1>2 DEF Tick
  <2>2. WorkerHoldsLast'
    BY <1>0, <2>1 DEF WorkerHoldsLast
  <2>. QED
    BY <1>0, <2>1, <2>2, KeepsLatestUnchanged DEF SInv
(* The dequeue appends the head slot's command to the history and copies   *)
(* it; the count of recorded commands is the same before and after.       *)
<1>3. CASE Dequeue
  <2> DEFINE L == Len(dequeued)
  <2>1. /\ wpc = "dequeue" /\ wpc' = "load"
        /\ wcmd' = commands[command_head]
        /\ dequeued' = Append(dequeued, commands[command_head].id)
        /\ UNCHANGED svars
    BY <1>3 DEF Dequeue
  <2>2. /\ dequeued \in Seq(Commands \cup {Zeroed})
        /\ Len(dequeued') = L + 1
        /\ dequeued'[L + 1] = commands[command_head].id
        /\ \A j \in 1 .. L : dequeued'[j] = dequeued[j]
    BY <1>0, <2>1 DEF TypeOK
  <2>3. WorkerHoldsLast'
    BY <2>1, <2>2 DEF WorkerHoldsLast
  <2>4. /\ status_count = IF L < MaxCommands THEN L ELSE MaxCommands
        /\ status_tail = (status_head + status_count) % MaxCommands
        /\ \A i \in 1 .. status_count :
             QueueStatus[i].id = dequeued[L - status_count + i]
    BY <1>0, <2>1 DEF StatusKeepsLatest
  <2>5. \A i \in 1 .. status_count :
          L - status_count + i \in 1 .. L
    BY <1>0, <2>2, <2>4 DEF TypeOK
  <2>6. StatusKeepsLatest'
    <3>0. QueueStatus' = QueueStatus
      BY <2>1 DEF QueueStatus
    <3>1. \A i \in 1 .. status_count' :
            QueueStatus'[i].id = dequeued'[Len(dequeued') - 1 - status_count' + i]
      BY <1>0, <2>1, <2>2, <2>4, <2>5, <3>0 DEF TypeOK
    <3>2. /\ status_count' = IF Len(dequeued') - 1 < MaxCommands
                              THEN Len(dequeued') - 1 ELSE MaxCommands
          /\ status_tail' = (status_head' + status_count') % MaxCommands
      BY <1>0, <2>1, <2>2, <2>4 DEF TypeOK
    <3>. QED
      BY <2>1, <3>1, <3>2 DEF StatusKeepsLatest
  <2>. QED
    BY <1>0, <2>3, <2>6 DEF SInv
(* The two steps of count-- change neither the history nor the copy.       *)
<1>4. CASE WorkerLoadCount \/ WorkerStoreCount
  <2>1. /\ wpc \in {"load", "store"} /\ wpc' \in {"store", "dispatch"}
        /\ UNCHANGED <<wcmd, dequeued, svars>>
    BY <1>4 DEF WorkerLoadCount, WorkerStoreCount
  <2>2. WorkerHoldsLast'
    BY <1>0, <2>1 DEF WorkerHoldsLast
  <2>3. StatusKeepsLatest'
    BY <1>0, <2>1 DEF StatusKeepsLatest, QueueStatus
  <2>. QED
    BY <1>0, <2>2, <2>3 DEF SInv
<1>5. CASE Dispatch
  <2>1. WorkerHoldsLast'
    BY <1>5 DEF Dispatch, WorkerHoldsLast
  <2>2. StatusKeepsLatest'
    BY <1>0, <1>5, DispatchKeepsLatest
  <2>. QED
    BY <1>0, <2>1, <2>2 DEF SInv
<1>6. CASE UNCHANGED vars
  <2>1. UNCHANGED <<wpc, wcmd, dequeued, svars>>
    BY <1>6 DEF vars, qvars
  <2>2. WorkerHoldsLast'
    BY <1>0, <2>1 DEF WorkerHoldsLast
  <2>. QED
    BY <1>0, <2>1, <2>2, KeepsLatestUnchanged DEF SInv
<1>. QED
  BY <1>1, <1>2, <1>3, <1>4, <1>5, <1>6 DEF Next

(* The records pgraft_get_queue_status lists are the latest commands the   *)
(* worker dispatched, in the order it took them, for every MAX_COMMANDS:   *)
(* pgraft_add_command_to_status evicts exactly the oldest record when the  *)
(* buffer is full, however the producers race on the command queue.       *)
THEOREM StatusWindow == Spec => []StatusKeepsLatest
BY InitSInv, NextSInv, PTL DEF Spec, SInv

=============================================================================
