---------------------------- MODULE CommandQueue ----------------------------
(***************************************************************************)
(* The command queue and the status buffer of pgraft's worker state        *)
(* (src/src/pgraft_util.c, driven by the loop of pgraft_main in            *)
(* src/src/pgraft.c).  SQL backends put commands at the tail of a circular *)
(* buffer in shared memory with pgraft_queue_log_command or                *)
(* pgraft_queue_kv_command; the background worker takes one from the head  *)
(* on each turn of its loop, copies it into a second circular buffer, the  *)
(* status buffer, runs it, and updates the status record that has the      *)
(* command's timestamp.                                                    *)
(*                                                                         *)
(* No lock guards any of these fields.  Each C statement that touches a    *)
(* shared field is therefore a step of its own, and "count++" and          *)
(* "count--" are a load and a store, between which the other process may   *)
(* run.  A producer re-reads command_tail after its field copies (strncpy  *)
(* and time() are calls, so the compiler reloads the field).  The copies   *)
(* of the command's fields are one step; a command is a model value and   *)
(* its timestamp, time(NULL) in seconds, is the model clock.  The status   *)
(* buffer is touched by the worker alone, so add_command_to_status, the    *)
(* command's execution and update_command_status are one step; what a      *)
(* command does when it runs is modelled in the modules of the components  *)
(* it calls, and here only its outcome, completed or failed, is chosen.    *)
(***************************************************************************)
EXTENDS Integers, Sequences, FiniteSets

CONSTANTS
  Producers,    \* SQL backends submitting commands
  Commands,     \* the distinct commands they submit
  Zeroed,       \* the content of a slot no producer has written yet
  MaxCommands,  \* MAX_COMMANDS: slots in each circular buffer
  MaxTime       \* last value of the clock time(NULL)

ASSUME QueueAssumption ==
  /\ Producers # {} /\ Commands # {}
  /\ Zeroed \notin Commands
  /\ MaxCommands \in Nat \ {0}
  /\ MaxTime \in Nat

Slots == 0 .. MaxCommands - 1

(* A command as it sits in a slot: its identity and its timestamp.        *)
Cmd == [id : Commands \cup {Zeroed}, ts : 0 .. MaxTime]

(* A record of the status buffer.                                          *)
StatusRec == [id : Commands \cup {Zeroed}, ts : 0 .. MaxTime,
              status : {"pending", "completed", "failed"}]

VARIABLES
  commands,        \* state->commands[]
  command_head,    \* state->command_head
  command_tail,    \* state->command_tail
  command_count,   \* state->command_count
  status_commands, \* state->status_commands[]
  status_head,     \* state->status_head
  status_tail,     \* state->status_tail
  status_count,    \* state->status_count
  ppc,             \* per producer: where it is in its queue call
  pcmd,            \* per producer: the command it is submitting
  pcount,          \* per producer: the command_count it loaded
  wpc,             \* the worker: where it is in dequeue and dispatch
  wcmd,            \* the worker's local copy of the dequeued command
  wcount,          \* the command_count the worker loaded
  now,             \* time(NULL)
  accepted,        \* history: commands whose queue call returned true
  rejected,        \* history: commands refused because the queue was full
  dequeued         \* history: the sequence of commands the worker took

qvars == <<commands, command_head, command_tail, command_count>>
svars == <<status_commands, status_head, status_tail, status_count>>
vars == <<qvars, svars, ppc, pcmd, pcount, wpc, wcmd, wcount, now,
          accepted, rejected, dequeued>>

ZeroCmd == [id |-> Zeroed, ts |-> 0]

(* Commands not yet handed to any producer.                                *)
Unsubmitted ==
  Commands \ ({pcmd[p] : p \in Producers} \cup accepted \cup rejected)

----------------------------------------------------------------------------
(* pgraft_worker_get_state, first attach: head, tail and count are zeroed; *)
(* the arrays are in fresh, zero-filled shared memory.                     *)
Init ==
  /\ commands = [i \in Slots |-> ZeroCmd]
  /\ command_head = 0 /\ command_tail = 0 /\ command_count = 0
  /\ status_commands = [i \in Slots |-> [id |-> Zeroed, ts |-> 0,
                                          status |-> "pending"]]
  /\ status_head = 0 /\ status_tail = 0 /\ status_count = 0
  /\ ppc = [p \in Producers |-> "idle"]
  /\ pcmd = [p \in Producers |-> Zeroed]
  /\ pcount = [p \in Producers |-> 0]
  /\ wpc = "dequeue"
  /\ wcmd = ZeroCmd
  /\ wcount = 0
  /\ now = 0
  /\ accepted = {}
  /\ rejected = {}
  /\ dequeued = << >>

(* The clock moves on.                                                     *)
Tick ==
  /\ now < MaxTime
  /\ now' = now + 1
  /\ UNCHANGED <<qvars, svars, ppc, pcmd, pcount, wpc, wcmd, wcount,
                 accepted, rejected, dequeued>>

ProducerUnchanged == UNCHANGED <<wpc, wcmd, wcount, svars, now, dequeued>>

(* pgraft_queue_*_command, the full check: count >= MAX_COMMANDS returns   *)
(* false at once; otherwise the producer goes on to fill the tail slot.    *)
Submit(p, c) ==
  /\ ppc[p] = "idle"
  /\ c \in Unsubmitted
  /\ \/ /\ command_count >= MaxCommands
        /\ rejected' = rejected \cup {c}
        /\ UNCHANGED <<ppc, pcmd>>
     \/ /\ command_count < MaxCommands
        /\ ppc' = [ppc EXCEPT ![p] = "write"]
        /\ pcmd' = [pcmd EXCEPT ![p] = c]
        /\ UNCHANGED rejected
  /\ UNCHANGED <<qvars, pcount, accepted>>
  /\ ProducerUnchanged

(* cmd = &commands[command_tail] and the field copies, timestamp included. *)
WriteSlot(p) ==
  /\ ppc[p] = "write"
  /\ commands' = [commands EXCEPT ![command_tail] = [id |-> pcmd[p], ts |-> now]]
  /\ ppc' = [ppc EXCEPT ![p] = "tail"]
  /\ UNCHANGED <<command_head, command_tail, command_count, pcmd, pcount,
                 accepted, rejected>>
  /\ ProducerUnchanged

(* command_tail = (command_tail + 1) % MAX_COMMANDS.                        *)
AdvanceTail(p) ==
  /\ ppc[p] = "tail"
  /\ command_tail' = (command_tail + 1) % MaxCommands
  /\ ppc' = [ppc EXCEPT ![p] = "load"]
  /\ UNCHANGED <<commands, command_head, command_count, pcmd, pcount,
                 accepted, rejected>>
  /\ ProducerUnchanged

(* command_count++, the load.                                               *)
LoadCount(p) ==
  /\ ppc[p] = "load"
  /\ pcount' = [pcount EXCEPT ![p] = command_count]
  /\ ppc' = [ppc EXCEPT ![p] = "store"]
  /\ UNCHANGED <<qvars, pcmd, accepted, rejected>>
  /\ ProducerUnchanged

(* command_count++, the store; the call returns true.                       *)
StoreCount(p) ==
  /\ ppc[p] = "store"
  /\ command_count' = pcount[p] + 1
  /\ accepted' = accepted \cup {pcmd[p]}
  /\ ppc' = [ppc EXCEPT ![p] = "idle"]
  /\ pcmd' = [pcmd EXCEPT ![p] = Zeroed]
  /\ UNCHANGED <<commands, command_head, command_tail, pcount, rejected>>
  /\ ProducerUnchanged

----------------------------------------------------------------------------
WorkerUnchanged == UNCHANGED <<ppc, pcmd, pcount, now, accepted, rejected>>

(* pgraft_dequeue_command: nothing when count is 0; otherwise the head     *)
(* slot is copied out and command_head advanced.                           *)
Dequeue ==
  /\ wpc = "dequeue"
  /\ command_count # 0
  /\ wcmd' = commands[command_head]
  /\ command_head' = (command_head + 1) % MaxCommands
  /\ dequeued' = Append(dequeued, commands[command_head].id)
  /\ wpc' = "load"
  /\ UNCHANGED <<commands, command_tail, command_count, wcount, svars>>
  /\ WorkerUnchanged

(* command_count--, the load.                                               *)
WorkerLoadCount ==
  /\ wpc = "load"
  /\ wcount' = command_count
  /\ wpc' = "store"
  /\ UNCHANGED <<qvars, wcmd, svars, dequeued>>
  /\ WorkerUnchanged

(* command_count--, the store; pgraft_dequeue_command returns true.         *)
WorkerStoreCount ==
  /\ wpc = "store"
  /\ command_count' = wcount - 1
  /\ wpc' = "dispatch"
  /\ UNCHANGED <<commands, command_head, command_tail, wcmd, wcount, svars,
                 dequeued>>
  /\ WorkerUnchanged

(* Faulty variants of AddToStatus: one without the full check, one that    *)
(* drops the count on eviction but leaves status_head where it was.        *)
AddToStatusNoEvict(rec) ==
  [buf |-> [status_commands EXCEPT ![status_tail] = rec],
   head |-> status_head, tail |-> (status_tail + 1) % MaxCommands,
   count |-> status_count + 1]

AddToStatusKeepHead(rec) ==
  LET full == status_count >= MaxCommands
      count1 == IF full THEN status_count - 1 ELSE status_count
  IN [buf |-> [status_commands EXCEPT ![status_tail] = rec],
      head |-> status_head, tail |-> (status_tail + 1) % MaxCommands,
      count |-> count1 + 1]

(* pgraft_add_command_to_status: when the buffer is full the oldest record *)
(* is dropped; the command is copied in at status_tail.                    *)
AddToStatus(rec) ==
  LET full == status_count >= MaxCommands
      head1 == IF full THEN (status_head + 1) % MaxCommands ELSE status_head
      count1 == IF full THEN status_count - 1 ELSE status_count
  IN [buf |-> [status_commands EXCEPT ![status_tail] = rec],
      head |-> head1, tail |-> (status_tail + 1) % MaxCommands,
      count |-> count1 + 1]

(* pgraft_update_command_status: the first record from the head whose      *)
(* timestamp equals the command's takes the outcome; none, no change.      *)
UpdateStatus(sb, ts, outcome) ==
  LET hits == {i \in 0 .. sb.count - 1 :
                 sb.buf[(sb.head + i) % MaxCommands].ts = ts}
      first == CHOOSE i \in hits : \A j \in hits : i <= j
  IN IF hits = {} THEN sb.buf
     ELSE [sb.buf EXCEPT ![(sb.head + first) % MaxCommands].status = outcome]

(* The dispatch of pgraft_main for a dequeued command: the copy into the   *)
(* status buffer (with the status the producer set, PENDING), the run of   *)
(* the command, and the update of its status by timestamp.                 *)
Dispatch ==
  /\ wpc = "dispatch"
  /\ \E outcome \in {"completed", "failed"} :
       LET sb == AddToStatus([id |-> wcmd.id, ts |-> wcmd.ts,
                              status |-> "pending"])
       IN /\ status_commands' = UpdateStatus(sb, wcmd.ts, outcome)
          /\ status_head' = sb.head
          /\ status_tail' = sb.tail
          /\ status_count' = sb.count
  /\ wpc' = "dequeue"
  /\ UNCHANGED <<qvars, wcmd, wcount, dequeued>>
  /\ WorkerUnchanged

Next ==
  \/ \E p \in Producers :
       \/ \E c \in Commands : Submit(p, c)
       \/ WriteSlot(p) \/ AdvanceTail(p) \/ LoadCount(p) \/ StoreCount(p)
  \/ Dequeue \/ WorkerLoadCount \/ WorkerStoreCount \/ Dispatch
  \/ Tick

Spec == Init /\ [][Next]_vars

----------------------------------------------------------------------------
(* Type invariant.  command_count and the counts the two sides loaded are  *)
(* any integers: the unlocked count++ and count-- can lose updates in both *)
(* directions, so nothing bounds them; the buffer indices stay slots.      *)
TypeOK ==
  /\ commands \in [Slots -> Cmd]
  /\ command_head \in Slots /\ command_tail \in Slots
  /\ command_count \in Int
  /\ status_commands \in [Slots -> StatusRec]
  /\ status_head \in Slots /\ status_tail \in Slots
  /\ status_count \in 0 .. MaxCommands
  /\ ppc \in [Producers -> {"idle", "write", "tail", "load", "store"}]
  /\ pcmd \in [Producers -> Commands \cup {Zeroed}]
  /\ pcount \in [Producers -> Int]
  /\ wpc \in {"dequeue", "load", "store", "dispatch"}
  /\ wcmd \in Cmd
  /\ wcount \in Int
  /\ now \in 0 .. MaxTime
  /\ accepted \subseteq Commands /\ rejected \subseteq Commands
  /\ dequeued \in Seq(Commands \cup {Zeroed})

(* pgraft_get_queue_status: the records of the status buffer from         *)
(* status_head on, status_count of them, in the order a backend lists      *)
(* them.  The reader takes no lock; it is one step here, so what it lists  *)
(* is one state's buffer (the worker alone writes it).                     *)
QueueStatus ==
  [i \in 1 .. status_count |-> status_commands[(status_head + i - 1) % MaxCommands]]

(* The status buffer holds the most recent dispatched commands, in the     *)
(* order the worker took them: the records pgraft_get_queue_status lists   *)
(* are the last status_count entries of the dequeue history, and           *)
(* status_count is as many as were dispatched, up to MAX_COMMANDS          *)
(* (add_command_to_status evicts the oldest when full, spec 4.1).          *)
StatusKeepsLatest ==
  LET done == IF wpc = "dispatch" \/ wpc = "load" \/ wpc = "store"
                THEN Len(dequeued) - 1 ELSE Len(dequeued)
  IN /\ status_count = IF done < MaxCommands THEN done ELSE MaxCommands
     /\ status_tail = (status_head + status_count) % MaxCommands
     /\ \A i \in 1 .. status_count :
          QueueStatus[i].id = dequeued[done - status_count + i]

(* Every command the worker takes from the queue was accepted by a queue  *)
(* call and is taken once (spec 4.1: FIFO, drained by the worker alone;    *)
(* spec 5: access must be serialised).  With no lock on command_count, a   *)
(* producer's count++ and the worker's count-- can interleave so that one  *)
(* of them is lost, and the worker then takes a slot nobody filled.        *)
DequeuedOnce ==
  \A i \in 1 .. Len(dequeued) :
    /\ dequeued[i] \in accepted \cup {pcmd[p] : p \in Producers}
    /\ \A j \in 1 .. Len(dequeued) : j # i => dequeued[j] # dequeued[i]

(* Once the worker is done with a command, its status record is no longer *)
(* PENDING (spec 4.1: after execution the record is updated to Completed   *)
(* or Failed).  update_command_status finds the record by its timestamp,   *)
(* in seconds, and updates the first match, so a second command of the     *)
(* same second updates the record of the first and its own stays PENDING.  *)
StatusResolved ==
  wpc = "dequeue" =>
    \A i \in 1 .. status_count : QueueStatus[i].status # "pending"

=============================================================================
