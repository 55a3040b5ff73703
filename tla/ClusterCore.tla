---------------------------- MODULE ClusterCore ----------------------------
(***************************************************************************)
(* The cluster state of pgraft in shared memory (src/src/pgraft_core.c):   *)
(* the node array, leader_id, current_term, node_id, the initialized flag  *)
(* and the state string, all under the structure's spinlock.               *)
(*                                                                         *)
(* Two kinds of process write it.                                          *)
(*  - The background worker, every fifth turn of its loop, runs            *)
(*    pgraft_update_shared_memory_from_go (pgraft.c): it asks the engine   *)
(*    for the leader, then the term and its node id, then the member list, *)
(*    which it copies in with pgraft_core_update_nodes (its own locked     *)
(*    step), and last publishes leader, term, node id and state under the  *)
(*    lock.  Each engine call is a separate step: the engine's goroutines  *)
(*    run meanwhile.                                                       *)
(*  - A SQL backend calling pgraft_remove_node (pgraft_sql.c) removes the  *)
(*    node from the array with pgraft_core_remove_node and then, only when *)
(*    this backend has loaded an engine of its own, calls its remove_peer. *)
(*    The engine of the worker is a different process's library.          *)
(*  - A backend that called pgraft_init has loaded, and maybe started,    *)
(*    such an engine instance (the library handle is per process); the KV  *)
(*    write functions then run the refresh in that backend, against its    *)
(*    own instance, before their leader check.  That refresh is one step   *)
(*    here: nothing else reads the backend's private engine.  The member   *)
(*    list of a backend's instance is its own: the instance starts with   *)
(*    the configured members and loses a peer its remove_peer removed.    *)
(*                                                                         *)
(* The engine is outside the repository.  It is modelled by what the       *)
(* extension sees of it: a fixed membership, and a leader and a term that  *)
(* change by elections.  An instance that was loaded but never            *)
(* initialized has no configuration: it reports no leader, term 0, node   *)
(* id 0 and the empty list "[]".  Addresses, ports and the state file are *)
(* left out.                                                               *)
(***************************************************************************)
EXTENDS Integers, Sequences, FiniteSets

CONSTANTS
  Members,          \* the engine's peers (node ids, all positive)
  Self,             \* the engine's node id for this node (get_node_id)
  Order,            \* the members in the order get_nodes lists them
  Slots,            \* size of the node array (16 in the code)
  MaxTerm,          \* bound on elections, so that the model is finite
  Backends          \* SQL backends

ASSUME ClusterAssumption ==
  /\ Members \subseteq Nat \ {0}
  /\ Self \in Members
  /\ Order \in Seq(Members)
  /\ \A n \in Members : \E i \in 1 .. Len(Order) : Order[i] = n
  /\ \A i, j \in 1 .. Len(Order) : Order[i] = Order[j] => i = j
  /\ Slots \in Nat \ {0}
  /\ MaxTerm \in Nat

VARIABLES
  initialized,   \* cluster->initialized
  node_id,       \* cluster->node_id
  leader_id,     \* cluster->leader_id
  current_term,  \* cluster->current_term
  state,         \* cluster->state: "stopped", "follower" or "leader"
  nodes,         \* cluster->nodes[0 .. num_nodes-1], by id
  wnode,         \* worker_state->node_id
  wpc,           \* the worker: "starting", "idle", "term", "nodes", "publish"
  r_leader,      \* the worker's current_leader, read from the engine
  r_term,        \* the worker's current_term, read from the engine
  bpc,           \* per backend: "idle", or "peer" between its two steps
  btarget,       \* per backend: the node_id argument
  bengine,       \* per backend: its own engine "none", "loaded" or "running"
  blist,         \* per backend: the member list its own instance reports
  eng_leader,    \* the engine's leader (0: none)
  eng_term,      \* the engine's term
  removed_ok     \* history: node ids pgraft_remove_node returned success for

corevars == <<initialized, node_id, leader_id, current_term, state, nodes>>
workervars == <<wnode, wpc, r_leader, r_term>>
backvars == <<bpc, btarget, bengine, blist>>
vars == <<corevars, workervars, backvars, eng_leader, eng_term, removed_ok>>

Elems(s) == {s[i] : i \in DOMAIN s}

(* The member list get_nodes returns: every member once, in its order.    *)
EngineList == Order

----------------------------------------------------------------------------
(* pgraft_core_init_shared_memory: a fresh structure with node_id and      *)
(* leader_id -1, state "stopped", no nodes; the worker not yet started.    *)
Init ==
  /\ initialized = FALSE
  /\ node_id = -1
  /\ leader_id = -1
  /\ current_term = 0
  /\ state = "stopped"
  /\ nodes = << >>
  /\ wnode = 0
  /\ wpc = "starting"
  /\ r_leader = 0
  /\ r_term = 0
  /\ bpc = [b \in Backends |-> "idle"]
  /\ btarget = [b \in Backends |-> Self]
  /\ bengine = [b \in Backends |-> "none"]
  /\ blist = [b \in Backends |-> << >>]
  /\ eng_leader = 0
  /\ eng_term = 0
  /\ removed_ok = {}

(* pgraft_main: the engine is loaded and started, worker_state->node_id is *)
(* set to 0 and the worker enters its loop.                                *)
WorkerStart ==
  /\ wpc = "starting"
  /\ wnode' = 0
  /\ wpc' = "idle"
  /\ UNCHANGED <<corevars, r_leader, r_term, backvars, eng_leader,
                 eng_term, removed_ok>>

(* pgraft_update_shared_memory_from_go: current_leader = get_leader().     *)
RefreshReadLeader ==
  /\ wpc = "idle"
  /\ r_leader' = eng_leader
  /\ wpc' = "term"
  /\ UNCHANGED <<corevars, wnode, r_term, backvars, eng_leader,
                 eng_term, removed_ok>>

(* ... current_term = get_term(); go_node_id = get_node_id().              *)
RefreshReadTerm ==
  /\ wpc = "term"
  /\ r_term' = eng_term
  /\ wpc' = "nodes"
  /\ UNCHANGED <<corevars, wnode, r_leader, backvars, eng_leader,
                 eng_term, removed_ok>>

(* The first n members of a list, n at most Slots.                         *)
FirstSlots(list) ==
  SubSeq(list, 1, IF Len(list) < Slots THEN Len(list) ELSE Slots)

(* A faulty variant of pgraft_core_update_nodes below that does not reset  *)
(* num_nodes before the copy: the memset zeroes the array and the count    *)
(* grows by the old count, over zeroed slots.                              *)
UpdateNodesNoReset(list) ==
  IF initialized THEN FirstSlots(list) \o [i \in 1 .. Len(nodes) |-> 0]
  ELSE nodes

(* pgraft_core_update_nodes: refused (-1) while the structure is not       *)
(* initialized, else the array is cleared and the first 16 ids copied in.  *)
UpdateNodes(list) ==
  IF initialized THEN FirstSlots(list) ELSE nodes

(* A faulty variant of the copy below with the test on the list inverted.  *)
RefreshNodesInverted ==
  /\ wpc = "nodes"
  /\ nodes' = IF Len(EngineList) = 0 THEN UpdateNodes(EngineList) ELSE nodes
  /\ wpc' = "publish"
  /\ UNCHANGED <<initialized, node_id, leader_id, current_term, state, wnode,
                 r_leader, r_term, backvars, eng_leader, eng_term,
                 removed_ok>>

(* ... nodes_json = get_nodes(); when it is not "[]", the ids parsed by    *)
(* pgraft_parse_nodes_json (at most 16) go to pgraft_core_update_nodes.    *)
RefreshNodes ==
  /\ wpc = "nodes"
  /\ nodes' = IF Len(EngineList) > 0 THEN UpdateNodes(EngineList) ELSE nodes
  /\ wpc' = "publish"
  /\ UNCHANGED <<initialized, node_id, leader_id, current_term, state, wnode,
                 r_leader, r_term, backvars, eng_leader, eng_term,
                 removed_ok>>

(* A faulty variant of the publish below that derives the state string    *)
(* from worker_state->node_id before setting it.                           *)
RefreshPublishStaleNode ==
  /\ wpc = "publish"
  /\ leader_id' = r_leader
  /\ current_term' = r_term
  /\ initialized' = TRUE
  /\ node_id' = Self
  /\ wnode' = Self
  /\ state' = IF r_leader > 0 /\ r_leader = wnode THEN "leader" ELSE "follower"
  /\ wpc' = "idle"
  /\ UNCHANGED <<nodes, r_leader, r_term, backvars, eng_leader, eng_term,
                 removed_ok>>

(* ... under the lock: leader, term, initialized, node_id (and             *)
(* worker_state->node_id) from the engine, and the state string: "leader"  *)
(* when the leader read is positive and is this worker's node id.          *)
RefreshPublish ==
  /\ wpc = "publish"
  /\ leader_id' = r_leader
  /\ current_term' = r_term
  /\ initialized' = TRUE
  /\ node_id' = Self
  /\ wnode' = Self
  /\ state' = IF r_leader > 0 /\ r_leader = Self THEN "leader" ELSE "follower"
  /\ wpc' = "idle"
  /\ UNCHANGED <<nodes, r_leader, r_term, backvars, eng_leader, eng_term,
                 removed_ok>>

(* The array s without its slot i, the later slots shifted down.          *)
DropSlot(s, i) == SubSeq(s, 1, i - 1) \o SubSeq(s, i + 1, Len(s))

(* pgraft_remove_node, first step: pgraft_core_remove_node finds the first *)
(* slot with the id and shifts the rest down.  Not initialized or not      *)
(* found: ERROR, nothing changed.                                          *)
SqlRemoveCore(b, id) ==
  /\ bpc[b] = "idle"
  /\ initialized
  /\ \E i \in 1 .. Len(nodes) :
       /\ nodes[i] = id
       /\ \A j \in 1 .. i - 1 : nodes[j] # id
       /\ nodes' = DropSlot(nodes, i)
  /\ bpc' = [bpc EXCEPT ![b] = "peer"]
  /\ btarget' = [btarget EXCEPT ![b] = id]
  /\ UNCHANGED <<initialized, node_id, leader_id, current_term, state,
                 workervars, bengine, blist, eng_leader, eng_term, removed_ok>>

(* A peer's removal from an instance's member list.                       *)
DropPeer(list, id) ==
  IF \E i \in 1 .. Len(list) : list[i] = id
    THEN DropSlot(list, CHOOSE i \in 1 .. Len(list) : list[i] = id)
    ELSE list

(* pgraft_remove_node, second step: with no engine loaded in this backend  *)
(* the call succeeds at once; with one, its remove_peer removes the peer  *)
(* from that instance, or fails (ERROR after the node already left the    *)
(* array).  Neither reaches the engine of the worker.                     *)
SqlRemovePeer(b) ==
  /\ bpc[b] = "peer"
  /\ bpc' = [bpc EXCEPT ![b] = "idle"]
  /\ \/ /\ removed_ok' = removed_ok \cup {btarget[b]}
        /\ blist' = [blist EXCEPT ![b] = DropPeer(@, btarget[b])]
     \/ /\ bengine[b] # "none"
        /\ UNCHANGED <<removed_ok, blist>>
  /\ UNCHANGED <<corevars, workervars, btarget, bengine, eng_leader, eng_term>>

(* pgraft_go_load_library in a backend: already loaded, nothing to do;    *)
(* else dlopen, the symbols and the version check, any of which can fail  *)
(* and leave the handle NULL.                                              *)
LoadLibrary(e) == IF e = "none" THEN {"none", "loaded"} ELSE {e}

(* pgraft_go_init_with_config and pgraft_go_start on a loaded library;     *)
(* either can return an error, the library staying loaded.                *)
StartInstance(e) == IF e = "loaded" THEN {"loaded", "running"} ELSE {e}

(* pgraft_init in a backend, through pgraft_init_from_gucs: returns at     *)
(* once when this process's instance is initialized, else loads the       *)
(* library if needed and initializes and starts an instance in this       *)
(* backend (an ERROR at any step keeps what was done before it).  A        *)
(* started instance lists the configured members.                         *)
SqlInit(b) ==
  /\ bpc[b] = "idle"
  /\ bengine[b] # "running"
  /\ \E l \in LoadLibrary(bengine[b]) :
       \E e \in StartInstance(l) :
         /\ e # bengine[b]
         /\ bengine' = [bengine EXCEPT ![b] = e]
         /\ blist' = [blist EXCEPT ![b] = IF e = "running" THEN EngineList
                                                           ELSE @]
  /\ UNCHANGED <<corevars, workervars, bpc, btarget, eng_leader, eng_term,
                 removed_ok>>

(* pgraft_kv_queue_operation, as pgraft_kv_put_sql and pgraft_kv_delete_sql *)
(* call it: first pgraft_update_shared_memory_from_go, which in a backend  *)
(* with a library of its own asks that instance and publishes the answer;   *)
(* then the unlocked check node_id == leader_id, whose outcome goes to the *)
(* command queue.  Without a library the refresh returns at once and      *)
(* nothing here changes.  A started instance answers with any leader and  *)
(* term, node id Self and its own member list (copied unless "[]"); one   *)
(* never initialized answers leader 0, term 0 and node id 0, which the     *)
(* "go_node_id > 0" test keeps out of node_id, and "[]".                   *)
KvQueueOperation(b) ==
  /\ bpc[b] = "idle"
  /\ \/ /\ bengine[b] = "loaded"
        /\ leader_id' = 0
        /\ current_term' = 0
        /\ state' = "follower"
        /\ UNCHANGED <<nodes, node_id, wnode>>
     \/ /\ bengine[b] = "running"
        /\ \E l \in Members \cup {0}, t \in 0 .. MaxTerm :
             /\ leader_id' = l
             /\ current_term' = t
             /\ state' = IF l > 0 /\ l = Self THEN "leader" ELSE "follower"
        /\ nodes' = IF Len(blist[b]) > 0 THEN UpdateNodes(blist[b]) ELSE nodes
        /\ node_id' = Self
        /\ wnode' = Self
  /\ initialized' = TRUE
  /\ UNCHANGED <<wpc, r_leader, r_term, backvars, eng_leader, eng_term,
                 removed_ok>>

(* pgraft_kv_put_sql and pgraft_kv_delete_sql (pgraft_kv_sql.c): a key or *)
(* value their checks refuse returns false with nothing changed (a       *)
(* stutter); otherwise replicate_kv_operation reaches                    *)
(* pgraft_kv_queue_operation through pgraft_kv_replicate_put or _delete.  *)
KvWriteSql(b) == KvQueueOperation(b)

(* The engine elects: a new term, with a leader among the members or none. *)
EngineElect ==
  /\ eng_term < MaxTerm
  /\ eng_term' = eng_term + 1
  /\ eng_leader' \in Members \cup {0}
  /\ UNCHANGED <<corevars, workervars, backvars, removed_ok>>

(* The worker's loop (pgraft_main): it starts once, then runs a refresh    *)
(* on every fifth turn for as long as it lives.                            *)
WorkerStep ==
  \/ WorkerStart \/ RefreshReadLeader \/ RefreshReadTerm
  \/ RefreshNodes \/ RefreshPublish

Next ==
  \/ WorkerStep
  \/ \E b \in Backends :
       \/ \E id \in Members : SqlRemoveCore(b, id)
       \/ SqlRemovePeer(b)
       \/ SqlInit(b)
       \/ KvWriteSql(b)
  \/ EngineElect

Spec == Init /\ [][Next]_vars

(* The worker's loop runs forever (it sleeps 100 ms a turn), so its steps  *)
(* are weakly fair; backends and the engine's elections get no fairness.   *)
FairSpec == Spec /\ WF_vars(WorkerStep)

(* pgraft_core_get_cluster_state: the copy of the structure that the       *)
(* status functions (pgraft_get_cluster_status_table, pgraft_get_leader,   *)
(* pgraft_get_term, pgraft_is_leader) work on, taken under the lock; a     *)
(* zeroed structure while initialized is false.                            *)
ClusterView ==
  IF initialized
    THEN [node_id |-> node_id, leader_id |-> leader_id,
          term |-> current_term, state |-> state, num_nodes |-> Len(nodes)]
    ELSE [node_id |-> 0, leader_id |-> 0, term |-> 0, state |-> "",
          num_nodes |-> 0]

(* The leader check of pgraft_kv_queue_operation, read without the lock.   *)
KvLeaderCheck == node_id = leader_id

----------------------------------------------------------------------------
ClusterTypeOK ==
  /\ initialized \in BOOLEAN
  /\ node_id \in Members \cup {-1}
  /\ leader_id \in Members \cup {0, -1}
  /\ current_term \in 0 .. MaxTerm
  /\ state \in {"stopped", "follower", "leader"}
  /\ nodes \in Seq(Members)
  /\ Len(nodes) <= Slots
  /\ wnode \in Members \cup {0}
  /\ wpc \in {"starting", "idle", "term", "nodes", "publish"}
  /\ r_leader \in Members \cup {0}
  /\ r_term \in 0 .. MaxTerm
  /\ bpc \in [Backends -> {"idle", "peer"}]
  /\ btarget \in [Backends -> Members]
  /\ bengine \in [Backends -> {"none", "loaded", "running"}]
  /\ blist \in [Backends -> Seq(Members)]
  /\ eng_leader \in Members \cup {0}
  /\ eng_term \in 0 .. MaxTerm
  /\ removed_ok \subseteq Members

(* Once the structure is initialized, the state string that               *)
(* pgraft_get_cluster_status_table shows says "leader" exactly when the    *)
(* KV write check node_id == leader_id passes.  Both writers, the worker's *)
(* refresh and a backend's, set node_id and worker_state->node_id before   *)
(* they derive the state from them.                                        *)
LeaderViewsAgree ==
  initialized => ((ClusterView.state = "leader") <=> KvLeaderCheck)

(* The node array lists the engine's members, each once.                   *)
NodesMatchEngine ==
  /\ initialized
  /\ Elems(nodes) = Members
  /\ Len(nodes) = Cardinality(Members)

(* The node array keeps coming back to the engine's membership (spec 6,    *)
(* get-nodes): whatever a backend removed, and although the first refresh  *)
(* cannot copy the list (the structure is not yet initialized when         *)
(* pgraft_core_update_nodes runs), the worker's refresh makes the array    *)
(* equal to the member list again and again.                               *)
NodesConverge == []<>NodesMatchEngine

(* A node that pgraft_remove_node reported removed is no longer listed     *)
(* (spec 4.1: RemoveNode changes the node list and the engine's peers).    *)
(* The SQL function only edits the array and never reaches the worker's    *)
(* engine, so the next refresh lists the node again.                       *)
RemovedStaysRemoved ==
  \A id \in removed_ok : id \notin Elems(nodes)

=============================================================================
