------------------------- MODULE ClusterCoreProofs -------------------------
(***************************************************************************)
(* Proofs about the cluster structure of pgraft_core.c and its two         *)
(* writers, for every membership, every array size, every bound on the     *)
(* term and every set of backends.                                         *)
(*                                                                         *)
(* ClusterTypeOK is inductive on its own once the two sequence operations  *)
(* the writers use are shown to stay within the array: the copy of the     *)
(* member list keeps at most Slots ids (FirstSlotsType), and the removal   *)
(* of one slot shortens the array by one (RemoveAtType).                   *)
(* LeaderViewsAgree needs ClusterTypeOK only for the fact that the leader  *)
(* a writer publishes is a member or 0; IInv is their conjunction.         *)
(***************************************************************************)
EXTENDS ClusterCore, SequenceTheorems, TLAPS

IInv == ClusterTypeOK /\ LeaderViewsAgree

(* The copy pgraft_core_update_nodes makes of a member list: a list of     *)
(* members again, of at most Slots ids.                                    *)
LEMMA FirstSlotsType ==
  ASSUME NEW list \in Seq(Members)
  PROVE  /\ FirstSlots(list) \in Seq(Members)
         /\ Len(FirstSlots(list)) <= Slots
<1> DEFINE n == IF Len(list) < Slots THEN Len(list) ELSE Slots
<1>1. n \in 0 .. Len(list) /\ n <= Slots
  BY ClusterAssumption
<1>2. \A i \in 1 .. n : list[i] \in Members
  BY <1>1, ElementOfSeq
<1>3. /\ SubSeq(list, 1, n) \in Seq(Members)
      /\ Len(SubSeq(list, 1, n)) = IF 1 <= n THEN n ELSE 0
  BY <1>1, <1>2, SubSeqProperties
<1>. QED
  BY <1>1, <1>3 DEF FirstSlots

(* The shift pgraft_core_remove_node does: dropping slot i of an array     *)
(* leaves an array of the same elements one shorter.                       *)
LEMMA RemoveAtType ==
  ASSUME NEW S, NEW s \in Seq(S), NEW i \in 1 .. Len(s)
  PROVE  /\ SubSeq(s, 1, i - 1) \o SubSeq(s, i + 1, Len(s)) \in Seq(S)
         /\ Len(SubSeq(s, 1, i - 1) \o SubSeq(s, i + 1, Len(s))) = Len(s) - 1
<1>1. /\ SubSeq(s, 1, i - 1) \in Seq(S)
      /\ Len(SubSeq(s, 1, i - 1)) = i - 1
  <2>1. \A k \in 1 .. i - 1 : s[k] \in S
    BY ElementOfSeq
  <2>. QED
    BY <2>1, SubSeqProperties
<1>2. /\ SubSeq(s, i + 1, Len(s)) \in Seq(S)
      /\ Len(SubSeq(s, i + 1, Len(s))) = Len(s) - i
  <2>1. \A k \in i + 1 .. Len(s) : s[k] \in S
    BY ElementOfSeq
  <2>. QED
    BY <2>1, SubSeqProperties
<1>3. Len(s) \in Nat /\ i \in Int
  BY LenProperties
<1>4. /\ SubSeq(s, 1, i - 1) \o SubSeq(s, i + 1, Len(s)) \in Seq(S)
      /\ Len(SubSeq(s, 1, i - 1) \o SubSeq(s, i + 1, Len(s)))
           = Len(SubSeq(s, 1, i - 1)) + Len(SubSeq(s, i + 1, Len(s)))
  BY <1>1, <1>2, ConcatProperties
<1>5. (i - 1) + (Len(s) - i) = Len(s) - 1
  BY <1>3
<1>. QED
  BY <1>1, <1>2, <1>4, <1>5, Zenon

(* A member list copied through pgraft_core_update_nodes.                  *)
LEMMA UpdateNodesType ==
  ASSUME ClusterTypeOK, NEW list \in Seq(Members)
  PROVE  /\ UpdateNodes(list) \in Seq(Members)
         /\ Len(UpdateNodes(list)) <= Slots
BY FirstSlotsType DEF UpdateNodes, ClusterTypeOK

(* A backend instance's list after its remove_peer is a list of members.   *)
LEMMA DropPeerType ==
  ASSUME NEW list \in Seq(Members), NEW id
  PROVE  DropPeer(list, id) \in Seq(Members)
<1>1. CASE \E i \in 1 .. Len(list) : list[i] = id
  <2> DEFINE i == CHOOSE i \in 1 .. Len(list) : list[i] = id
  <2>1. i \in 1 .. Len(list)
    BY <1>1
  <2>. QED
    BY <1>1, <2>1, RemoveAtType DEF DropPeer, DropSlot
<1>2. CASE ~\E i \in 1 .. Len(list) : list[i] = id
  BY <1>2 DEF DropPeer
<1>. QED
  BY <1>1, <1>2

LEMMA InitIInv == Init => IInv
<1> SUFFICES ASSUME Init PROVE IInv
  OBVIOUS
<1>1. << >> \in Seq(Members) /\ Len(<< >>) = 0
  BY EmptySeq
<1>2. Self \in Members /\ 0 \in 0 .. MaxTerm /\ Slots \in Nat
  BY ClusterAssumption
<1>3. /\ bpc \in [Backends -> {"idle", "peer"}]
      /\ btarget \in [Backends -> Members]
      /\ bengine \in [Backends -> {"none", "loaded", "running"}]
      /\ blist \in [Backends -> Seq(Members)]
  BY <1>1, <1>2 DEF Init
<1>4. ClusterTypeOK
  <2>1. nodes \in Seq(Members) /\ Len(nodes) <= Slots
    BY <1>1, <1>2 DEF Init
  <2>2. node_id \in Members \cup {-1} /\ leader_id \in Members \cup {0, -1}
    BY DEF Init
  <2>3. /\ current_term \in 0 .. MaxTerm /\ r_term \in 0 .. MaxTerm
        /\ eng_term \in 0 .. MaxTerm
    BY <1>2 DEF Init
  <2>. QED
    BY <1>3, <2>1, <2>2, <2>3 DEF Init, ClusterTypeOK
<1>. QED
  BY <1>4 DEF Init, IInv, LeaderViewsAgree, ClusterView, KvLeaderCheck

LEMMA NextIInv == IInv /\ [Next]_vars => IInv'
<1> SUFFICES ASSUME IInv, [Next]_vars PROVE IInv'
  OBVIOUS
<1>0. ClusterTypeOK /\ LeaderViewsAgree
  BY DEF IInv
<1> USE DEF IInv, corevars, workervars, backvars
<1>1. CASE WorkerStart
  BY <1>0, <1>1 DEF WorkerStart, ClusterTypeOK, LeaderViewsAgree, ClusterView, KvLeaderCheck
<1>2. CASE RefreshReadLeader
  BY <1>0, <1>2 DEF RefreshReadLeader, ClusterTypeOK, LeaderViewsAgree, ClusterView, KvLeaderCheck
<1>3. CASE RefreshReadTerm
  BY <1>0, <1>3 DEF RefreshReadTerm, ClusterTypeOK, LeaderViewsAgree, ClusterView, KvLeaderCheck
<1>4. CASE RefreshNodes
  <2>0. EngineList \in Seq(Members)
    BY ClusterAssumption DEF EngineList
  <2>1. nodes' \in Seq(Members) /\ Len(nodes') <= Slots
    BY <1>0, <1>4, <2>0, UpdateNodesType DEF RefreshNodes, ClusterTypeOK
  <2>. QED
    BY <1>0, <1>4, <2>1 DEF RefreshNodes, ClusterTypeOK, LeaderViewsAgree, ClusterView, KvLeaderCheck
<1>5. CASE RefreshPublish
  <2>1. Self \in Nat \ {0}
    BY ClusterAssumption
  <2>2. ClusterTypeOK'
    BY <1>0, <1>5, ClusterAssumption DEF RefreshPublish, ClusterTypeOK
  <2>3. LeaderViewsAgree'
    BY <1>0, <1>5, <2>1 DEF RefreshPublish, ClusterTypeOK, LeaderViewsAgree, ClusterView, KvLeaderCheck
  <2>. QED
    BY <2>2, <2>3
<1>6. ASSUME NEW b \in Backends, NEW id \in Members, SqlRemoveCore(b, id)
      PROVE  IInv'
  <2>1. PICK i \in 1 .. Len(nodes) :
               nodes' = SubSeq(nodes, 1, i - 1) \o SubSeq(nodes, i + 1, Len(nodes))
    BY <1>6 DEF SqlRemoveCore, DropSlot
  <2>2. nodes \in Seq(Members) /\ Len(nodes) <= Slots /\ Slots \in Nat
    BY <1>0, ClusterAssumption DEF ClusterTypeOK
  <2>3. nodes' \in Seq(Members) /\ Len(nodes') = Len(nodes) - 1
    BY <2>1, <2>2, RemoveAtType
  <2>4. nodes' \in Seq(Members) /\ Len(nodes') <= Slots
    BY <2>2, <2>3
  <2>. QED
    BY <1>0, <1>6, <2>4 DEF SqlRemoveCore, ClusterTypeOK, LeaderViewsAgree, ClusterView, KvLeaderCheck
<1>7. ASSUME NEW b \in Backends, SqlRemovePeer(b)
      PROVE  IInv'
  <2>1. blist' \in [Backends -> Seq(Members)]
    <3>1. DropPeer(blist[b], btarget[b]) \in Seq(Members)
      BY <1>0, DropPeerType DEF ClusterTypeOK
    <3>. QED
      BY <1>0, <1>7, <3>1 DEF SqlRemovePeer, ClusterTypeOK
  <2>2. removed_ok' \subseteq Members
    BY <1>0, <1>7 DEF SqlRemovePeer, ClusterTypeOK
  <2>3. bpc' \in [Backends -> {"idle", "peer"}]
    BY <1>0, <1>7 DEF SqlRemovePeer, ClusterTypeOK
  <2>4. UNCHANGED <<corevars, workervars, btarget, bengine, eng_leader, eng_term>>
    BY <1>7 DEF SqlRemovePeer
  <2>5. ClusterTypeOK'
    BY <1>0, <2>1, <2>2, <2>3, <2>4 DEF ClusterTypeOK
  <2>6. LeaderViewsAgree'
    BY <1>0, <2>4 DEF LeaderViewsAgree, ClusterView, KvLeaderCheck
  <2>. QED
    BY <2>5, <2>6
<1>8. ASSUME NEW b \in Backends, SqlInit(b)
      PROVE  IInv'
  <2>1. EngineList \in Seq(Members)
    BY ClusterAssumption DEF EngineList
  <2>. QED
    BY <1>0, <1>8, <2>1 DEF SqlInit, LoadLibrary, StartInstance, ClusterTypeOK,
                            LeaderViewsAgree, ClusterView, KvLeaderCheck
<1>9. ASSUME NEW b \in Backends, KvQueueOperation(b)
      PROVE  IInv'
  <2>1. CASE bengine[b] = "loaded"
    <3>2. /\ leader_id' = 0 /\ current_term' = 0 /\ state' = "follower"
          /\ UNCHANGED <<nodes, node_id, wnode>>
      BY <1>9, <2>1 DEF KvQueueOperation
    <3>3. ClusterTypeOK'
      BY <1>0, <1>9, <3>2, ClusterAssumption DEF KvQueueOperation, ClusterTypeOK
    <3>4. LeaderViewsAgree'
      BY <1>0, <1>9, <3>2, ClusterAssumption
         DEF KvQueueOperation, ClusterTypeOK, LeaderViewsAgree,
                              ClusterView, KvLeaderCheck
    <3>. QED
      BY <3>3, <3>4
  <2>5. CASE bengine[b] = "running"
    <3>6. PICK l \in Members \cup {0}, t \in 0 .. MaxTerm :
            /\ leader_id' = l
            /\ current_term' = t
            /\ state' = IF l > 0 /\ l = Self THEN "leader" ELSE "follower"
      BY <1>9, <2>5 DEF KvQueueOperation
    <3>7. /\ nodes' = IF Len(blist[b]) > 0 THEN UpdateNodes(blist[b]) ELSE nodes
          /\ node_id' = Self /\ wnode' = Self
      BY <1>9, <2>5 DEF KvQueueOperation
    <3>8. nodes' \in Seq(Members) /\ Len(nodes') <= Slots
      BY <1>0, <3>7, UpdateNodesType DEF ClusterTypeOK
    <3>3. ClusterTypeOK'
      BY <1>0, <1>9, <3>6, <3>7, <3>8, ClusterAssumption
         DEF KvQueueOperation, ClusterTypeOK
    <3>4. LeaderViewsAgree'
      BY <1>9, <3>6, <3>7, ClusterAssumption
         DEF KvQueueOperation, LeaderViewsAgree, ClusterView, KvLeaderCheck
    <3>. QED
      BY <3>3, <3>4
  <2>. QED
    BY <1>9, <2>1, <2>5 DEF KvQueueOperation
<1>10. CASE EngineElect
  <2>0. /\ eng_term' \in 0 .. MaxTerm /\ eng_leader' \in Members \cup {0}
        /\ UNCHANGED <<corevars, workervars, backvars, removed_ok>>
    BY <1>0, <1>10, ClusterAssumption DEF EngineElect, ClusterTypeOK
  <2>1. ClusterTypeOK'
    BY <1>0, <2>0 DEF corevars, workervars, backvars, ClusterTypeOK
  <2>2. LeaderViewsAgree'
    BY <1>0, <1>10 DEF EngineElect, LeaderViewsAgree, ClusterView, KvLeaderCheck
  <2>. QED
    BY <2>1, <2>2
<1>11. CASE UNCHANGED vars
  BY <1>0, <1>11 DEF vars, ClusterTypeOK,
                     LeaderViewsAgree, ClusterView, KvLeaderCheck
<1>. QED
  BY <1>1, <1>2, <1>3, <1>4, <1>5, <1>6, <1>7, <1>8, <1>9, <1>10, <1>11
     DEF Next, WorkerStep, KvWriteSql

(* Whatever the worker, the backends and the engine do, every field of the *)
(* cluster structure keeps its type, and the node array never holds more   *)
(* than the Slots ids pgraft_core_update_nodes and pgraft_core_remove_node *)
(* are written for.                                                        *)
THEOREM TypeCorrect == Spec => []ClusterTypeOK
<1>1. Init => IInv
  BY InitIInv
<1>2. IInv /\ [Next]_vars => IInv'
  BY NextIInv
<1>3. IInv => ClusterTypeOK
  BY DEF IInv
<1>. QED
  BY <1>1, <1>2, <1>3, PTL DEF Spec

(* Once initialized, the state string the status functions show is         *)
(* "leader" exactly when the KV write check node_id == leader_id passes,   *)
(* whichever of the worker's refresh and a backend's refresh published     *)
(* last.                                                                   *)
THEOREM LeaderAgreement == Spec => []LeaderViewsAgree
<1>1. Init => IInv
  BY InitIInv
<1>2. IInv /\ [Next]_vars => IInv'
  BY NextIInv
<1>3. IInv => LeaderViewsAgree
  BY DEF IInv
<1>. QED
  BY <1>1, <1>2, <1>3, PTL DEF Spec

=============================================================================
