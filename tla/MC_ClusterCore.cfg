\* The node array under the worker's refresh, SQL removals and elections.
CONSTANTS
  b1 = b1
  Members <- MC_Members
  Self = 1
  Order <- MC_Order
  Slots = 2
  MaxTerm = 2
  Backends <- MC_Backends
SPECIFICATION FairSpec
INVARIANT ClusterTypeOK LeaderViewsAgree
PROPERTY NodesConverge
