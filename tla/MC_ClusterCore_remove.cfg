\* pgraft_remove_node against the worker's next refresh.
CONSTANTS
  b1 = b1
  Members <- MC_Members
  Self = 1
  Order <- MC_Order
  Slots = 2
  MaxTerm = 2
  Backends <- MC_Backends
SPECIFICATION Spec
INVARIANT RemovedStaysRemoved
