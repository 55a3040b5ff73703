CONSTANTS
  apply_cb = apply_cb
  backend = backend
  k1 = k1
  k2 = k2
  v1 = v1
  v2 = v2
  NoKey = NoKey
  NoValue = NoValue
  Procs <- MC_Procs
  Keys <- MC_Keys
  Values <- MC_Values
  LogIndexes <- MC_LogIndexes
  StoreCapacity <- MC_StoreCapacity
  MaxVersion <- MC_MaxVersion
SPECIFICATION KVSpec
INVARIANT SnapshotIntact
