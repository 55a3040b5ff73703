\* The commit stream ends; the engine then waits for more commits, which
\* the model has none of, so the final states are not a deadlock.
CONSTANTS
  apply_cb = apply_cb
  backend = backend
  k1 = k1
  k2 = k2
  v1 = v1
  v2 = v2
  NoKey = NoKey
  NoValue = NoValue
  ApplyProc = apply_cb
  Procs <- MC_Procs
  Keys <- MC_Keys
  Values <- MC_Values
  LogIndexes <- MC_LogIndexes
  StoreCapacity <- MC_StoreCapacity
  MaxVersion <- MC_MaxVersion
  Stream <- MC_Stream
  Paths <- MC_CallbackPath
  ApplyQueueSize <- MC_ApplyQueueSize
  MaxRestarts <- MC_MaxRestarts
SPECIFICATION Spec
INVARIANT AtMostOnce
CHECK_DEADLOCK FALSE
