CONSTANTS
  Capacity = 2
  MaxIndex = 3
  Terms <- MC_Terms
  IntWidth <- MC_IntWidth
  SqlArgs <- MC_SqlArgs
  QueueSlots = 2
SPECIFICATION LCSpec
INVARIANT TypeOK
 
INVARIANT WatermarksOrdered
INVARIANT ReportsConsistent
