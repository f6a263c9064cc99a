SPECIFICATION Spec
CONSTANTS
  NBlocks = 3
  Values = {v1, v2}
  NSlots = 2
  NBuckets = 2
  ReadAhead = 2
  ReadOk <- Faulty
  EvictOk <- Faulty
  SyncOk <- Faulty
PROPERTIES DirtyUntilWritten
