SPECIFICATION Spec
CONSTANTS
  NBlocks = 3
  Values = {v1, v2}
  NSlots = 2
  NBuckets = 2
  ReadAhead = 1
  ReadOk <- Faulty
  EvictOk <- Reliable
  SyncOk <- Faulty
INVARIANTS Indexed CleanMatchesDisk ReadaheadKeepsBlock
PROPERTY StoreSpec
