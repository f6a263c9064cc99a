SPECIFICATION Spec
CONSTANTS
  Depth = 3
  Commands = 7
  Submitters <- BothCores
  Timeouts = 1
  Prompt = TRUE
  PAGE_SZ = 4
  ListPower = 2
  Mdts <- SomeMdts
  BlockSizes <- SomeBlockSizes
  Blocks = 11
  Hangs = TRUE
  SECTOR = 2
  MAX_SECTORS = 3
  PRDS_PER_TABLE = 3
  LBA28 = 9
  Requests <- SomeRequests
INVARIANTS   TransferExact
PROPERTIES  EveryCommandReturns
CHECK_DEADLOCK FALSE
