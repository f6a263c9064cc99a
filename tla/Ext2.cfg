SPECIFICATION Spec
CONSTANTS
  Groups = 2
  BlocksPerGroup = 3
  InodesPerGroup = 2
  Direct = 2
  PerIndirect = 1
  DirEntries = 3
  Paths <- TwoLevels
  Contents <- TwoFiles
VIEW View
INVARIANTS LinksAgree 
PROPERTY TreePromise
