SPECIFICATION Spec
CONSTANTS
  SLAB_SIZE = 8
  class_size <- Sizes
  DescSize = 1
  RegionSize = 42
  Requests <- Asked
INVARIANTS NoOverlap Accounted
CHECK_DEADLOCK FALSE
