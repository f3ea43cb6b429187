CONSTANTS
  t1 = t1
  t2 = t2
  nobody = nobody
  null = null
  b1 = b1
  b2 = b2
  b3 = b3
  b4 = b4
  b5 = b5
  Threads <- MCThreads
  Bufs <- MCBufs
  Nobody = nobody
  Null = null
  Caps <- MCCaps
  Sizes <- MCSizes
  Unit = 2
  InitList <- MCInitList
  MemLimit = 7
SYMMETRY MCSymmetry
SPECIFICATION Spec
INVARIANTS
  ExclusiveOwnership
  AllocResult
  NothingLeaks
  MemoryAccounted
\* The process stops when alloc_buf calls exit(1).
CHECK_DEADLOCK FALSE
