\* Five blocks; requests of one, two and three blocks and one that never fits.
CONSTANTS
  HEAP_BLOCK_SIZE_BYTES = 4
  HEAP_SIZE_IN_BYTES = 20
  HEAP_START_ADDR = 8
  SIZE_MOD = 64
  Requests = {4, 5, 9, 24}
  StrayAddrs = {9}

SPECIFICATION LoopSpec

INVARIANTS
  LoopTypeOK
  LoopInv

PROPERTIES
  ImplementsKernelHeap
  CallsReturn
