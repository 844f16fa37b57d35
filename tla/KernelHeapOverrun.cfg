\* The smallest requests that leave a free run too short for the second one.
CONSTANTS
  HEAP_BLOCK_SIZE_BYTES = 4
  HEAP_SIZE_IN_BYTES = 24
  HEAP_START_ADDR = 8
  SIZE_MOD = 64
  Requests = {4, 9}
  StrayAddrs = {9}

SPECIFICATION Spec

INVARIANT AllocationsInsideHeap
