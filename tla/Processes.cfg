SPECIFICATION Spec
CONSTANTS
  PAGE_SIZE_IN_BYTES = 2
  PAGE_TABLE_ENTRIES_PER_TABLE = 4
  HEAP_ADDRESS = 16
  HEAP_BLOCKS = 8
  MAX_PROCESSES = 2
  FileSizes = {1, 3}
  PROGRAM_VIRTUAL_ADDRESS = 8
  STACK_VIRTUAL_ADDRESS_END = 4
  STACK_SIZE = 2
  STRUCT_SIZE = 3
  UserAddrs = {4, 8}
  LoadFails = TRUE
  SecondLoads = 1
  KERNEL = KERNEL
  NONE = NONE
INVARIANTS TypeOK Isolation ProgramInPlace CopyArrives
