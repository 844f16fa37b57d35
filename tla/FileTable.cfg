\* Two handles; blocks for two open files, and for a third fopen to fail.
SPECIFICATION Spec
CONSTANTS
  MAX_FILE_DESCRIPTORS = 2
  HEAP_BLOCKS = 20
  root_directory <- MCRoot
  Paths <- MCPaths
  Offsets <- MCOffsets
  POS_MOD = 3
  NOTHING = NOTHING
INVARIANTS TypeOK HandlesOwnTheirBlocks
PROPERTIES OnlyOpenLosesBlocks ImplementsOpenFiles
