\* Six blocks of four bytes; requests of one, two and three blocks, one that
\* rounds up exactly and one that does not, and one that never fits.
CONSTANTS
  HEAP_BLOCK_SIZE_BYTES = 4
  HEAP_SIZE_IN_BYTES = 24
  HEAP_START_ADDR = 8
  SIZE_MOD = 64
  Requests = {1, 4, 5, 9, 28}
  StrayAddrs = {9}

SPECIFICATION Spec

INVARIANTS
  TypeOK
  LiveDisjoint
  TableMatchesLive

PROPERTY
  ImplementsContract
