SPECIFICATION Spec
CONSTANTS
  SECTOR_SIZE = 2
  sectors_per_cluster = 2
  reserved_sectors = 1
  ending_sector_pos = 8
  MaxCluster = 4
  MaxChain = 2
  INT_LIMIT = 32
  Words = {0, 3, 4, 7, 65535}
  Sizes = {1, 2, 3, 5, 7}
  Counts = {1, 2}
INVARIANTS TypeOK ExactCount FirstClusterRead
PROPERTIES ReadReturnsEventually
