\* A line of two cells and one cell behind the screen; a buffer of two slots
\* whose counters wrap at four; two glyphs, the second the byte behind the
\* table, the backspace and a release.
CONSTANTS
  VGA_WIDTH = 2
  VGA_HEIGHT = 1
  CELLS = 3
  Glyphs = {32, 65, 66, 67}
  BEHIND = 67
  MAX_FILESYSTEMS = 2
  MAX_COMMANDS = 5
  PanicMessage <- MCPanicMessage
  NULL = NULL
  BUFFER_SIZE = 2
  INT_MOD = 4
  TABLE_SIZE = 3
  scan_set_one <- MCScanSetOne
  PastTable = {66}
  KEY_RELEASED = 6
  Scancodes = {1, 2, 3, 7}
  PORT_BOUND = 2

SPECIFICATION SystemSpec

INVARIANTS
  SystemTypeOK
  ScreenInOrder
  MountedOrClean

PROPERTIES
  ImplementsEcho
  EveryKeyIsShown
  FirstCodeIsStored
  
