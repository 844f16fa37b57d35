\* Three slots and counters that wrap at nine; a press, a key without a
\* character, the index past the table, a code past it and a release.  The
\* program lags at most a full buffer behind.
CONSTANTS
  BUFFER_SIZE = 3
  INT_MOD = 9
  TABLE_SIZE = 3
  scan_set_one <- MCScanSetOne
  PastTable = {0, 1}
  KEY_RELEASED = 6
  Scancodes = {0, 1, 2, 3, 4, 7}
  PORT_BOUND = 2
  MaxUnread = 3
  MinErase = 1

SPECIFICATION Spec

INVARIANTS
  TypeOK
  FilledFromHead

PROPERTIES
  ImplementsQueue
  EveryKeyIsRead
