\* Two-letter names, one-letter extensions and paths of at most seven
\* characters; longer ones are among the inputs.
CONSTANTS
  MAX_PATH_LENGTH = 7
  NAME_BYTES = 2
  EXT_BYTES = 1
  Filenames <- MCFilenames
  Directories <- MCDirectories

SPECIFICATION Spec

INVARIANTS
  TypeOK
  ParsedAsSplit
  AllFreed
  LookupIsExact

\* A call of fopen ends.
CHECK_DEADLOCK FALSE
