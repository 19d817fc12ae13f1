\* Callers that remove and truncate files others have open.  Four inodes and
\* two entries, so that the directory fills up before the inode table, two
\* files competing for two blocks of one byte, and offsets past a file's end.
CONSTANTS
  Names = {n1, n2, n3}
  BadNames = {bad}
  Modes <- LibraryModes
  Bytes = {a}
  Junk = Junk
  NoName = NoName
  INODE_TABLE_SIZE = 4
  DATA_BLOCKS = 3
  MAX_OPEN_FILES = 2
  MAX_DIR_ENTRIES = 2
  BLOCK_SIZE = 1
  Word = 16
  MaxLen = 1
  MaxOffset = 2
  UnlinkWhileOpen = TRUE
SYMMETRY DataSymmetry
SPECIFICATION Spec
INVARIANTS
  TypeOK
  DirectorySound
  LiveBlocksExclusive
CHECK_DEADLOCK FALSE
