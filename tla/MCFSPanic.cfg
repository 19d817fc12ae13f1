\* The modes the broker uses; open files are removed, as remove_box does.
CONSTANTS
  Names = {n1, n2}
  BadNames = {bad}
  Modes <- BrokerModes
  Bytes = {a}
  Junk = Junk
  NoName = NoName
  INODE_TABLE_SIZE = 4
  DATA_BLOCKS = 3
  MAX_OPEN_FILES = 2
  MAX_DIR_ENTRIES = 2
  BLOCK_SIZE = 2
  Word = 16
  MaxLen = 1
  MaxOffset = 3
  UnlinkWhileOpen = TRUE
SPECIFICATION Spec
INVARIANT NeverHalts
CHECK_DEADLOCK FALSE
