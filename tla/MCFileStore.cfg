\* The modes the broker uses and no open file removed: two files of two bytes,
\* two handles, every buffer of one or two bytes.  No later call looks at ret, so
\* that states which differ in it only are one.
CONSTANTS
  Names = {n1, n2}
  BadNames = {}
  Modes <- BrokerModes
  Bytes = {a, b}
  Junk = Junk
  NoName = NoName
  INODE_TABLE_SIZE = 3
  DATA_BLOCKS = 3
  MAX_OPEN_FILES = 2
  MAX_DIR_ENTRIES = 2
  BLOCK_SIZE = 2
  Word = 16
  MaxLen = 2
  MaxOffset = 3
  UnlinkWhileOpen = FALSE
VIEW Kept
SYMMETRY DataSymmetry
SPECIFICATION Spec
INVARIANT NeverHalts
PROPERTY ImplementsFileStore
