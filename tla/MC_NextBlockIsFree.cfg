CONSTANTS
  BLOCK_BYTES = 2
  INODE_BYTES = 1
  MAX_FILES_PER_DIRECTORY = 7
  DIR_ENTRIES = 3
  DIRECT = 1
  RESERVED_BLOCKS = 6
  RESERVED_INODES = 5
  Names = {"a", "ab"}
  Prefixes <- MCPrefixes
  Sizes = {1, 3}
  MaxCreates = 5
  MaxDeletes = 1
SPECIFICATION Spec
INVARIANT NextBlockIsFree
