SPECIFICATION Spec
CONSTANTS
  Tasks = {t1, t2}
  Names = {"a", "b"}
  Paths <- MCPaths
  Chars = {x, y}
  ITABLE = 3
  NBLOCKS = 3
  BLOCK_BYTES = 2
  NOFILE = 1
  MaxEntries = 4
  MaxSize = 3
  NULL = NULL
SYMMETRY Symmetry
INVARIANT MapsAsserted
