SPECIFICATION FairSpec
CONSTANTS
  Cells = 3
  MaxLoads = 2
  MaxFails = 1
  Discs <- MCDiscs
  Paths <- MCPaths
  Fold <- MCFold
INVARIANTS TypeOK CacheCoherent NeverBeyond
PROPERTIES LoadsFile Returns
CHECK_DEADLOCK FALSE
