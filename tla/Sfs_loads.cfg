SPECIFICATION FairSpec
CONSTANTS
  BlockSize = 2
  Loads <- MCLoads
  Fold <- MCFold
  Strays <- MCStrays
INVARIANTS NeverBeyond
PROPERTIES LoadsFile Returns
CHECK_DEADLOCK FALSE
