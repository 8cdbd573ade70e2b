SPECIFICATION FairSpec
CONSTANTS
  Blocks = 10
  Limit = 2
  Word = 16
  Lo = 0
  Hi = 4
  Disks <- MCDisks
  Sizes = {0, 1, 3}
  MaxRuns = 3
INVARIANTS TypeOK NeverMixed Installed
PROPERTIES NoCollateral Ends AreaSpec
CHECK_DEADLOCK FALSE
